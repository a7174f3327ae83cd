------------------------------- MODULE MCChain ------------------------------
(* A small tree of blocks for TLC: two branches a1-a2 and b1-b2 on the       *)
(* genesis block, of which the second is heavier, a child a3 of a2 that makes *)
(* the first as heavy again, a block z with a false effects root, a block u   *)
(* that is not mined, one of the wrong height (w) and one without a parent.   *)
EXTENDS Chain, TLC

CONSTANTS g, a1, a2, a3, b1, b2, o, u, w, z

Tree == a1 :> g @@ a2 :> a1 @@ a3 :> a2 @@ b1 :> g @@ b2 :> b1 @@ z :> a1
        @@ g :> Zero @@ o :> Zero @@ u :> g @@ w :> g
AllBlocks == DOMAIN Tree
FewBlocks == {g, a1, a2, b1, b2, o}

MCParent == [b \in Blocks |-> Tree[b]]
MCHeight == [b \in Blocks |-> CASE b \in {g, o} -> 0 [] b \in {a1, b1, u} -> 1 [] b = a3 -> 3
                                [] OTHER -> 2]
\* a2 has 3, b1 3, b2 4, a3 4.
MCWork == [b \in Blocks |-> CASE b \in {a1, b2, a3, w} -> 1 [] b = a2 -> 2 [] b = g -> 0
                              [] b = z -> 2 [] OTHER -> 3]
MCTime == [b \in Blocks |-> CASE b \in {g, o} -> 1 [] b \in {a1, b1} -> 3 [] b = a2 -> 4
                              [] b = b2 -> 3 [] OTHER -> 5]
MCMined == Blocks \ {u}
MCKind == [b \in Blocks |-> CASE b \in {a1, b1, o} -> "write" [] b \in {a2, b2} -> "read"
                              [] b = z -> "bad" [] OTHER -> "empty"]
=============================================================================
