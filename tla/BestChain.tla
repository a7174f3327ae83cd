----------------------------- MODULE BestChain -----------------------------
(***************************************************************************)
(* What the chain promises: blocks are accepted one at a time, parents     *)
(* first, and the tip moves to an accepted block when, and only when, its  *)
(* chain has strictly more cumulative work (README: "Cumulative-work tip   *)
(* selection").  Chain implements this.                                    *)
(***************************************************************************)
EXTENDS Integers

CONSTANTS
    Blocks,     \* every block that may ever be offered
    Genesis,    \* the block initGenesis stores
    Parent,     \* Parent[b]: the block b extends
    Work        \* Work[b]: the work of b alone

VARIABLES
    accepted,   \* accepted block -> cumulative work
    tip         \* the best of them

vars == <<accepted, tip>>

Init == accepted = [b \in {Genesis} |-> 0] /\ tip = Genesis

Accept(b) ==
    /\ b \notin DOMAIN accepted
    /\ Parent[b] \in DOMAIN accepted
    /\ LET total == accepted[Parent[b]] + Work[b]
       IN  /\ accepted' = [c \in DOMAIN accepted \cup {b} |->
                             IF c = b THEN total ELSE accepted[c]]
           /\ tip' = IF total > accepted[tip] THEN b ELSE tip

Next == \E b \in Blocks \ {Genesis} : Accept(b)

Spec == Init /\ [][Next]_vars
=============================================================================
