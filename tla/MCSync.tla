------------------------------- MODULE MCSync -------------------------------
(* Two blocks on a branch; the second peer ends its own with a bad header.   *)
(*                                                                           *)
(* Or, apart from them, two connections over which a transaction and a name  *)
(* of an instruction come; names have no handler.                           *)
EXTENDS Sync, Gossip, TLC
CONSTANTS gen, one, two, bad, p1, p2, c1, c2, tx, name
Tree == one :> gen @@ two :> one @@ bad :> one
Branches == p1 :> <<one, two>> @@ p2 :> <<one, bad>>

VARIABLE part
MCInit == part \in {"sync", "gossip"} /\ Init /\ GossipInit
MCNext ==
    /\ \/ part = "sync" /\ Next /\ UNCHANGED gossipVars
       \/ part = "gossip" /\ GossipNext /\ UNCHANGED vars
    /\ UNCHANGED part
MCSpec == MCInit /\ [][MCNext]_<<vars, gossipVars, part>> /\ SyncFairness /\ GossipFairness
=============================================================================
