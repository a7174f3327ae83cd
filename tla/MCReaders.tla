----------------------------- MODULE MCReaders ------------------------------
(* What a node serves from its state, one at a time: an export of its store,   *)
(* a cache in front of it, or the stream of events.                          *)
(*                                                                           *)
(* Three keys, two of which the store holds at first.  Blocks write a new key, *)
(* write one and delete another, or delete a key and write it again, which puts  *)
(* it last. The target of an import is empty or holds a key already. A client   *)
(* of the stream asks for all events or for those of one sender.             *)
EXTENDS Mirror, EventStream, TLC

CONSTANTS k1, k2, k3, alice, bob

Write1(k) == [type |-> "put", key |-> k]
Delete1(k) == [type |-> "delete", key |-> k]
MCBatches == {<<Write1(k3)>>, <<Write1(k1), Delete1(k2)>>, <<Delete1(k1), Write1(k1)>>}
MCGenesis == <<Entry(k1, 0), Entry(k2, 0)>>
MCImports == {<<>>, <<Entry(k2, 0)>>}
MCWanted == {<<k1>>, <<k2>>, <<k3, k1>>}

MCEvents == {[type |-> "mempool_admit", from |-> alice, txId |-> "t1"],
             [type |-> "block_include", from |-> bob, txId |-> "t2"]}
MCFilters == {[types |-> {}, addr |-> {}, txId |-> {}], [types |-> {}, addr |-> {alice}, txId |-> {}]}

FetchSymmetry == Permutations(Fetches)

ReadersInit == MirrorInit /\ StreamInit
ReadersNext ==
    \/ reader # "stream" /\ MirrorNext /\ UNCHANGED stream
    \/ reader = "stream" /\ StreamNext /\ UNCHANGED <<store, reader, copy, mirror>>
ReadersSpec == ReadersInit /\ [][ReadersNext]_<<store, reader, copy, mirror, stream>>
=============================================================================
