-------------------------------- MODULE Sync --------------------------------
(***************************************************************************)
(* Headers-first synchronisation, src/sync/service.ts.  The service is     *)
(* driven from outside: the operator starts and stops it, peers come, go   *)
(* and answer, and whoever listens to block:validated stores the block.    *)
(* A step is what a method does between two awaits.                        *)
(***************************************************************************)
EXTENDS Naturals, FiniteSets, Sequences, SequencesExt, Filters

CONSTANTS
    Blocks,             \* hashes of the blocks that peers have
    Genesis,            \* the block the node starts from, not in Blocks
    Parent,             \* the parent of each block
    Refused,            \* blocks whose header claims a false height or a time too far ahead
    Peers,
    Branch,             \* the headers a peer has, in order
    MaxHeaders,         \* maxHeadersPerRequest
    MaxPerRequest,      \* maxBlocksPerRequest
    MaxConcurrent,      \* maxConcurrentBlocks
    MaxOrphans,         \* maxOrphans
    MaxAsked,           \* bound: requests for headers
    MaxStray,           \* bound: messages nobody asked for
    MaxChurn,           \* bound: peers that are removed or register again
    None                \* no peer

ASSUME SyncAssumption ==
    /\ Genesis \notin Blocks /\ Refused \subseteq Blocks
    /\ Parent \in [Blocks -> Blocks \cup {Genesis}]
    /\ Branch \in [Peers -> Seq(Blocks)] /\ None \notin Peers
    /\ {MaxHeaders, MaxPerRequest, MaxConcurrent, MaxOrphans} \subseteq Nat \ {0}
    /\ MaxAsked \in Nat /\ MaxStray \in Nat /\ MaxChurn \in Nat

VARIABLES
    state,          \* SyncState
    peers,          \* registered peers in the order of the map
    waits,          \* of each peer: are headers awaited, and which blocks
    syncPeer,       \* the peer headers are asked of, or None
    headerChain,    \* headers accepted, oldest first, and whether the body came
    orphans,        \* the orphan pool, oldest first
    pending,        \* pendingBlockDownloads
    queue,          \* blockDownloadQueue
    work,           \* of each peer: headers of its message not validated yet, and was
                    \* the parent of the first stored when hasBlock was asked
    arriving,       \* blocks whose orphan check awaits hasBlock, with the same
    handed,         \* blocks for which block:validated was emitted
    store,          \* blocks the chain store has
    asked, stray, churn     \* what was used of the bounds

peerVars == <<peers, waits, syncPeer>>
boundVars == <<asked, stray, churn>>
bodyVars == <<pending, queue>>
outVars == <<handed, store>>
vars == <<state, peerVars, headerChain, orphans, bodyVars, work, arriving, outVars, boundVars>>

Hashes == {headerChain[i].hash : i \in DOMAIN headerChain}
Registered == Range(peers)
NoWaits == [headers |-> FALSE, blocks |-> {}]
ParentStored(b) == Parent[b] \in store

(* The headers hs of a message, the parent of the first being looked up. *)
Working(hs) == [hs |-> hs, stored |-> hs # <<>> /\ ParentStored(Head(hs))]

TypeOK ==
    /\ state \in {"IDLE", "HEADERS", "BLOCKS", "SYNCED"}
    /\ peers \in Seq(Peers) /\ IsInjective(peers)
    /\ waits \in [Peers -> [headers : BOOLEAN, blocks : SUBSET Blocks]]
    /\ \A p \in Peers \ Registered : waits[p] = NoWaits
    /\ syncPeer \in Registered \cup {None}
    /\ headerChain \in Seq([hash : Blocks, done : BOOLEAN])
    /\ orphans \in Seq(Blocks) /\ IsInjective(orphans) /\ Len(orphans) <= MaxOrphans
    /\ pending \subseteq Blocks /\ Cardinality(pending) <= MaxConcurrent
    /\ queue \in Seq(Blocks)
    /\ work \in [Peers -> [hs : Seq(Blocks), stored : BOOLEAN]]
    /\ arriving \subseteq Blocks \X BOOLEAN
    /\ handed \subseteq Blocks /\ store \subseteq Blocks \cup {Genesis}
    /\ asked \in 0..MaxAsked /\ stray \in 0..MaxStray /\ churn \in 0..MaxChurn

Init ==
    /\ state = "IDLE" /\ peers = <<>> /\ waits = [p \in Peers |-> NoWaits]
    /\ syncPeer = None /\ headerChain = <<>> /\ orphans = <<>>
    /\ pending = {} /\ queue = <<>> /\ arriving = {}
    /\ work = [p \in Peers |-> [hs |-> <<>>, stored |-> FALSE]]
    /\ handed = {} /\ store = {Genesis}
    /\ asked = 0 /\ stray = 0 /\ churn = 0

-----------------------------------------------------------------------------
Start ==
    /\ state = "IDLE"
    /\ state' = "HEADERS"
    /\ UNCHANGED <<peerVars, headerChain, orphans, bodyVars, work, arriving, outVars, boundVars>>

(* stop leaves the peers, what is awaited of them, and calls in flight. *)
Stop ==
    /\ state # "IDLE"
    /\ state' = "IDLE" /\ headerChain' = <<>> /\ orphans' = <<>>
    /\ pending' = {} /\ queue' = <<>>
    /\ UNCHANGED <<peerVars, work, arriving, outVars, boundVars>>

(* A peer that registers again keeps its place and loses what was awaited. *)
RegisterPeer(p) ==
    /\ \/ p \notin Registered /\ peers' = Append(peers, p) /\ UNCHANGED churn
       \/ p \in Registered /\ UNCHANGED peers /\ churn < MaxChurn /\ churn' = churn + 1
    /\ waits' = [waits EXCEPT ![p] = NoWaits]
    /\ syncPeer' = IF syncPeer = None /\ state = "HEADERS" THEN p ELSE syncPeer
    /\ UNCHANGED <<state, headerChain, orphans, bodyVars, work, arriving, outVars, asked, stray>>

(* getBestPeer: the first of those with the highest tip. *)
BestOf(ps) ==
    IF ps = <<>> THEN None
    ELSE ps[CHOOSE i \in DOMAIN ps : \A k \in DOMAIN ps :
              Len(Branch[ps[k]]) < Len(Branch[ps[i]]) \/ (Len(Branch[ps[k]]) = Len(Branch[ps[i]]) /\ i <= k)]

(* The record of a removed peer goes, with all that was awaited of it. *)
RemovePeer(p) ==
    /\ p \in Registered /\ churn < MaxChurn
    /\ peers' = Filtered(peers, Peers \ {p})
    /\ waits' = [waits EXCEPT ![p] = NoWaits]
    /\ syncPeer' = IF syncPeer = p THEN BestOf(peers') ELSE syncPeer
    /\ churn' = churn + 1
    /\ UNCHANGED <<state, headerChain, orphans, bodyVars, work, arriving, outVars, asked,
                   stray>>

(* createHeaderRequest asks the sync peer, the best one if there is none,     *)
(* unless its headers are awaited already.  Its await only lets a second call *)
(* ask the same peer again, which stray answers stand for.  What a peer      *)
(* answers to a locator is a piece of its branch (DeliverHeaders).          *)
CreateHeaderRequest ==
    LET p == IF syncPeer = None THEN BestOf(peers) ELSE syncPeer IN
    /\ p # None /\ ~waits[p].headers /\ asked < MaxAsked
    /\ syncPeer' = p
    /\ waits' = [waits EXCEPT ![p].headers = TRUE]
    /\ asked' = asked + 1
    /\ UNCHANGED <<state, peers, headerChain, orphans, bodyVars, work, arriving, outVars, stray, churn>>

-----------------------------------------------------------------------------
(* downloadNextBlocks: the head of the queue becomes pending until enough    *)
(* are.  The set pending takes a hash once.                                 *)
DownloadNextBug(pend, q) ==    \* sees the size before the block was taken out
    IF q # <<>> /\ Cardinality(pending) < MaxConcurrent
    THEN pending' = pend \cup {Head(q)} /\ queue' = Tail(q)
    ELSE pending' = pend /\ queue' = q
Pended(pend, q, n) == pend \cup Range(SubSeq(q, 1, n))
Fetched(pend, q) == CHOOSE n \in 0..Len(q) :
    /\ \A k \in 0..n - 1 : Cardinality(Pended(pend, q, k)) < MaxConcurrent
    /\ n = Len(q) \/ Cardinality(Pended(pend, q, n)) >= MaxConcurrent
DownloadNext(pend, q) ==
    /\ pending' = Pended(pend, q, Fetched(pend, q))
    /\ queue' = SubSeq(q, Fetched(pend, q) + 1, Len(q))

(* A message of p that was asked for, or one of the stray ones the bound     *)
(* allows: late, repeated, or from a peer that is gone.                     *)
Solicited(due) == (due /\ UNCHANGED stray) \/ (~due /\ stray < MaxStray /\ stray' = stray + 1)

(* handleHeaders of an empty list: the headers are complete. *)
NoMoreHeaders(p) ==
    /\ Solicited(waits[p].headers)
    /\ waits' = [waits EXCEPT ![p].headers = FALSE]
    /\ CASE headerChain = <<>> -> state' = "SYNCED" /\ UNCHANGED bodyVars
         [] headerChain # <<>> /\ state = "HEADERS" ->
              /\ state' = "BLOCKS"
              /\ DownloadNext(pending,
                   LET undone == Filtered(headerChain, [hash : Blocks, done : {FALSE}])
                   IN  [i \in DOMAIN undone |-> undone[i].hash])
         [] OTHER -> UNCHANGED <<state, bodyVars>>
    /\ UNCHANGED <<peers, syncPeer, headerChain, orphans, work, arriving, outVars, asked, churn>>

(* handleHeaders of a piece of the branch of p, up to the first await. *)
DeliverHeaders(p) ==
    /\ work[p].hs = <<>>
    /\ Solicited(waits[p].headers)
    /\ waits' = [waits EXCEPT ![p].headers = FALSE]
    /\ \E i \in DOMAIN Branch[p] : \E n \in 1..MaxHeaders :
         /\ i + n - 1 <= Len(Branch[p])
         /\ work' = [work EXCEPT ![p] = Working(SubSeq(Branch[p], i, i + n - 1))]
    /\ UNCHANGED <<state, peers, syncPeer, headerChain, orphans, bodyVars, arriving, outVars,
                   asked, churn>>

(* One turn of the loop: validateHeader wants the parent stored, at some time *)
(* of its await, or now among the headers.  A header that fails ends the     *)
(* message; those before it stay.                                           *)
ValidHeader(b, stored) == (stored \/ Parent[b] \in Hashes) /\ b \notin Refused
ValidateHeader(p) ==
    /\ work[p].hs # <<>>
    /\ LET b == Head(work[p].hs) IN
       \E stored \in {work[p].stored, ParentStored(b)} :
          \/ /\ ValidHeader(b, stored)
             /\ headerChain' = Append(headerChain, [hash |-> b, done |-> FALSE])
             /\ work' = [work EXCEPT ![p] = Working(Tail(@.hs))]
          \/ /\ ~ValidHeader(b, stored)
             /\ work' = [work EXCEPT ![p] = Working(<<>>)]
             /\ UNCHANGED headerChain
    /\ UNCHANGED <<state, peerVars, orphans, bodyVars, arriving, outVars, boundVars>>

-----------------------------------------------------------------------------
(* createBlockRequest asks the first peer that has room, and only that one,  *)
(* for pending blocks it was not asked for yet.                             *)
CreateBlockRequest ==
    LET room == Filtered(peers, {p \in Peers : Cardinality(waits[p].blocks) < MaxPerRequest}) IN
    /\ room # <<>>
    /\ LET new == pending \ waits[room[1]].blocks IN
       /\ new # {}
       /\ \E hs \in SUBSET new :
            /\ Cardinality(hs) = MaxPerRequest \/ (hs = new /\ Cardinality(hs) < MaxPerRequest)
            /\ waits' = [waits EXCEPT ![room[1]].blocks = @ \cup hs]
    /\ UNCHANGED <<state, peers, syncPeer, headerChain, orphans, bodyVars, work, arriving,
                   outVars, boundVars>>

(* processValidatedBlocks: the headers whose bodies came, up to the first    *)
(* whose body is missing, are handed on.                                    *)
Complete(hc) == CHOOSE n \in 0..Len(hc) :
    (\A i \in 1..n : hc[i].done) /\ (n = Len(hc) \/ ~hc[n + 1].done)
ProcessValidatedBlocksBug(hc) ==    \* passes over a body that is missing
    LET rest == Filtered(hc, [hash : Blocks, done : {FALSE}]) IN
    /\ handed' = handed \cup {hc[i].hash : i \in {k \in DOMAIN hc : hc[k].done}}
    /\ headerChain' = rest
    /\ state' = IF rest = <<>> /\ queue = <<>> THEN "SYNCED" ELSE state
ProcessValidatedBlocks(hc) ==
    LET n == Complete(hc) IN
    /\ handed' = handed \cup {hc[i].hash : i \in 1..n}
    /\ headerChain' = SubSeq(hc, n + 1, Len(hc))
    /\ state' = IF n = Len(hc) /\ queue = <<>> THEN "SYNCED" ELSE state

(* handleBlock: a body the header chain waits for, or a block it does not    *)
(* know, for which the store is asked about the parent.                     *)
HandleBlock(p, b) ==
    /\ Solicited(b \in waits[p].blocks)
    /\ waits' = [waits EXCEPT ![p].blocks = @ \ {b}]
    /\ \/ /\ b \in Hashes
          /\ LET i == SelectInSeq(headerChain, LAMBDA e : e.hash = b)
             IN  ProcessValidatedBlocks([headerChain EXCEPT ![i].done = TRUE])
          /\ DownloadNext(pending \ {b}, queue)
          /\ UNCHANGED arriving
       \/ /\ b \notin Hashes
          /\ arriving' = arriving \cup {<<b, ParentStored(b)>>}
          /\ UNCHANGED <<state, headerChain, bodyVars, handed>>
    /\ UNCHANGED <<peers, syncPeer, orphans, work, store, asked, churn>>

(* The rest of handleOrphanBlock: with a known parent the block is dropped,  *)
(* otherwise it joins the pool as the latest, and the oldest goes if the     *)
(* pool is full, whether or not the block was in it already.                *)
AddOrphan(b) ==
    LET room == IF Len(orphans) >= MaxOrphans THEN Tail(orphans) ELSE orphans
    IN  orphans' = Append(Filtered(room, Blocks \ {b}), b)
OrphanChecked(a) ==
    /\ a \in arriving
    /\ arriving' = arriving \ {a}
    /\ \E stored \in {a[2], ParentStored(a[1])} :
         IF stored THEN UNCHANGED orphans ELSE AddOrphan(a[1])
    /\ DownloadNext(pending, queue)
    /\ UNCHANGED <<state, peerVars, headerChain, work, outVars, boundVars>>

(* checkOrphans(b) removes the orphans that descend from b through orphans. *)
Connected(b) ==
    {o \in Range(orphans) : \A S \in SUBSET Range(orphans) :
        (\A x \in Range(orphans) : Parent[x] \in S \cup {b} => x \in S) => o \in S}

(* The listener stores a block it was handed and has the orphans checked. *)
StoreBlock(b) ==
    /\ b \in handed \ store /\ ParentStored(b)
    /\ store' = store \cup {b}
    /\ orphans' = Filtered(orphans, Blocks \ Connected(b))
    /\ UNCHANGED <<state, peerVars, headerChain, bodyVars, work, arriving, handed, boundVars>>

Next ==
    \/ Start \/ Stop \/ CreateHeaderRequest \/ CreateBlockRequest
    \/ \E p \in Peers : \/ RegisterPeer(p) \/ RemovePeer(p)
                        \/ NoMoreHeaders(p) \/ DeliverHeaders(p) \/ ValidateHeader(p)
                        \/ \E b \in Blocks : HandleBlock(p, b)
    \/ \E a \in Blocks \X BOOLEAN : OrphanChecked(a)
    \/ \E b \in Blocks : StoreBlock(b)

(* The caller keeps asking for blocks, and a registered peer sends what it   *)
(* was asked for.  Nothing is assumed of headers or of the operator.        *)
Answer(p, b) == b \in waits[p].blocks /\ HandleBlock(p, b)
SyncFairness ==
    /\ WF_vars(CreateBlockRequest)
    /\ \A p \in Peers : WF_vars(\E b \in Blocks : Answer(p, b))
Spec == Init /\ [][Next]_vars /\ SyncFairness

-----------------------------------------------------------------------------
Known == handed \cup store
EarlierThan(i) == {headerChain[k].hash : k \in 1..i - 1}

(* Blocks are handed on after their parents, and every header that waits for *)
(* its body has its parent handed on, stored or waiting before it, whatever  *)
(* peers send in whichever order, twice, or after a stop (validateHeader,   *)
(* processValidatedBlocks).                                                 *)
ParentsFirst ==
    /\ TypeOK
    /\ \A b \in handed : Parent[b] \in Known
    /\ \A i \in DOMAIN headerChain : Parent[headerChain[i].hash] \in Known \cup EarlierThan(i)

Bodies == {headerChain[i].hash : i \in {k \in DOMAIN headerChain : ~headerChain[k].done}}
Scheduled == Bodies \subseteq pending \cup Range(queue)

(* No header is in the chain twice, and exactly the bodies that are missing  *)
(* are pending or queued.                                                   *)
Orderly ==
    /\ Cardinality(Hashes) = Len(headerChain)
    /\ Scheduled /\ pending \cup Range(queue) \subseteq Bodies

(* Once the bodies are being downloaded, and as long as some peer is there in *)
(* the end, the download ends, with peers that leave before they answer and  *)
(* bodies in any order; only headers that come late or twice and bodies that *)
(* nobody asked for can end its order before (handleBlock,                  *)
(* downloadNextBlocks, createBlockRequest).                                 *)
DownloadsFinish ==
    <>[](peers # <<>>) => (state = "BLOCKS" /\ Orderly ~> state # "BLOCKS" \/ ~Orderly)

=============================================================================
