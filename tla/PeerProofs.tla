------------------------------ MODULE PeerProofs ------------------------------
(* Proofs about what a node does with its peers: headers-first synchronisation *)
(* hands blocks on after their parents (ParentsFirst), for any tree of blocks, *)
(* peers, limits and bounds; and gossip suppresses duplicates (GossipOnce), for *)
(* any number of connections, items, chunks and messages in a chunk.         *)
EXTENDS Sync, Gossip, CollectionProofs

(* Synchronisation.                                                          *)

(* TypeOK in parts, with the set of downloads being finite; a message whose     *)
(* first parent was found in the store had it there, and still has.          *)
PeerTypes ==
    /\ peers \in Seq(Peers) /\ IsInjective(peers)
    /\ waits \in [Peers -> [headers : BOOLEAN, blocks : SUBSET Blocks]]
    /\ \A p \in Peers \ Registered : waits[p] = NoWaits
    /\ syncPeer \in Registered \cup {None}
BodyTypes ==
    /\ pending \subseteq Blocks /\ IsFiniteSet(pending) /\ Cardinality(pending) <= MaxConcurrent
    /\ queue \in Seq(Blocks)
OrphanTypes == orphans \in Seq(Blocks) /\ IsInjective(orphans) /\ Len(orphans) <= MaxOrphans
Headers == [hash : Blocks, done : BOOLEAN]
HeaderTypes ==
    /\ headerChain \in Seq(Headers)
    /\ handed \subseteq Blocks /\ store \subseteq Blocks \cup {Genesis}
    /\ state \in {"IDLE", "HEADERS", "BLOCKS", "SYNCED"}
WorkTypes ==
    /\ work \in [Peers -> [hs : Seq(Blocks), stored : BOOLEAN]]
    /\ arriving \subseteq Blocks \X BOOLEAN
BoundTypes == asked \in 0..MaxAsked /\ stray \in 0..MaxStray /\ churn \in 0..MaxChurn
Typed == PeerTypes /\ BodyTypes /\ OrphanTypes /\ HeaderTypes /\ WorkTypes /\ BoundTypes
WorkIsTrue == \A p \in Peers : work[p].stored => work[p].hs # <<>> /\ Parent[Head(work[p].hs)] \in store
HandedAfterParents == \A b \in handed : Parent[b] \in Known
HeadersAfterParents ==
    \A i \in DOMAIN headerChain : Parent[headerChain[i].hash] \in Known \cup EarlierThan(i)

SyncIInv == Typed /\ WorkIsTrue /\ HandedAfterParents /\ HeadersAfterParents

-----------------------------------------------------------------------------
(* What is pending once k blocks of the queue were taken: a finite set, that    *)
(* grows by one block at most with each of them.                             *)
LEMMA PendedProperties ==
    ASSUME NEW pend \in SUBSET Blocks, IsFiniteSet(pend), NEW q \in Seq(Blocks), NEW k \in 0..Len(q)
    PROVE  /\ Pended(pend, q, k) \subseteq Blocks /\ IsFiniteSet(Pended(pend, q, k))
           /\ Cardinality(Pended(pend, q, k)) \in Nat
           /\ k = 0 => Pended(pend, q, k) = pend
           /\ k # 0 => Pended(pend, q, k) = Pended(pend, q, k - 1) \cup {q[k]}
<1> DEFINE s(n) == SubSeq(q, 1, n)
<1>1. Len(q) \in Nat /\ \A i \in 1..Len(q) : q[i] \in Blocks
  OBVIOUS
<1>2. ASSUME NEW n \in 0..Len(q)
      PROVE  s(n) \in Seq(Blocks) /\ DOMAIN s(n) = 1..n /\ \A i \in 1..n : s(n)[i] = q[i]
  BY <1>1, SubSeqProperties
<1>3. ASSUME NEW n \in 0..Len(q)
      PROVE  Range(s(n)) = {q[i] : i \in 1..n}
  BY <1>2 DEF Range
<1> HIDE DEF s
<1>4. \A n \in 0..Len(q) : Pended(pend, q, n) = pend \cup {q[i] : i \in 1..n}
  BY <1>3 DEF Pended, s
<1>5. s(k) \in Surjection(1..k, Range(s(k)))
  <2>1. s(k) \in Seq(Blocks) /\ DOMAIN s(k) = 1..k
    BY <1>2
  <2>2. s(k) \in [1..k -> Range(s(k))]
    BY <2>1 DEF Range
  <2> QED BY <2>1, <2>2 DEF Surjection, Range
<1>6. IsFiniteSet(Range(s(k)))
  <2>1. IsFiniteSet(1..k)
    BY <1>1, FS_Interval
  <2> QED BY <1>5, <2>1, FS_Surjection
<1>7. IsFiniteSet(Pended(pend, q, k))
  BY <1>6, FS_Union DEF Pended, s
<1>8. Pended(pend, q, k) \subseteq Blocks
  BY <1>1, <1>4
<1>9. k = 0 => Pended(pend, q, k) = pend
  <2>1. 0 \in 0..Len(q) /\ {q[i] : i \in 1..0} = {}
    BY <1>1
  <2> QED BY <1>4, <2>1
<1>10. ASSUME k # 0
       PROVE  Pended(pend, q, k) = Pended(pend, q, k - 1) \cup {q[k]}
  <2>1. k - 1 \in 0..Len(q) /\ 1..k = (1..k - 1) \cup {k}
    BY <1>1, <1>10
  <2>2. {q[i] : i \in 1..k} = {q[i] : i \in 1..k - 1} \cup {q[k]}
    BY <2>1
  <2> QED BY <1>4, <2>1, <2>2
<1> QED BY <1>7, <1>8, <1>9, <1>10, FS_CardinalityType

(* The number of blocks downloadNextBlocks takes out of the queue exists.     *)
LEMMA FetchedExists ==
    ASSUME NEW pend \in SUBSET Blocks, IsFiniteSet(pend), NEW q \in Seq(Blocks)
    PROVE  /\ Fetched(pend, q) \in 0..Len(q)
           /\ \A k \in 0..Fetched(pend, q) - 1 : Cardinality(Pended(pend, q, k)) < MaxConcurrent
<1> DEFINE T == {i \in 0..Len(q) : i = Len(q) \/ Cardinality(Pended(pend, q, i)) >= MaxConcurrent}
<1>1. Len(q) \in Nat /\ MaxConcurrent \in Nat
  BY SyncAssumption
<1>2. T \in SUBSET Nat /\ Len(q) \in T
  BY <1>1
<1>3. PICK n \in T : \A k \in T : n <= k
  BY <1>2, LeastElement
<1>4. \A k \in 0..n - 1 : k \in 0..Len(q) /\ ~(n <= k)
  BY <1>1, <1>3
<1>5. \A k \in 0..Len(q) : Cardinality(Pended(pend, q, k)) \in Nat
  BY PendedProperties
<1>6. \A k \in 0..n - 1 : Cardinality(Pended(pend, q, k)) < MaxConcurrent
  BY <1>1, <1>3, <1>4, <1>5
<1>7. n \in 0..Len(q) /\ (n = Len(q) \/ Cardinality(Pended(pend, q, n)) >= MaxConcurrent)
  BY <1>3
<1> QED BY <1>6, <1>7 DEF Fetched

(* downloadNextBlocks leaves no more blocks pending than are allowed, if there *)
(* were no more before.                                                      *)
LEMMA DownloadNextProperties ==
    ASSUME NEW pend \in SUBSET Blocks, IsFiniteSet(pend), Cardinality(pend) <= MaxConcurrent,
           NEW q \in Seq(Blocks)
    PROVE  /\ Pended(pend, q, Fetched(pend, q)) \subseteq Blocks
           /\ IsFiniteSet(Pended(pend, q, Fetched(pend, q)))
           /\ Cardinality(Pended(pend, q, Fetched(pend, q))) <= MaxConcurrent
           /\ SubSeq(q, Fetched(pend, q) + 1, Len(q)) \in Seq(Blocks)
<1> DEFINE n == Fetched(pend, q)
<1>1. n \in 0..Len(q) /\ \A k \in 0..n - 1 : Cardinality(Pended(pend, q, k)) < MaxConcurrent
  BY FetchedExists
<1> HIDE DEF n
<1>2. Len(q) \in Nat /\ MaxConcurrent \in Nat /\ n \in Nat
  BY <1>1, SyncAssumption
<1>3. SubSeq(q, n + 1, Len(q)) \in Seq(Blocks)
  BY <1>1, <1>2, SubSeqProperties
<1>4. CASE n = 0
  BY <1>1, <1>3, <1>4, PendedProperties DEF n
<1>5. CASE n # 0
  <2>1. n - 1 \in 0..Len(q) /\ n - 1 \in 0..n - 1
    BY <1>1, <1>2, <1>5
  <2>2. Cardinality(Pended(pend, q, n - 1)) < MaxConcurrent
    BY <1>1, <2>1
  <2>3. IsFiniteSet(Pended(pend, q, n - 1)) /\ Cardinality(Pended(pend, q, n - 1)) \in Nat
    BY <2>1, PendedProperties
  <2>4. Pended(pend, q, n) = Pended(pend, q, n - 1) \cup {q[n]}
    BY <1>1, <1>5, PendedProperties
  <2>5. Cardinality(Pended(pend, q, n)) <= Cardinality(Pended(pend, q, n - 1)) + 1
    <3>1. Cardinality(Pended(pend, q, n - 1) \cup {q[n]}) \in
             {Cardinality(Pended(pend, q, n - 1)), Cardinality(Pended(pend, q, n - 1)) + 1}
      BY <2>3, FS_AddElement
    <3> QED BY <2>3, <2>4, <3>1
  <2>6. Pended(pend, q, n) \subseteq Blocks /\ IsFiniteSet(Pended(pend, q, n)) /\ Cardinality(Pended(pend, q, n)) \in Nat
    BY <1>1, PendedProperties
  <2>7. Cardinality(Pended(pend, q, n)) <= MaxConcurrent
    BY <1>2, <2>2, <2>3, <2>5, <2>6
  <2> QED BY <1>3, <2>6, <2>7 DEF n
<1> QED BY <1>4, <1>5

(* The best of some peers is one of them.                                     *)
LEMMA BestOfIsOne ==
    ASSUME NEW ps \in Seq(Peers)
    PROVE  BestOf(ps) \in Range(ps) \cup {None}
<1>1. CASE ps = <<>>
  BY <1>1 DEF BestOf
<1>2. CASE ps # <<>>
  <2> DEFINE n == Len(ps)
             L == [i \in 1..n |-> Len(Branch[ps[i]])]
  <2>1. DOMAIN ps = 1..n /\ n \in Nat \ {0} /\ \A i \in 1..n : ps[i] \in Peers
    BY <1>2
  <2>2. \A i \in 1..n : Len(Branch[ps[i]]) \in Nat
    BY <2>1, SyncAssumption
  <2>3. L \in [1..n -> Nat]
    BY <2>2
  <2>4. \E i \in 1..n : \A k \in 1..n : L[k] < L[i] \/ (L[k] = L[i] /\ i <= k)
    <3> HIDE DEF L
    <3> QED BY <2>1, <2>3, FirstGreatest
  <2>5. \E i \in DOMAIN ps : \A k \in DOMAIN ps :
           Len(Branch[ps[k]]) < Len(Branch[ps[i]]) \/ (Len(Branch[ps[k]]) = Len(Branch[ps[i]]) /\ i <= k)
    BY <2>1, <2>4
  <2> QED BY <1>2, <2>5 DEF BestOf, Range
<1> QED BY <1>1, <1>2
(* The number of headers whose bodies came exists.                            *)
LEMMA CompleteExists ==
    ASSUME NEW hc \in Seq(Headers)
    PROVE  Complete(hc) \in 0..Len(hc)
<1> DEFINE T == {n \in 0..Len(hc) : n = Len(hc) \/ ~hc[n + 1].done}
<1>1. Len(hc) \in Nat
  OBVIOUS
<1>2. T \in SUBSET Nat /\ Len(hc) \in T
  BY <1>1
<1>3. PICK n \in T : \A k \in T : n <= k
  <2> HIDE DEF T
  <2> QED BY <1>2, LeastElement
<1>4. n \in 0..Len(hc) /\ (n = Len(hc) \/ ~hc[n + 1].done)
  BY <1>3
<1>5. \A i \in 1..n : i - 1 \in 0..Len(hc) /\ i - 1 # Len(hc) /\ ~(n <= i - 1) /\ i - 1 + 1 = i
  BY <1>1, <1>4
<1>6. \A i \in 1..n : hc[i].done
  BY <1>3, <1>5
<1> QED BY <1>4, <1>6 DEF Complete

(* Handing on the headers whose bodies came, up to some place of the chain,    *)
(* keeps blocks after their parents.                                         *)
LEMMA HandOn ==
    ASSUME HeaderTypes, HandedAfterParents, HeadersAfterParents,
           NEW n \in 0..Len(headerChain),
           NEW hc \in Seq(Headers), Len(hc) = Len(headerChain),
           \A i \in DOMAIN headerChain : hc[i].hash = headerChain[i].hash,
           handed' = handed \cup {hc[i].hash : i \in 1..n},
           headerChain' = SubSeq(hc, n + 1, Len(hc)), store' = store
    PROVE  /\ handed' \subseteq Blocks /\ headerChain' \in Seq(Headers)
           /\ HandedAfterParents' /\ HeadersAfterParents'
<1> DEFINE m == Len(headerChain)
<1>1. m \in Nat /\ DOMAIN headerChain = 1..m /\ \A i \in 1..m : hc[i] \in Headers /\ headerChain[i] \in Headers
  BY DEF HeaderTypes
<1>2. handed' = handed \cup {headerChain[i].hash : i \in 1..n} /\ handed' \subseteq Blocks
  <2>1. \A i \in 1..n : i \in 1..m
    BY <1>1
  <2>2. \A i \in 1..n : hc[i].hash = headerChain[i].hash /\ hc[i].hash \in Blocks
    BY <1>1, <2>1 DEF Headers
  <2>3. {hc[i].hash : i \in 1..n} = {headerChain[i].hash : i \in 1..n}
    BY <2>2
  <2> QED BY <2>2, <2>3 DEF HeaderTypes
<1>3. /\ headerChain' \in Seq(Headers) /\ Len(headerChain') = m - n
      /\ \A i \in 1..m - n : headerChain'[i] = hc[n + i]
  <2>1. \A i \in n + 1..m : hc[i] \in Headers
    BY <1>1
  <2>2. n + 1 \in Int /\ m \in Int /\ Len(hc) = m
    BY <1>1
  <2>3. /\ SubSeq(hc, n + 1, m) \in Seq(Headers)
        /\ Len(SubSeq(hc, n + 1, m)) = IF n + 1 <= m THEN m - (n + 1) + 1 ELSE 0
        /\ \A i \in 1..m - (n + 1) + 1 : SubSeq(hc, n + 1, m)[i] = hc[n + 1 + i - 1]
    BY <2>1, <2>2, SubSeqProperties
  <2>4. m - (n + 1) + 1 = m - n /\ (IF n + 1 <= m THEN m - (n + 1) + 1 ELSE 0) = m - n
    BY <1>1
  <2>5. \A i \in 1..m - n : n + 1 + i - 1 = n + i
    BY <1>1
  <2> QED BY <2>2, <2>3, <2>4, <2>5
<1>4. ASSUME NEW i \in 1..m
      PROVE  Parent[headerChain[i].hash] \in Known \cup {headerChain[k].hash : k \in 1..i - 1}
  BY <1>1 DEF HeadersAfterParents, EarlierThan
<1>5. Known \subseteq Known'
  BY <1>2 DEF Known
<1>6. HandedAfterParents'
  <2> SUFFICES ASSUME NEW b \in handed' PROVE Parent[b] \in Known'
    BY DEF HandedAfterParents
  <2>1. CASE b \in handed
    BY <1>5, <2>1 DEF HandedAfterParents
  <2>2. CASE b \notin handed
    <3>1. PICK i \in 1..n : b = headerChain[i].hash
      BY <1>2, <2>2
    <3>2. i \in 1..m /\ \A k \in 1..i - 1 : k \in 1..n
      BY <1>1, <3>1
    <3>3. {headerChain[k].hash : k \in 1..i - 1} \subseteq handed'
      BY <1>2, <3>2
    <3> QED BY <1>4, <1>5, <3>1, <3>2, <3>3 DEF Known
  <2> QED BY <2>1, <2>2
<1>7. HeadersAfterParents'
  <2> SUFFICES ASSUME NEW i \in 1..m - n
               PROVE  Parent[headerChain'[i].hash] \in Known' \cup EarlierThan(i)'
    <3>1. DOMAIN headerChain' = 1..m - n
      BY <1>1, <1>3
    <3> QED BY <3>1 DEF HeadersAfterParents
  <2>1. n + i \in 1..m /\ headerChain'[i].hash = headerChain[n + i].hash
    BY <1>1, <1>3
  <2>2. ASSUME NEW k \in 1..n + i - 1
        PROVE  headerChain[k].hash \in Known' \cup EarlierThan(i)'
    <3>1. CASE k \in 1..n
      BY <1>2, <3>1 DEF Known
    <3>2. CASE k \notin 1..n
      <4>1. k - n \in 1..i - 1 /\ k - n \in 1..m - n /\ n + (k - n) = k /\ k \in 1..m
        BY <1>1, <3>2
      <4>2. headerChain'[k - n] = hc[k]
        BY <1>3, <4>1
      <4>3. headerChain'[k - n].hash = headerChain[k].hash
        BY <1>1, <4>1, <4>2
      <4> QED BY <4>1, <4>3 DEF EarlierThan
    <3> QED BY <3>1, <3>2
  <2>3. \/ Parent[headerChain[n + i].hash] \in Known
        \/ \E k \in 1..n + i - 1 : Parent[headerChain[n + i].hash] = headerChain[k].hash
    <3>1. PICK j \in 1..m : j = n + i
      BY <2>1
    <3>2. \/ Parent[headerChain[j].hash] \in Known
          \/ \E k \in 1..j - 1 : Parent[headerChain[j].hash] = headerChain[k].hash
      BY <1>4
    <3>3. \A k \in 1..j - 1 : k \in 1..n + i - 1
      BY <3>1
    <3> QED BY <3>1, <3>2, <3>3
  <2> QED BY <1>5, <2>1, <2>2, <2>3
<1> QED BY <1>2, <1>3, <1>6, <1>7
-----------------------------------------------------------------------------
(* The parts of Typed are TypeOK and the finiteness of the downloads.          *)
LEMMA TypedIsTypeOK == Typed => TypeOK
BY DEF Typed, PeerTypes, BodyTypes, OrphanTypes, HeaderTypes, WorkTypes, BoundTypes, TypeOK, Headers

(* The initial state satisfies the invariant.                                *)
LEMMA SyncStarts == Init => SyncIInv
<1> SUFFICES ASSUME Init PROVE SyncIInv
  OBVIOUS
<1>1. PeerTypes
  <2>1. peers = <<>> /\ <<>> \in Seq(Peers) /\ DOMAIN <<>> = {}
    BY DEF Init
  <2> QED BY <2>1 DEF Init, PeerTypes, NoWaits, IsInjective
<1>2. BodyTypes
  <2>1. MaxConcurrent \in Nat
    BY SyncAssumption
  <2> QED BY <2>1, FS_EmptySet DEF Init, BodyTypes
<1>3. OrphanTypes
  <2>1. MaxOrphans \in Nat /\ orphans = <<>> /\ <<>> \in Seq(Blocks) /\ DOMAIN <<>> = {} /\ Len(<<>>) = 0
    BY SyncAssumption DEF Init
  <2> QED BY <2>1 DEF OrphanTypes, IsInjective
<1>4. HeaderTypes /\ HandedAfterParents /\ HeadersAfterParents
  BY DEF Init, HeaderTypes, HandedAfterParents, HeadersAfterParents
<1>5. WorkTypes /\ BoundTypes /\ WorkIsTrue
  BY SyncAssumption DEF Init, WorkTypes, BoundTypes, WorkIsTrue
<1> QED BY <1>1, <1>2, <1>3, <1>4, <1>5 DEF SyncIInv, Typed

(* A step that leaves the headers and what was handed on and stored keeps the  *)
(* facts about parents.                                                     *)
LEMMA HeadersUntouched ==
    ASSUME HeaderTypes, HandedAfterParents, HeadersAfterParents,
           UNCHANGED <<headerChain, handed, store>>,
           state' \in {"IDLE", "HEADERS", "BLOCKS", "SYNCED"}
    PROVE  HeaderTypes' /\ HandedAfterParents' /\ HeadersAfterParents'
BY DEF HeaderTypes, HandedAfterParents, HeadersAfterParents, Known, EarlierThan

(* One that leaves the store and the messages keeps the fact about those.      *)
LEMMA WorkUntouched ==
    ASSUME WorkTypes, WorkIsTrue, UNCHANGED <<work, store>>, arriving' \subseteq Blocks \X BOOLEAN
    PROVE  WorkTypes' /\ WorkIsTrue'
BY DEF WorkTypes, WorkIsTrue

(* A message that is waited for, or a stray one, keeps the bounds.             *)
LEMMA SolicitedKeepsBounds ==
    ASSUME BoundTypes, NEW due, Solicited(due), UNCHANGED <<asked, churn>>
    PROVE  BoundTypes'
BY SyncAssumption DEF BoundTypes, Solicited

(* What is waited for changes of a registered peer, or less is waited for.     *)
LEMMA WaitsChange ==
    ASSUME PeerTypes, NEW p \in Peers,
           waits' \in [Peers -> [headers : BOOLEAN, blocks : SUBSET Blocks]],
           \A q \in Peers \ {p} : waits'[q] = waits[q],
           p \in Registered \/ (waits[p] = NoWaits => waits'[p] = NoWaits),
           UNCHANGED peers, syncPeer' \in Registered \cup {None}
    PROVE  PeerTypes'
<1>1. Registered' = Registered
  BY DEF Registered
<1>2. \A q \in Peers \ Registered : waits'[q] = NoWaits
  BY DEF PeerTypes
<1> QED BY <1>1, <1>2 DEF PeerTypes

(* One field of a record of waits is replaced.                               *)
LEMMA HeadersAwaited ==
    ASSUME PeerTypes, NEW p \in Peers, NEW h \in BOOLEAN, waits' = [waits EXCEPT ![p].headers = h]
    PROVE  /\ waits' \in [Peers -> [headers : BOOLEAN, blocks : SUBSET Blocks]]
           /\ \A q \in Peers \ {p} : waits'[q] = waits[q]
           /\ h = FALSE /\ waits[p] = NoWaits => waits'[p] = NoWaits
<1>1. waits \in [Peers -> [headers : BOOLEAN, blocks : SUBSET Blocks]]
  BY DEF PeerTypes
<1>2. waits' \in [Peers -> [headers : BOOLEAN, blocks : SUBSET Blocks]] /\ \A q \in Peers \ {p} : waits'[q] = waits[q]
  BY <1>1
<1>3. ASSUME h = FALSE, waits[p] = NoWaits
      PROVE  waits'[p] = NoWaits
  <2>1. waits'[p] = [waits[p] EXCEPT !.headers = h]
    BY <1>1
  <2>2. [NoWaits EXCEPT !.headers = FALSE] = NoWaits
    <3>1. DOMAIN NoWaits = {"headers", "blocks"} /\ NoWaits.headers = FALSE
      BY DEF NoWaits
    <3>2. NoWaits = [x \in {"headers", "blocks"} |-> NoWaits[x]]
      BY DEF NoWaits
    <3> QED BY <3>1, <3>2, Zenon
  <2> QED BY <1>3, <2>1, <2>2
<1> QED BY <1>2, <1>3

(* The same for the other.                                                   *)
LEMMA BlocksAwaited ==
    ASSUME PeerTypes, NEW p \in Peers, NEW bs \in SUBSET Blocks, waits' = [waits EXCEPT ![p].blocks = bs]
    PROVE  /\ waits' \in [Peers -> [headers : BOOLEAN, blocks : SUBSET Blocks]]
           /\ \A q \in Peers \ {p} : waits'[q] = waits[q]
           /\ bs \subseteq waits[p].blocks /\ waits[p] = NoWaits => waits'[p] = NoWaits
<1>1. waits \in [Peers -> [headers : BOOLEAN, blocks : SUBSET Blocks]]
  BY DEF PeerTypes
<1>2. waits' \in [Peers -> [headers : BOOLEAN, blocks : SUBSET Blocks]] /\ \A q \in Peers \ {p} : waits'[q] = waits[q]
  BY <1>1
<1>3. ASSUME bs \subseteq waits[p].blocks, waits[p] = NoWaits
      PROVE  waits'[p] = NoWaits
  <2>1. bs = {} /\ waits[p].headers = FALSE
    BY <1>3 DEF NoWaits
  <2>2. waits'[p] = [waits[p] EXCEPT !.blocks = bs]
    BY <1>1
  <2>3. [NoWaits EXCEPT !.blocks = {}] = NoWaits
    BY DEF NoWaits
  <2> QED BY <1>3, <2>1, <2>2, <2>3
<1> QED BY <1>2, <1>3

-----------------------------------------------------------------------------
(* Start and stop.                                                           *)
LEMMA OperatorSteps == ASSUME SyncIInv, Start \/ Stop PROVE SyncIInv'
<1> USE DEF SyncIInv, Typed
<1>1. UNCHANGED <<peers, waits, syncPeer, work, arriving, handed, store, asked, stray, churn>>
  BY DEF Start, Stop, peerVars, outVars, boundVars
<1>2. PeerTypes' /\ BoundTypes' /\ WorkTypes' /\ WorkIsTrue'
  BY <1>1 DEF PeerTypes, Registered, BoundTypes, WorkTypes, WorkIsTrue
<1>3. CASE Start
  <2>1. state' = "HEADERS" /\ UNCHANGED <<headerChain, orphans, pending, queue, handed, store>>
    BY <1>3 DEF Start, bodyVars, outVars
  <2>2. BodyTypes' /\ OrphanTypes'
    BY <2>1 DEF BodyTypes, OrphanTypes
  <2> QED BY <1>2, <2>1, <2>2, HeadersUntouched
<1>4. CASE Stop
  <2>1. /\ state' = "IDLE" /\ headerChain' = <<>> /\ orphans' = <<>> /\ pending' = {} /\ queue' = <<>>
        /\ UNCHANGED <<handed, store>>
    BY <1>4 DEF Stop, outVars
  <2>2. MaxConcurrent \in Nat /\ MaxOrphans \in Nat
    BY SyncAssumption
  <2>3. BodyTypes'
    BY <2>1, <2>2, FS_EmptySet DEF BodyTypes
  <2>4. OrphanTypes'
    <3>1. orphans' \in Seq(Blocks) /\ DOMAIN orphans' = {} /\ Len(orphans') = 0
      BY <2>1
    <3> QED BY <2>2, <3>1 DEF OrphanTypes, IsInjective
  <2>5. HeaderTypes' /\ HandedAfterParents' /\ HeadersAfterParents'
    <3>1. headerChain' \in Seq(Headers) /\ DOMAIN headerChain' = {}
      BY <2>1
    <3> QED BY <2>1, <3>1 DEF HeaderTypes, HandedAfterParents, HeadersAfterParents, Known
  <2> QED BY <1>2, <2>3, <2>4, <2>5
<1> QED BY <1>3, <1>4

(* Peers come and go, and requests for headers and bodies are sent: nothing    *)
(* but the peers and what is awaited of them changes.                        *)
LEMMA PeerSteps ==
    ASSUME SyncIInv,
           \/ CreateHeaderRequest \/ CreateBlockRequest
           \/ \E p \in Peers : RegisterPeer(p) \/ RemovePeer(p)
    PROVE  SyncIInv'
<1> USE DEF SyncIInv, Typed
<1>1. UNCHANGED <<state, headerChain, orphans, pending, queue, work, arriving, handed, store, stray>>
  <2>1. CASE CreateHeaderRequest
    BY <2>1 DEF CreateHeaderRequest, bodyVars, outVars
  <2>2. CASE CreateBlockRequest
    BY <2>2 DEF CreateBlockRequest, bodyVars, outVars, boundVars
  <2>3. ASSUME NEW p \in Peers, RegisterPeer(p)
        PROVE  UNCHANGED <<state, headerChain, orphans, pending, queue, work, arriving, handed, store, stray>>
    BY <2>3 DEF RegisterPeer, bodyVars, outVars
  <2>4. ASSUME NEW p \in Peers, RemovePeer(p)
        PROVE  UNCHANGED <<state, headerChain, orphans, pending, queue, work, arriving, handed, store, stray>>
    BY <2>4 DEF RemovePeer, bodyVars, outVars
  <2> QED BY <2>1, <2>2, <2>3, <2>4
<1>2. BodyTypes' /\ OrphanTypes' /\ WorkTypes' /\ WorkIsTrue'
  BY <1>1 DEF BodyTypes, OrphanTypes, WorkTypes, WorkIsTrue
<1>3. HeaderTypes' /\ HandedAfterParents' /\ HeadersAfterParents'
  BY <1>1, HeadersUntouched DEF HeaderTypes
<1>4. BoundTypes'
  <2>1. CASE CreateHeaderRequest
    BY <1>1, <2>1, SyncAssumption DEF CreateHeaderRequest, BoundTypes
  <2>2. CASE CreateBlockRequest
    BY <2>2 DEF CreateBlockRequest, boundVars, BoundTypes
  <2>3. ASSUME NEW p \in Peers, RegisterPeer(p) \/ RemovePeer(p)
        PROVE  BoundTypes'
    BY <1>1, <2>3, SyncAssumption DEF RegisterPeer, RemovePeer, BoundTypes
  <2> QED BY <2>1, <2>2, <2>3
<1> SUFFICES PeerTypes'
  BY <1>2, <1>3, <1>4
<1>5. /\ peers \in Seq(Peers) /\ IsInjective(peers) /\ syncPeer \in Registered \cup {None}
      /\ waits \in [Peers -> [headers : BOOLEAN, blocks : SUBSET Blocks]]
      /\ DOMAIN peers = 1..Len(peers) /\ Len(peers) \in Nat
  BY DEF PeerTypes
<1>6. BestOf(peers) \in Registered \cup {None}
  BY <1>5, BestOfIsOne DEF Registered
<1>7. CASE CreateHeaderRequest
  <2>1. PICK p : /\ p = IF syncPeer = None THEN BestOf(peers) ELSE syncPeer
                 /\ p # None /\ syncPeer' = p /\ waits' = [waits EXCEPT ![p].headers = TRUE]
                 /\ UNCHANGED peers
    BY <1>7 DEF CreateHeaderRequest
  <2>2. p \in Registered /\ p \in Peers
    BY <1>5, <1>6, <2>1 DEF Registered, Range
  <2>3. /\ waits' \in [Peers -> [headers : BOOLEAN, blocks : SUBSET Blocks]]
        /\ \A q \in Peers \ {p} : waits'[q] = waits[q]
    BY <2>1, <2>2, HeadersAwaited
  <2> QED BY <1>5, <2>1, <2>2, <2>3, WaitsChange
<1>8. CASE CreateBlockRequest
  <2> DEFINE S == {p \in Peers : Cardinality(waits[p].blocks) < MaxPerRequest}
             room == Filtered(peers, S)
  <2>1. /\ room \in Seq(Peers) /\ room # <<>>
        /\ \A k \in DOMAIN room : \E i \in DOMAIN peers : room[k] = peers[i] /\ peers[i] \in S
    BY <1>5, <1>8, FilteredProperties DEF CreateBlockRequest
  <2>2. PICK p \in Peers : p = room[1] /\ p \in Registered
    <3> HIDE DEF room
    <3>1. 1 \in DOMAIN room
      BY <2>1
    <3> QED BY <1>5, <2>1, <3>1 DEF Registered, Range
  <2>3. PICK hs \in SUBSET (pending \ waits[p].blocks) : waits' = [waits EXCEPT ![p].blocks = @ \cup hs]
    BY <1>8, <2>2 DEF CreateBlockRequest
  <2>4. PICK bs \in SUBSET Blocks : bs = waits[p].blocks \cup hs
    BY <1>5 DEF BodyTypes
  <2>5. /\ waits' \in [Peers -> [headers : BOOLEAN, blocks : SUBSET Blocks]]
        /\ \A q \in Peers \ {p} : waits'[q] = waits[q]
    BY <2>3, <2>4, BlocksAwaited
  <2>6. UNCHANGED <<peers, syncPeer>>
    BY <1>8 DEF CreateBlockRequest
  <2> QED BY <1>5, <2>2, <2>5, <2>6, WaitsChange
<1>9. ASSUME NEW p \in Peers, RegisterPeer(p)
      PROVE  PeerTypes'
  <2>1. /\ waits' = [waits EXCEPT ![p] = NoWaits]
        /\ syncPeer' \in {p, syncPeer}
        /\ \/ p \notin Registered /\ peers' = Append(peers, p)
           \/ p \in Registered /\ UNCHANGED peers
    BY <1>9 DEF RegisterPeer
  <2>2. /\ peers' \in Seq(Peers) /\ IsInjective(peers') /\ Registered' = Registered \cup {p}
    <3>1. CASE p \notin Registered /\ peers' = Append(peers, p)
      <4>1. /\ peers' \in Seq(Peers) /\ DOMAIN peers' = 1..Len(peers) + 1
            /\ \A i \in 1..Len(peers) : peers'[i] = peers[i] /\ peers[i] # p
            /\ peers'[Len(peers) + 1] = p
        BY <1>5, <3>1, AppendProperties DEF Registered, Range
      <4>2. IsInjective(peers')
        BY <1>5, <4>1 DEF IsInjective
      <4>3. 1..Len(peers) + 1 = (1..Len(peers)) \cup {Len(peers) + 1}
        BY <1>5
      <4>4. Registered' = Registered \cup {p}
        BY <1>5, <4>1, <4>3 DEF Registered, Range
      <4> QED BY <4>1, <4>2, <4>4
    <3>2. CASE p \in Registered /\ UNCHANGED peers
      BY <1>5, <3>2 DEF Registered
    <3> QED BY <2>1, <3>1, <3>2
  <2>3. waits' \in [Peers -> [headers : BOOLEAN, blocks : SUBSET Blocks]]
    BY <1>5, <2>1 DEF NoWaits
  <2>4. \A q \in Peers \ Registered' : waits'[q] = NoWaits
    BY <1>5, <2>1, <2>2 DEF PeerTypes
  <2>5. syncPeer' \in Registered' \cup {None}
    BY <1>5, <2>1, <2>2
  <2> QED BY <2>2, <2>3, <2>4, <2>5 DEF PeerTypes
<1>10. ASSUME NEW p \in Peers, RemovePeer(p)
       PROVE  PeerTypes'
  <2>1. /\ peers' = Filtered(peers, Peers \ {p}) /\ waits' = [waits EXCEPT ![p] = NoWaits]
        /\ syncPeer' = IF syncPeer = p THEN BestOf(peers') ELSE syncPeer
    BY <1>10 DEF RemovePeer
  <2>2. /\ peers' \in Seq(Peers) /\ IsInjective(peers')
        /\ \A i \in DOMAIN peers : peers[i] \in Peers \ {p} => \E k \in DOMAIN peers' : peers'[k] = peers[i]
    <3>0. PICK S : S = Peers \ {p}
      OBVIOUS
    <3> DEFINE f == Filtered(peers, S)
    <3>1. /\ f \in Seq(Peers) /\ IsInjective(f)
          /\ \A i \in DOMAIN peers : peers[i] \in S => \E k \in DOMAIN f : f[k] = peers[i]
      <4>1. peers \in Seq(Peers)
        BY <1>5
      <4>2. f \in Seq(Peers) /\ (IsInjective(peers) => IsInjective(f))
        BY <4>1, FilteredProperties
      <4>3. \A i \in DOMAIN peers : peers[i] \in S => \E k \in DOMAIN f : f[k] = peers[i]
        BY <4>1, FilteredProperties
      <4> QED BY <1>5, <4>2, <4>3
    <3> HIDE DEF f
    <3>2. peers' = f
      BY <2>1, <3>0 DEF f
    <3> QED BY <3>0, <3>1, <3>2
  <2>3. \A q \in Registered : q # p => q \in Registered'
    BY <1>5, <2>2 DEF Registered, Range
  <2>4. waits' \in [Peers -> [headers : BOOLEAN, blocks : SUBSET Blocks]]
    BY <1>5, <2>1 DEF NoWaits
  <2>5. \A q \in Peers \ Registered' : waits'[q] = NoWaits
    BY <1>5, <2>1, <2>3 DEF PeerTypes
  <2>6. syncPeer' \in Registered' \cup {None}
    <3>1. BestOf(peers') \in Registered' \cup {None}
      BY <2>2, BestOfIsOne DEF Registered
    <3> QED BY <1>5, <2>1, <2>3, <3>1
  <2> QED BY <2>2, <2>4, <2>5, <2>6 DEF PeerTypes
<1> QED BY <1>7, <1>8, <1>9, <1>10
(* A message comes of p: what was awaited of it is no more.                    *)
LEMMA MessageComes ==
    ASSUME PeerTypes, BoundTypes, NEW p \in Peers,
           \/ waits' = [waits EXCEPT ![p].headers = FALSE]
           \/ \E b \in Blocks : waits' = [waits EXCEPT ![p].blocks = @ \ {b}],
           \E due \in BOOLEAN : Solicited(due),
           UNCHANGED <<peers, syncPeer, asked, churn>>
    PROVE  PeerTypes' /\ BoundTypes'
<1>1. BoundTypes'
  BY SyncAssumption DEF BoundTypes, Solicited
<1>2. syncPeer' \in Registered \cup {None}
  BY DEF PeerTypes
<1>3. CASE waits' = [waits EXCEPT ![p].headers = FALSE]
  <2>1. /\ waits' \in [Peers -> [headers : BOOLEAN, blocks : SUBSET Blocks]]
        /\ \A q \in Peers \ {p} : waits'[q] = waits[q]
        /\ waits[p] = NoWaits => waits'[p] = NoWaits
    BY <1>3, HeadersAwaited
  <2> QED BY <1>1, <1>2, <2>1, WaitsChange
<1>4. ASSUME NEW b \in Blocks, waits' = [waits EXCEPT ![p].blocks = @ \ {b}]
      PROVE  PeerTypes'
  <2>1. PICK bs \in SUBSET Blocks : bs = waits[p].blocks \ {b}
    BY DEF PeerTypes
  <2>2. waits' = [waits EXCEPT ![p].blocks = bs]
    BY <1>4, <2>1
  <2>3. /\ waits' \in [Peers -> [headers : BOOLEAN, blocks : SUBSET Blocks]]
        /\ \A q \in Peers \ {p} : waits'[q] = waits[q]
        /\ waits[p] = NoWaits => waits'[p] = NoWaits
    BY <2>1, <2>2, BlocksAwaited
  <2> QED BY <1>2, <2>3, WaitsChange
<1> QED BY <1>1, <1>3, <1>4

(* The next bodies are taken from the queue.                                  *)
LEMMA BodiesTaken ==
    ASSUME NEW pend \in SUBSET Blocks, IsFiniteSet(pend), Cardinality(pend) <= MaxConcurrent,
           NEW q \in Seq(Blocks), DownloadNext(pend, q)
    PROVE  BodyTypes'
BY DownloadNextProperties DEF DownloadNext, BodyTypes

(* Headers come to their end.                                                *)
LEMMA NoMoreHeadersStep == ASSUME SyncIInv, NEW p \in Peers, NoMoreHeaders(p) PROVE SyncIInv'
<1> USE DEF SyncIInv, Typed
<1>1. /\ waits' = [waits EXCEPT ![p].headers = FALSE] /\ Solicited(waits[p].headers)
      /\ UNCHANGED <<peers, syncPeer, headerChain, orphans, work, arriving, handed, store, asked, churn>>
  BY DEF NoMoreHeaders, outVars
<1>2. waits[p].headers \in BOOLEAN
  BY DEF PeerTypes
<1>3. PeerTypes' /\ BoundTypes'
  BY <1>1, <1>2, MessageComes
<1>4. OrphanTypes' /\ WorkTypes' /\ WorkIsTrue'
  BY <1>1, WorkUntouched DEF OrphanTypes, WorkTypes
<1>5. state' \in {"IDLE", "HEADERS", "BLOCKS", "SYNCED"}
  <2>1. state' \in {"SYNCED", "BLOCKS", state}
    BY DEF NoMoreHeaders
  <2> QED BY <2>1 DEF HeaderTypes
<1>6. HeaderTypes' /\ HandedAfterParents' /\ HeadersAfterParents'
  BY <1>1, <1>5, HeadersUntouched
<1>7. BodyTypes'
  <2> DEFINE S == [hash : Blocks, done : {FALSE}]
             undone == Filtered(headerChain, S)
             hashes == [i \in DOMAIN undone |-> undone[i].hash]
  <2>1. \/ UNCHANGED <<pending, queue>>
        \/ DownloadNext(pending, hashes)
    BY DEF NoMoreHeaders, bodyVars
  <2>2. CASE UNCHANGED <<pending, queue>>
    BY <2>2 DEF BodyTypes
  <2>3. CASE DownloadNext(pending, hashes)
    <3>1. headerChain \in Seq(Headers)
      BY DEF HeaderTypes
    <3>2. undone \in Seq(Headers)
      BY <3>1, FilteredProperties
    <3> HIDE DEF undone
    <3>3. \A i \in DOMAIN undone : undone[i].hash \in Blocks
      <4>1. \A i \in DOMAIN undone : undone[i] \in Headers
        BY <3>2
      <4> QED BY <4>1 DEF Headers
    <3>4. DOMAIN undone = 1..Len(undone) /\ Len(undone) \in Nat
      BY <3>2
    <3>5. hashes \in Seq(Blocks)
      BY <3>3, <3>4
    <3> HIDE DEF hashes
    <3>6. PICK q \in Seq(Blocks) : q = hashes
      BY <3>5
    <3>7. PICK pend \in SUBSET Blocks : pend = pending
      BY DEF BodyTypes
    <3>8. DownloadNext(pend, q)
      BY <2>3, <3>6, <3>7
    <3> QED BY <3>7, <3>8, BodiesTaken DEF BodyTypes
  <2> QED BY <2>1, <2>2, <2>3
<1> QED BY <1>3, <1>4, <1>6, <1>7

(* Headers come, and the first of a message is taken or refused.               *)
LEMMA HeaderSteps ==
    ASSUME SyncIInv, NEW p \in Peers, DeliverHeaders(p) \/ ValidateHeader(p)
    PROVE  SyncIInv'
<1> USE DEF SyncIInv, Typed
<1>1. UNCHANGED <<state, peers, syncPeer, orphans, pending, queue, arriving, handed, store, asked, churn>>
  <2>1. CASE DeliverHeaders(p)
    BY <2>1 DEF DeliverHeaders, bodyVars, outVars
  <2>2. CASE ValidateHeader(p)
    BY <2>2 DEF ValidateHeader, peerVars, bodyVars, outVars, boundVars
  <2> QED BY <2>1, <2>2
<1>2. BodyTypes' /\ OrphanTypes'
  BY <1>1 DEF BodyTypes, OrphanTypes
<1>3. ASSUME NEW hs \in Seq(Blocks), work' = [work EXCEPT ![p] = Working(hs)]
      PROVE  WorkTypes' /\ WorkIsTrue'
  <2>1. Working(hs) \in [hs : Seq(Blocks), stored : BOOLEAN] /\ Working(hs).hs = hs
        /\ (Working(hs).stored => hs # <<>> /\ Parent[Head(hs)] \in store)
    BY DEF Working, ParentStored
  <2> HIDE DEF Working
  <2>2. WorkTypes'
    BY <1>1, <1>3, <2>1 DEF WorkTypes
  <2>3. WorkIsTrue'
    BY <1>1, <1>3, <2>1 DEF WorkTypes, WorkIsTrue
  <2> QED BY <2>2, <2>3
<1>4. CASE DeliverHeaders(p)
  <2>1. /\ waits' = [waits EXCEPT ![p].headers = FALSE] /\ Solicited(waits[p].headers)
        /\ UNCHANGED headerChain
    BY <1>4 DEF DeliverHeaders
  <2>2. waits[p].headers \in BOOLEAN
    BY DEF PeerTypes
  <2>3. PeerTypes' /\ BoundTypes'
    BY <1>1, <2>1, <2>2, MessageComes
  <2>4. HeaderTypes' /\ HandedAfterParents' /\ HeadersAfterParents'
    BY <1>1, <2>1, HeadersUntouched DEF HeaderTypes
  <2>5. PICK i \in DOMAIN Branch[p], n \in 1..MaxHeaders :
          /\ i + n - 1 <= Len(Branch[p])
          /\ work' = [work EXCEPT ![p] = Working(SubSeq(Branch[p], i, i + n - 1))]
    BY <1>4 DEF DeliverHeaders
  <2>6. SubSeq(Branch[p], i, i + n - 1) \in Seq(Blocks)
    <3>1. Branch[p] \in Seq(Blocks) /\ i \in 1..Len(Branch[p]) /\ n \in Nat /\ n >= 1
      BY SyncAssumption
    <3>2. \A k \in i..i + n - 1 : Branch[p][k] \in Blocks
      BY <2>5, <3>1
    <3>3. i \in Int /\ i + n - 1 \in Int
      BY <3>1
    <3> QED BY <3>2, <3>3, SubSeqProperties
  <2> QED BY <1>2, <1>3, <2>3, <2>4, <2>5, <2>6
<1>5. CASE ValidateHeader(p)
  <2> DEFINE b == Head(work[p].hs)
  <2>1. UNCHANGED <<peers, waits, syncPeer, asked, stray, churn>>
    BY <1>5 DEF ValidateHeader, peerVars, boundVars
  <2>2. PeerTypes' /\ BoundTypes'
    BY <2>1 DEF PeerTypes, Registered, BoundTypes
  <2>3. work[p].hs \in Seq(Blocks) /\ work[p].hs # <<>> /\ b \in Blocks /\ Tail(work[p].hs) \in Seq(Blocks)
    BY <1>5 DEF ValidateHeader, WorkTypes
  <2>4. CASE UNCHANGED headerChain /\ work' = [work EXCEPT ![p] = Working(<<>>)]
    <3>1. <<>> \in Seq(Blocks)
      OBVIOUS
    <3>2. HeaderTypes' /\ HandedAfterParents' /\ HeadersAfterParents'
      BY <1>1, <2>4, HeadersUntouched DEF HeaderTypes
    <3> QED BY <1>2, <1>3, <2>2, <2>4, <3>1, <3>2
  <2>5. CASE /\ headerChain' = Append(headerChain, [hash |-> b, done |-> FALSE])
             /\ work' = [work EXCEPT ![p] = Working(Tail(work[p].hs))]
             /\ Parent[b] \in store \cup Hashes
    <3>1. WorkTypes' /\ WorkIsTrue'
      BY <1>3, <2>3, <2>5
    <3> HIDE DEF b
    <3>2. headerChain \in Seq(Headers) /\ [hash |-> b, done |-> FALSE] \in Headers
      BY <2>3 DEF HeaderTypes, Headers
    <3> DEFINE m == Len(headerChain)
    <3>3. /\ headerChain' \in Seq(Headers) /\ m \in Nat
          /\ DOMAIN headerChain = 1..m /\ DOMAIN headerChain' = 1..m + 1
          /\ \A i \in 1..m : headerChain'[i] = headerChain[i]
          /\ headerChain'[m + 1].hash = b
      BY <2>5, <3>2, AppendProperties
    <3>4. HeaderTypes' /\ HandedAfterParents' /\ Known' = Known
      BY <1>1, <3>3 DEF HeaderTypes, HandedAfterParents, Known
    <3>5. ASSUME NEW i \in 1..m + 1
          PROVE  EarlierThan(i)' = {headerChain[k].hash : k \in 1..i - 1}
      <4>1. \A k \in 1..i - 1 : k \in 1..m /\ headerChain'[k].hash = headerChain[k].hash
        BY <3>3
      <4> QED BY <4>1 DEF EarlierThan
    <3>6. HeadersAfterParents'
      <4> SUFFICES ASSUME NEW i \in 1..m + 1
                   PROVE  Parent[headerChain'[i].hash] \in Known \cup EarlierThan(i)'
        BY <3>3, <3>4 DEF HeadersAfterParents
      <4>1. CASE i \in 1..m
        BY <3>3, <3>5, <4>1 DEF HeadersAfterParents, EarlierThan
      <4>2. CASE i \notin 1..m
        <5>1. i = m + 1 /\ i - 1 = m
          BY <3>3, <4>2
        <5>2. Hashes = EarlierThan(i)'
          BY <3>3, <3>5, <5>1 DEF Hashes
        <5> QED BY <2>5, <3>3, <5>1, <5>2 DEF Known
      <4> QED BY <4>1, <4>2
    <3> QED BY <1>2, <2>2, <3>1, <3>4, <3>6
  <2>6. work[p].stored => Parent[b] \in store
    BY DEF WorkIsTrue
  <2> QED BY <1>5, <2>4, <2>5, <2>6 DEF ValidateHeader, ValidHeader, ParentStored
<1> QED BY <1>4, <1>5
(* A body comes, of a header that waits for it or of a block not known.        *)
LEMMA HandleBlockStep ==
    ASSUME SyncIInv, NEW p \in Peers, NEW b \in Blocks, HandleBlock(p, b)
    PROVE  SyncIInv'
<1> USE DEF SyncIInv, Typed
<1>1. /\ waits' = [waits EXCEPT ![p].blocks = @ \ {b}] /\ Solicited(b \in waits[p].blocks)
      /\ UNCHANGED <<peers, syncPeer, orphans, work, store, asked, churn>>
  BY DEF HandleBlock
<1>2. PeerTypes' /\ BoundTypes'
  <2>1. (b \in waits[p].blocks) \in BOOLEAN
    OBVIOUS
  <2> QED BY <1>1, <2>1, MessageComes
<1>3. OrphanTypes'
  BY <1>1 DEF OrphanTypes
<1>4. CASE b \notin Hashes
  <2>1. arriving' = arriving \cup {<<b, ParentStored(b)>>} /\ UNCHANGED <<state, headerChain, pending, queue, handed>>
    BY <1>4 DEF HandleBlock, bodyVars
  <2>2. BodyTypes'
    BY <2>1 DEF BodyTypes
  <2>3. HeaderTypes' /\ HandedAfterParents' /\ HeadersAfterParents'
    BY <1>1, <2>1, HeadersUntouched DEF HeaderTypes
  <2>4. WorkTypes' /\ WorkIsTrue'
    <3>1. ParentStored(b) \in BOOLEAN
      BY DEF ParentStored
    <3>2. arriving' \subseteq Blocks \X BOOLEAN
      BY <2>1, <3>1 DEF WorkTypes
    <3> QED BY <1>1, <3>2, WorkUntouched
  <2> QED BY <1>2, <1>3, <2>2, <2>3, <2>4
<1>5. CASE b \in Hashes
  <2> DEFINE i == SelectInSeq(headerChain, LAMBDA e : e.hash = b)
             hc == [headerChain EXCEPT ![i].done = TRUE]
  <2>1. ProcessValidatedBlocks(hc) /\ DownloadNext(pending \ {b}, queue) /\ UNCHANGED arriving
    BY <1>5 DEF HandleBlock
  <2> HIDE DEF i
  <2>2. headerChain \in Seq(Headers)
    BY DEF HeaderTypes
  <2>3. \A k \in DOMAIN headerChain : hc[k] \in Headers /\ hc[k].hash = headerChain[k].hash
    <3>1. \A k \in DOMAIN headerChain : headerChain[k] \in Headers
      BY <2>2
    <3>2. \A k \in DOMAIN headerChain : hc[k] = IF k = i THEN [headerChain[k] EXCEPT !.done = TRUE] ELSE headerChain[k]
      BY <2>2
    <3> HIDE DEF hc
    <3> QED BY <3>1, <3>2 DEF Headers
  <2>4. DOMAIN hc = DOMAIN headerChain /\ hc = [k \in DOMAIN headerChain |-> hc[k]]
    BY <2>2
  <2> HIDE DEF hc
  <2>5. hc \in Seq(Headers) /\ Len(hc) = Len(headerChain)
    BY <2>2, <2>3, <2>4
  <2>6. Complete(hc) \in 0..Len(headerChain)
    BY <2>5, CompleteExists
  <2>7. PICK n \in 0..Len(headerChain), h \in Seq(Headers) : n = Complete(hc) /\ h = hc
    BY <2>5, <2>6
  <2>8. /\ handed' = handed \cup {h[k].hash : k \in 1..n}
        /\ headerChain' = SubSeq(h, n + 1, Len(h)) /\ state' \in {"SYNCED", state}
    BY <2>1, <2>7 DEF ProcessValidatedBlocks
  <2>9. HeaderTypes' /\ HandedAfterParents' /\ HeadersAfterParents'
    <3>1. Len(h) = Len(headerChain) /\ \A k \in DOMAIN headerChain : h[k].hash = headerChain[k].hash
      BY <2>3, <2>5, <2>7
    <3>2. handed' \subseteq Blocks /\ headerChain' \in Seq(Headers) /\ HandedAfterParents' /\ HeadersAfterParents'
      BY <1>1, <2>8, <3>1, HandOn
    <3> QED BY <1>1, <2>8, <3>2 DEF HeaderTypes
  <2>10. BodyTypes'
    <3>1. PICK pend \in SUBSET Blocks : pend = pending \ {b}
      BY DEF BodyTypes
    <3>2. IsFiniteSet(pend) /\ Cardinality(pend) <= Cardinality(pending)
      BY <3>1, FS_Subset DEF BodyTypes
    <3>3. Cardinality(pend) <= MaxConcurrent
      BY <3>2, FS_CardinalityType, SyncAssumption DEF BodyTypes
    <3>4. PICK q \in Seq(Blocks) : q = queue
      BY DEF BodyTypes
    <3> QED BY <2>1, <3>1, <3>2, <3>3, <3>4, BodiesTaken
  <2>11. WorkTypes' /\ WorkIsTrue'
    BY <1>1, <2>1, WorkUntouched DEF WorkTypes
  <2> QED BY <1>2, <1>3, <2>9, <2>10, <2>11
<1> QED BY <1>4, <1>5

(* Some orphans go and none comes: the pool stays typed.                       *)
LEMMA OrphansGo ==
    ASSUME NEW os \in Seq(Blocks), IsInjective(os), NEW S
    PROVE  /\ Filtered(os, S) \in Seq(Blocks) /\ IsInjective(Filtered(os, S))
           /\ Len(Filtered(os, S)) <= Len(os) /\ Len(Filtered(os, S)) \in Nat
           /\ \A k \in DOMAIN Filtered(os, S) : Filtered(os, S)[k] \in S
BY FilteredProperties

(* A block not known joins the pool, or is dropped.                            *)
LEMMA OrphanCheckedStep ==
    ASSUME SyncIInv, NEW a \in Blocks \X BOOLEAN, OrphanChecked(a)
    PROVE  SyncIInv'
<1> USE DEF SyncIInv, Typed
<1>1. /\ a \in arriving /\ arriving' = arriving \ {a} /\ DownloadNext(pending, queue)
      /\ UNCHANGED <<state, peers, waits, syncPeer, headerChain, work, handed, store, asked, stray, churn>>
  BY DEF OrphanChecked, peerVars, outVars, boundVars
<1>2. PeerTypes' /\ BoundTypes'
  BY <1>1 DEF PeerTypes, Registered, BoundTypes
<1>3. HeaderTypes' /\ HandedAfterParents' /\ HeadersAfterParents'
  BY <1>1, HeadersUntouched DEF HeaderTypes
<1>4. WorkTypes' /\ WorkIsTrue'
  BY <1>1, WorkUntouched DEF WorkTypes
<1>5. BodyTypes'
  <2>1. PICK pend \in SUBSET Blocks, q \in Seq(Blocks) : pend = pending /\ q = queue
    BY DEF BodyTypes
  <2> QED BY <1>1, <2>1, BodiesTaken DEF BodyTypes
<1>6. OrphanTypes'
  <2>1. PICK b \in Blocks : b = a[1]
    OBVIOUS
  <2>2. UNCHANGED orphans \/ AddOrphan(b)
    BY <2>1 DEF OrphanChecked
  <2>3. CASE UNCHANGED orphans
    BY <2>3 DEF OrphanTypes
  <2>4. CASE AddOrphan(b)
    <3> DEFINE room == IF Len(orphans) >= MaxOrphans THEN Tail(orphans) ELSE orphans
               f == Filtered(room, Blocks \ {b})
    <3>1. orphans \in Seq(Blocks) /\ IsInjective(orphans) /\ Len(orphans) <= MaxOrphans /\ Len(orphans) \in Nat
      BY DEF OrphanTypes
    <3>2. MaxOrphans \in Nat /\ MaxOrphans # 0
      BY SyncAssumption
    <3>3. room \in Seq(Blocks) /\ IsInjective(room) /\ Len(room) < MaxOrphans
      <4>1. CASE Len(orphans) >= MaxOrphans
        <5>1. orphans # <<>>
          BY <3>2, <4>1
        <5>2. /\ Tail(orphans) \in Seq(Blocks) /\ Len(Tail(orphans)) = Len(orphans) - 1
              /\ \A i \in 1..Len(Tail(orphans)) : Tail(orphans)[i] = orphans[i + 1]
          BY <3>1, <5>1, HeadTailProperties
        <5>3. PICK t \in Seq(Blocks) : t = Tail(orphans)
          BY <5>2
        <5>4. Len(t) = Len(orphans) - 1 /\ \A i \in 1..Len(t) : t[i] = orphans[i + 1]
          BY <5>2, <5>3, Zenon
        <5>5. DOMAIN t = 1..Len(t) /\ DOMAIN orphans = 1..Len(orphans)
          BY <3>1
        <5>6. \A i \in DOMAIN t : i \in Nat /\ i + 1 \in DOMAIN orphans
          BY <3>1, <5>4, <5>5
        <5>7. IsInjective(t)
          BY <3>1, <5>4, <5>5, <5>6 DEF IsInjective
        <5>8. Len(t) < MaxOrphans
          BY <3>1, <3>2, <5>4
        <5>9. room = t
          BY <4>1, <5>3
        <5> QED BY <5>7, <5>8, <5>9
      <4>2. CASE ~(Len(orphans) >= MaxOrphans)
        BY <3>1, <3>2, <4>2
      <4> QED BY <4>1, <4>2
    <3> HIDE DEF room
    <3>4. /\ f \in Seq(Blocks) /\ IsInjective(f) /\ Len(f) <= Len(room) /\ Len(f) \in Nat
          /\ \A k \in DOMAIN f : f[k] \in Blocks \ {b}
      <4>1. PICK S : S = Blocks \ {b}
        OBVIOUS
      <4> QED BY <3>3, <4>1, OrphansGo
    <3> HIDE DEF f
    <3>5. orphans' = Append(f, b)
      BY <2>4 DEF AddOrphan, f, room
    <3>6. /\ orphans' \in Seq(Blocks) /\ Len(orphans') = Len(f) + 1 /\ DOMAIN orphans' = 1..Len(f) + 1
          /\ DOMAIN f = 1..Len(f)
          /\ \A k \in 1..Len(f) : orphans'[k] = f[k] /\ f[k] # b
          /\ orphans'[Len(f) + 1] = b
      BY <3>4, <3>5, AppendProperties
    <3>7. IsInjective(orphans')
      BY <3>4, <3>6 DEF IsInjective
    <3>8. Len(orphans') <= MaxOrphans
      <4>1. Len(room) \in Nat
        BY <3>3
      <4> QED BY <3>2, <3>3, <3>4, <3>6, <4>1
    <3> QED BY <3>6, <3>7, <3>8 DEF OrphanTypes
  <2> QED BY <2>2, <2>3, <2>4
<1> QED BY <1>2, <1>3, <1>4, <1>5, <1>6

(* A block that was handed on is stored, and its orphans leave the pool.       *)
LEMMA StoreBlockStep == ASSUME SyncIInv, NEW b \in Blocks, StoreBlock(b) PROVE SyncIInv'
<1> USE DEF SyncIInv, Typed
<1>1. /\ store' = store \cup {b} /\ orphans' = Filtered(orphans, Blocks \ Connected(b))
      /\ UNCHANGED <<state, peers, waits, syncPeer, headerChain, pending, queue, work, arriving, handed, asked, stray, churn>>
  BY DEF StoreBlock, peerVars, bodyVars, boundVars
<1>2. PeerTypes' /\ BoundTypes' /\ BodyTypes'
  BY <1>1 DEF PeerTypes, Registered, BoundTypes, BodyTypes
<1>3. HeaderTypes'
  BY <1>1 DEF HeaderTypes
<1>4. HandedAfterParents' /\ HeadersAfterParents'
  BY <1>1 DEF HandedAfterParents, HeadersAfterParents, Known, EarlierThan
<1>5. WorkTypes' /\ WorkIsTrue'
  BY <1>1 DEF WorkTypes, WorkIsTrue
<1>6. OrphanTypes'
  <2>1. PICK S : S = Blocks \ Connected(b)
    OBVIOUS
  <2>2. PICK os \in Seq(Blocks) : os = orphans /\ IsInjective(os) /\ Len(os) <= MaxOrphans
    BY DEF OrphanTypes
  <2> DEFINE f == Filtered(os, S)
  <2>3. f \in Seq(Blocks) /\ IsInjective(f) /\ Len(f) <= Len(os) /\ Len(f) \in Nat
    BY <2>2, OrphansGo
  <2> HIDE DEF f
  <2>4. orphans' = f
    BY <1>1, <2>1, <2>2 DEF f
  <2>5. Len(os) \in Nat /\ MaxOrphans \in Nat
    BY SyncAssumption
  <2> QED BY <2>2, <2>3, <2>4, <2>5 DEF OrphanTypes
<1> QED BY <1>2, <1>3, <1>4, <1>5, <1>6

(* Every step keeps the invariant.                                           *)
LEMMA SyncStep == SyncIInv /\ [Next]_vars => SyncIInv'
<1> SUFFICES ASSUME SyncIInv, [Next]_vars PROVE SyncIInv'
  OBVIOUS
<1>1. CASE UNCHANGED vars
  BY <1>1 DEF vars, peerVars, bodyVars, outVars, boundVars, SyncIInv, Typed, PeerTypes, BodyTypes, OrphanTypes,
     HeaderTypes, WorkTypes, BoundTypes, WorkIsTrue, HandedAfterParents, HeadersAfterParents, Known, EarlierThan,
     Registered
<1>2. CASE Next
  BY <1>2, OperatorSteps, PeerSteps, NoMoreHeadersStep, HeaderSteps, HandleBlockStep, OrphanCheckedStep,
     StoreBlockStep DEF Next
<1> QED BY <1>1, <1>2

(* Blocks are handed on after their parents, and every header that waits has    *)
(* its parent handed on, stored or before it, whatever the tree, the peers, the *)
(* limits and the order of what they send.                                   *)
THEOREM BlocksFollowTheirParents == Spec => []ParentsFirst
<1>1. Init => SyncIInv
  BY SyncStarts
<1>2. SyncIInv /\ [Next]_vars => SyncIInv'
  BY SyncStep
<1>3. SyncIInv => ParentsFirst
  BY TypedIsTypeOK DEF SyncIInv, ParentsFirst, HandedAfterParents, HeadersAfterParents
<1> QED BY <1>1, <1>2, <1>3, PTL DEF Spec

-----------------------------------------------------------------------------
(* Gossip.                                                                   *)

(* The types the steps keep: a chunk that is read is a sequence of messages  *)
(* that is not empty, of a connection whose socket was open when it came.    *)
SocketTypes ==
    /\ service \in [at : {"up", "closing", "stopped", "crashed"}, spared : SUBSET Conns]
    /\ conn \in [Conns -> [at : {"none", "open", "destroyed", "closed"}, hello : BOOLEAN, chunks : 0..MaxChunks]]
    /\ list \subseteq Conns
ItemTypes ==
    /\ reading \in [conn : Conns \cup {NoConn}, left : Seq(Messages)]
    /\ saw \subseteq Items /\ awaited \subseteq Conns \X Items \X {"called", "done"}
    /\ held \subseteq Txs /\ settled \subseteq Items /\ requested \subseteq Conns \X Items
    /\ source \in [Items -> Seq(Conns)]
ToldTypes == told \in [Conns -> [Items -> [relay : Nat, pool : Nat]]]
GossipTypes == SocketTypes /\ ItemTypes /\ ToldTypes
ReadingIsLive ==
    reading.conn \in Conns => reading.left # <<>> /\ conn[reading.conn].at \in {"open", "destroyed"}
ListedAreUp == \A c \in list : conn[c].hello /\ conn[c].at \in {"open", "destroyed"}

(* An item nobody sent has no source, no handler and no relay; one that was   *)
(* sent has one source, and while a handler of it is awaited it is the only  *)
(* one, of that source, and nothing was relayed.                            *)
UnseenIsUntouched ==
    \A i \in Items \ saw : source[i] = <<>> /\ \A c \in Conns : told[c][i].relay = 0
SeenHasOneSource == \A i \in saw : \E c \in Conns : source[i] = <<c>> /\ told[c][i].relay = 0
AwaitedAlone ==
    \A a \in awaited : /\ a[2] \in saw /\ source[a[2]] = <<a[1]>>
                       /\ \A c \in Conns : told[c][a[2]].relay = 0
                       /\ \A b \in awaited : b[2] = a[2] => b = a
ToldOnce ==
    \A c \in Conns, i \in Items : /\ told[c][i].relay <= 1 /\ told[c][i].pool <= 1
                                  /\ i \notin held => told[c][i].pool = 0

GossipIInv ==
    /\ GossipTypes /\ ReadingIsLive /\ ListedAreUp
    /\ UnseenIsUntouched /\ SeenHasOneSource /\ AwaitedAlone /\ ToldOnce

-----------------------------------------------------------------------------
(* What broadcast counts: an announcement of one item by one of the two ways, *)
(* at most one more to each connection, and none to the one left out.        *)
LEMMA BroadcastByRelay ==
    ASSUME GossipTypes, NEW i \in Items, NEW but, Broadcast(i, "relay", but)
    PROVE  /\ ToldTypes'
           /\ \A c \in Conns, j \in Items : /\ told'[c][j].pool = told[c][j].pool
                                            /\ j # i => told'[c][j] = told[c][j]
           /\ \A c \in Conns : /\ told'[c][i].relay \in {told[c][i].relay, told[c][i].relay + 1}
                               /\ c = but => told'[c][i].relay = told[c][i].relay
<1> DEFINE New(c) == IF c \in list /\ c # but /\ conn[c].at = "open"
                     THEN [told[c] EXCEPT ![i]["relay"] = @ + 1] ELSE told[c]
<1>1. told' = [c \in Conns |-> New(c)]
  BY DEF Broadcast
<1>2. \A c \in Conns : told[c] \in [Items -> [relay : Nat, pool : Nat]]
  BY DEF GossipTypes, SocketTypes, ItemTypes, ToldTypes
<1>3. ASSUME NEW c \in Conns
      PROVE  /\ New(c) \in [Items -> [relay : Nat, pool : Nat]]
             /\ \A j \in Items : /\ New(c)[j].pool = told[c][j].pool
                                 /\ j # i => New(c)[j] = told[c][j]
             /\ New(c)[i].relay \in {told[c][i].relay, told[c][i].relay + 1}
             /\ c = but => New(c)[i].relay = told[c][i].relay
  BY <1>2
<1> QED BY <1>1, <1>3 DEF ToldTypes

(* The same for what the mempool announces.                                  *)
LEMMA BroadcastByPool ==
    ASSUME GossipTypes, NEW i \in Items, NEW but, Broadcast(i, "pool", but)
    PROVE  /\ ToldTypes'
           /\ \A c \in Conns, j \in Items : /\ told'[c][j].relay = told[c][j].relay
                                            /\ j # i => told'[c][j] = told[c][j]
           /\ \A c \in Conns : told'[c][i].pool \in {told[c][i].pool, told[c][i].pool + 1}
<1> DEFINE New(c) == IF c \in list /\ c # but /\ conn[c].at = "open"
                     THEN [told[c] EXCEPT ![i]["pool"] = @ + 1] ELSE told[c]
<1>1. told' = [c \in Conns |-> New(c)]
  BY DEF Broadcast
<1>2. \A c \in Conns : told[c] \in [Items -> [relay : Nat, pool : Nat]]
  BY DEF GossipTypes, SocketTypes, ItemTypes, ToldTypes
<1>3. ASSUME NEW c \in Conns
      PROVE  /\ New(c) \in [Items -> [relay : Nat, pool : Nat]]
             /\ \A j \in Items : /\ New(c)[j].relay = told[c][j].relay
                                 /\ j # i => New(c)[j] = told[c][j]
             /\ New(c)[i].pool \in {told[c][i].pool, told[c][i].pool + 1}
  BY <1>2
<1> QED BY <1>1, <1>3 DEF ToldTypes

(* A sequence with more than one element leaves some when the first is taken. *)
LEMMA TailRemains ==
    ASSUME NEW S, NEW q \in Seq(S), q # <<>>, Len(q) # 1
    PROVE  Tail(q) # <<>>
<1>1. Len(q) \in Nat /\ Len(q) # 0 /\ Len(Tail(q)) = Len(q) - 1
  OBVIOUS
<1>2. \A t : t = <<>> => Len(t) = 0
  OBVIOUS
<1>3. Len(q) - 1 # 0
  BY <1>1
<1> QED BY <1>1, <1>2, <1>3, Zenon

(* What is left of the chunk after its first message is Idle or a chunk of    *)
(* the same connection.                                                      *)
LEMMA TakenIsAChunk ==
    ASSUME GossipTypes, ReadingIsLive, NEW c \in Conns, reading.conn = c
    PROVE  /\ Taken \in [conn : Conns \cup {NoConn}, left : Seq(Messages)]
           /\ Taken.conn \in Conns => Taken.conn = c /\ Taken.left # <<>>
           /\ Head(reading.left) \in Messages
<1>1. reading \in [conn : Conns \cup {NoConn}, left : Seq(Messages)] /\ reading.left # <<>>
  BY DEF GossipTypes, ItemTypes, ReadingIsLive
<1> DEFINE q == reading.left
<1>2. q \in Seq(Messages) /\ q # <<>>
  BY <1>1
<1>3. Head(q) \in Messages /\ Tail(q) \in Seq(Messages) /\ Len(Tail(q)) = Len(q) - 1 /\ Len(q) \in Nat /\ Len(q) > 0
  BY <1>2
<1>4. CASE Len(q) = 1
  BY <1>1, <1>3, <1>4, GossipAssumption DEF Taken, Idle
<1>5. CASE Len(q) # 1
  <2>1. Taken = [reading EXCEPT !.left = Tail(@)]
    BY <1>5 DEF Taken
  <2>2. Taken.conn = c /\ Taken.left = Tail(q)
    BY <2>1, <1>1
  <2>4. Tail(q) # <<>>
    BY <1>2, <1>5, TailRemains
  <2>5. Taken \in [conn : Conns \cup {NoConn}, left : Seq(Messages)]
    BY <2>1, <1>1, <1>3
  <2> QED BY <2>2, <2>4, <2>5, <1>3
<1> QED BY <1>4, <1>5
-----------------------------------------------------------------------------
(* The initial state satisfies the invariant.                                *)
LEMMA GossipStarts == GossipInit => GossipIInv
<1> SUFFICES ASSUME GossipInit PROVE GossipIInv
  OBVIOUS
<1>1. GossipTypes
  BY GossipAssumption DEF GossipInit, GossipTypes, SocketTypes, ItemTypes, ToldTypes, Idle
<1>2. ReadingIsLive /\ ListedAreUp /\ SeenHasOneSource /\ AwaitedAlone
  BY GossipAssumption DEF GossipInit, ReadingIsLive, ListedAreUp, SeenHasOneSource, AwaitedAlone, Idle
<1>3. UnseenIsUntouched /\ ToldOnce
  BY DEF GossipInit, UnseenIsUntouched, ToldOnce
<1> QED BY <1>1, <1>2, <1>3 DEF GossipIInv

(* Connections, the server and the chunk do not touch what is known of the    *)
(* items; a step that leaves that alone keeps the facts about it.            *)
LEMMA ItemsUntouched ==
    ASSUME UnseenIsUntouched, SeenHasOneSource, AwaitedAlone, ToldOnce,
           UNCHANGED <<saw, awaited, held, told, source>>
    PROVE  UnseenIsUntouched' /\ SeenHasOneSource' /\ AwaitedAlone' /\ ToldOnce'
BY DEF UnseenIsUntouched, SeenHasOneSource, AwaitedAlone, ToldOnce

(* The same for a step of an item and what is known of the connections.      *)
LEMMA ConnsUntouched ==
    ASSUME ReadingIsLive, ListedAreUp, UNCHANGED <<conn, list, reading>>
    PROVE  ReadingIsLive' /\ ListedAreUp'
BY DEF ReadingIsLive, ListedAreUp

(* The steps of connections and of the server, and the messages that carry no *)
(* item a handler is called with.                                           *)
LEMMA ConnectionSteps ==
    ASSUME GossipIInv,
           \/ StopService \/ ServerClosed
           \/ \E c \in Conns : \/ Accept(c) \/ Close(c) \/ Receive(c)
                               \/ Refuse(c) \/ Hello(c) \/ Early(c) \/ Other(c) \/ Inv(c)
    PROVE  GossipIInv'
<1> USE DEF GossipIInv
<1>0. UNCHANGED <<saw, awaited, held, told, source, settled>>
  BY DEF StopService, ServerClosed, Accept, Close, Receive, Refuse, Hello, Early, Other, Inv, pubVars
<1>1. UnseenIsUntouched' /\ SeenHasOneSource' /\ AwaitedAlone' /\ ToldOnce'
  BY <1>0, ItemsUntouched
<1> SUFFICES GossipTypes' /\ ReadingIsLive' /\ ListedAreUp'
  BY <1>1
<1>2. /\ conn \in [Conns -> [at : {"none", "open", "destroyed", "closed"}, hello : BOOLEAN, chunks : 0..MaxChunks]]
      /\ service \in [at : {"up", "closing", "stopped", "crashed"}, spared : SUBSET Conns]
      /\ list \subseteq Conns /\ ItemTypes /\ ToldTypes
  BY DEF GossipTypes, SocketTypes
<1>3. CASE StopService
  <2>1. /\ conn' = [c \in Conns |-> IF c \in list THEN [conn[c] EXCEPT !.at = "destroyed"] ELSE conn[c]]
        /\ service' = [at |-> "closing", spared |-> {c \in Conns \ list : conn[c].at = "open"}]
        /\ reading = Idle /\ UNCHANGED <<list, reading, requested>>
    BY <1>3 DEF StopService, Free
  <2>2. GossipTypes'
    BY <1>0, <1>2, <2>1 DEF GossipTypes, SocketTypes, ItemTypes, ToldTypes
  <2>3. ReadingIsLive'
    BY <2>1, GossipAssumption DEF ReadingIsLive, Idle
  <2>4. ListedAreUp'
    BY <1>2, <2>1 DEF ListedAreUp
  <2> QED BY <2>2, <2>3, <2>4
<1>4. CASE ServerClosed
  BY <1>0, <1>4 DEF ServerClosed, GossipTypes, SocketTypes, ItemTypes, ToldTypes, ReadingIsLive, ListedAreUp
<1>5. ASSUME NEW c \in Conns, Accept(c) \/ Close(c)
      PROVE  GossipTypes' /\ ReadingIsLive' /\ ListedAreUp'
  <2>1. /\ conn' = [conn EXCEPT ![c].at = "open"] \/ conn' = [conn EXCEPT ![c].at = "closed"]
        /\ list' \subseteq list /\ reading = Idle /\ UNCHANGED <<service, reading, requested>>
    BY <1>5 DEF Accept, Close, Free
  <2>a. conn' \in [Conns -> [at : {"none", "open", "destroyed", "closed"}, hello : BOOLEAN, chunks : 0..MaxChunks]]
    BY <1>2, <2>1
  <2>2. GossipTypes'
    BY <1>0, <1>2, <2>1, <2>a DEF GossipTypes, SocketTypes, ItemTypes, ToldTypes
  <2>3. ReadingIsLive'
    BY <2>1, GossipAssumption DEF ReadingIsLive, Idle
  <2>4. c \notin list'
    BY <1>5 DEF Accept, Close, ListedAreUp
  <2>5. ListedAreUp'
    BY <1>2, <2>1, <2>4 DEF ListedAreUp
  <2> QED BY <2>2, <2>3, <2>5
<1>6. ASSUME NEW c \in Conns, Receive(c)
      PROVE  GossipTypes' /\ ReadingIsLive' /\ ListedAreUp'
  <2>0. PICK n \in 1..MaxChunk : \E ms \in [1..n -> Messages] : reading' = [conn |-> c, left |-> ms]
    BY <1>6 DEF Receive
  <2>1. PICK ms \in [1..n -> Messages] : reading' = [conn |-> c, left |-> ms]
    BY <2>0
  <2>2. n \in Nat /\ ms \in Seq(Messages) /\ Len(ms) = n /\ n # 0
    BY GossipAssumption
  <2>3. conn' = [conn EXCEPT ![c].chunks = @ - 1] /\ conn[c].at = "open" /\ conn[c].chunks > 0
        /\ UNCHANGED <<service, list, requested>>
    BY <1>6 DEF Receive
  <2>4. conn' \in [Conns -> [at : {"none", "open", "destroyed", "closed"}, hello : BOOLEAN, chunks : 0..MaxChunks]]
    BY <1>2, <2>3, GossipAssumption, SMTT(20)
  <2>5. GossipTypes'
    BY <1>0, <2>1, <2>2, <2>3, <2>4 DEF GossipTypes, SocketTypes, ItemTypes, ToldTypes
  <2>6. ms # <<>>
    BY <2>2
  <2>7. ReadingIsLive'
    BY <1>2, <2>1, <2>3, <2>6 DEF ReadingIsLive
  <2>8. ListedAreUp'
    BY <1>2, <2>3 DEF ListedAreUp
  <2> QED BY <2>5, <2>7, <2>8
<1>7. ASSUME NEW c \in Conns, Refuse(c) \/ Early(c)
      PROVE  GossipTypes' /\ ReadingIsLive' /\ ListedAreUp'
  <2>1. /\ conn' = [conn EXCEPT ![c].at = "destroyed"] /\ reading.conn = c
        /\ reading' \in {Idle, Taken} /\ UNCHANGED <<service, list, requested>>
    BY <1>7 DEF Refuse, Early, Destroyed
  <2>2. /\ reading' \in [conn : Conns \cup {NoConn}, left : Seq(Messages)]
        /\ reading'.conn \in Conns => reading'.conn = c /\ reading'.left # <<>>
    <3>1. CASE reading' = Idle
      BY <3>1, GossipAssumption DEF Idle
    <3>2. CASE reading' = Taken
      BY <2>1, <3>2, TakenIsAChunk
    <3> QED BY <2>1, <3>1, <3>2
  <2>3. GossipTypes'
    BY <1>0, <1>2, <2>1, <2>2, ZenonT(30) DEF GossipTypes, SocketTypes, ItemTypes, ToldTypes
  <2>4. ReadingIsLive'
    BY <1>2, <2>1, <2>2 DEF ReadingIsLive
  <2>5. ListedAreUp'
    BY <1>2, <2>1 DEF ListedAreUp
  <2> QED BY <2>3, <2>4, <2>5
<1>8. ASSUME NEW c \in Conns, Hello(c) \/ Other(c) \/ Inv(c)
      PROVE  GossipTypes' /\ ReadingIsLive' /\ ListedAreUp'
  <2>1. reading.conn = c /\ reading' = Taken /\ UNCHANGED service
    BY <1>8 DEF Hello, Other, Inv, Reads
  <2>2. /\ reading' \in [conn : Conns \cup {NoConn}, left : Seq(Messages)]
        /\ reading'.conn \in Conns => reading'.conn = c /\ reading'.left # <<>>
        /\ Head(reading.left) \in Messages
    BY <2>1, TakenIsAChunk
  <2>3. conn[c].at \in {"open", "destroyed"}
    BY <2>1 DEF ReadingIsLive
  <2>4. CASE Hello(c)
    <3>1. conn' = [conn EXCEPT ![c].hello = TRUE] /\ list' = list \cup {c} /\ UNCHANGED requested
      BY <2>4 DEF Hello
    <3>2. GossipTypes'
      BY <1>0, <1>2, <2>1, <2>2, <3>1, ZenonT(30) DEF GossipTypes, SocketTypes, ItemTypes, ToldTypes
    <3>3. ReadingIsLive'
      BY <1>2, <2>2, <2>3, <3>1 DEF ReadingIsLive
    <3>4. ListedAreUp'
      BY <1>2, <2>3, <3>1 DEF ListedAreUp
    <3> QED BY <3>2, <3>3, <3>4
  <2>5. CASE Other(c) \/ Inv(c)
    <3>1. UNCHANGED <<conn, list>>
      BY <2>5 DEF Other, Inv
    <3>2. requested' \subseteq Conns \X Items
      <4>1. CASE Other(c)
        BY <4>1 DEF Other, GossipTypes, ItemTypes
      <4>2. CASE Inv(c)
        <5>1. Head(reading.left).type = "INV"
          BY <4>2 DEF Inv, Reads
        <5>2. Head(reading.left).ids \subseteq Items
          BY <5>1, <2>2 DEF Messages
        <5> QED BY <4>2, <5>2 DEF Inv, GossipTypes, ItemTypes
      <4> QED BY <2>5, <4>1, <4>2
    <3>3. GossipTypes'
      BY <1>0, <2>1, <2>2, <3>1, <3>2 DEF GossipTypes, SocketTypes, ItemTypes, ToldTypes
    <3> QED BY <2>2, <2>3, <3>1, <3>3 DEF ReadingIsLive, ListedAreUp
  <2> QED BY <1>8, <2>4, <2>5
<1> QED BY <1>3, <1>4, <1>5, <1>6, <1>7, <1>8

(* The message that brings an item (handleData): an item that was seen before *)
(* changes nothing, another gets its one source.                            *)
LEMMA DataStep ==
    ASSUME GossipIInv, NEW c \in Conns, Data(c)
    PROVE  GossipIInv'
<1> USE DEF GossipIInv
<1>1. /\ reading.conn = c /\ Head(reading.left).type = "DATA" /\ reading' = Taken
      /\ UNCHANGED <<service, conn, list, requested>>
  BY DEF Data, Reads
<1>2. /\ reading' \in [conn : Conns \cup {NoConn}, left : Seq(Messages)]
      /\ reading'.conn \in Conns => reading'.conn = c /\ reading'.left # <<>>
      /\ Head(reading.left) \in Messages
  BY <1>1, TakenIsAChunk
<1>3. PICK i \in Items : i = Head(reading.left).id
  BY <1>1, <1>2 DEF Messages
<1>4. ReadingIsLive' /\ ListedAreUp'
  BY <1>1, <1>2 DEF ReadingIsLive, ListedAreUp
<1>5. CASE i \in saw
  <2>1. UNCHANGED <<saw, awaited, source, held, told, settled>>
    BY <1>3, <1>5 DEF Data, pubVars
  <2>2. GossipTypes'
    BY <1>1, <1>2, <2>1 DEF GossipTypes, SocketTypes, ItemTypes, ToldTypes
  <2> QED BY <1>4, <2>1, <2>2, ItemsUntouched
<1>6. CASE i \notin saw
  <2>1. /\ saw' = saw \cup {i} /\ source' = [source EXCEPT ![i] = Append(@, c)] /\ UNCHANGED held
        /\ \/ awaited' = awaited \cup {<<c, i, "called">>} /\ UNCHANGED <<told, settled>>
           \/ Broadcast(i, "relay", c) /\ settled' = settled \cup {i} /\ UNCHANGED awaited
    BY <1>3, <1>6 DEF Data, Relay, pubVars
  <2>2. source[i] = <<>> /\ \A d \in Conns : told[d][i].relay = 0
    BY <1>3, <1>6 DEF UnseenIsUntouched
  <2>3. /\ source' \in [Items -> Seq(Conns)] /\ source'[i] = <<c>>
        /\ \A j \in Items \ {i} : source'[j] = source[j]
    BY <1>3, <2>1, <2>2 DEF GossipTypes, SocketTypes, ItemTypes, ToldTypes
  <2>4. \A a \in awaited : a[2] # i
    BY <1>6 DEF AwaitedAlone
  <2>5. awaited \subseteq Conns \X Items \X {"called", "done"}
    BY DEF GossipTypes, SocketTypes, ItemTypes, ToldTypes
  <2>6. CASE awaited' = awaited \cup {<<c, i, "called">>} /\ UNCHANGED <<told, settled>>
    <3>0. awaited' \subseteq Conns \X Items \X {"called", "done"}
      BY <2>5, <2>6
    <3>1. GossipTypes'
      BY <1>1, <1>2, <2>1, <2>3, <2>6, <3>0 DEF GossipTypes, SocketTypes, ItemTypes, ToldTypes
    <3>2. UnseenIsUntouched' /\ ToldOnce'
      BY <1>3, <2>1, <2>3, <2>6 DEF UnseenIsUntouched, ToldOnce
    <3>3. SeenHasOneSource'
      BY <1>3, <2>1, <2>2, <2>3, <2>6 DEF SeenHasOneSource, GossipTypes, ItemTypes
    <3>4. AwaitedAlone'
      BY <1>3, <2>1, <2>2, <2>3, <2>4, <2>5, <2>6 DEF AwaitedAlone
    <3> QED BY <1>4, <3>1, <3>2, <3>3, <3>4
  <2>7. CASE Broadcast(i, "relay", c) /\ settled' = settled \cup {i} /\ UNCHANGED awaited
    <3>0. /\ ToldTypes'
          /\ \A d \in Conns, j \in Items : /\ told'[d][j].pool = told[d][j].pool
                                           /\ j # i => told'[d][j] = told[d][j]
          /\ \A d \in Conns : /\ told'[d][i].relay \in {told[d][i].relay, told[d][i].relay + 1}
                              /\ d = c => told'[d][i].relay = told[d][i].relay
      BY <1>3, <2>7, BroadcastByRelay
    <3>1. GossipTypes'
      BY <1>1, <1>2, <1>3, <2>1, <2>3, <2>7, <3>0 DEF GossipTypes, SocketTypes, ItemTypes, ToldTypes
    <3>2. UnseenIsUntouched'
      BY <1>3, <2>1, <2>3, <3>0 DEF UnseenIsUntouched
    <3>3. ToldOnce'
      <4> SUFFICES ASSUME NEW d \in Conns, NEW j \in Items
                   PROVE  /\ told'[d][j].relay <= 1 /\ told'[d][j].pool <= 1
                          /\ j \notin held' => told'[d][j].pool = 0
        BY DEF ToldOnce
      <4>1. CASE j = i
        <5>1. told'[d][i].relay <= 1
          BY <2>2, <3>0
        <5>2. told'[d][i].pool = told[d][i].pool /\ held' = held
          BY <2>1, <3>0
        <5> QED BY <4>1, <5>1, <5>2 DEF ToldOnce
      <4>2. CASE j # i
        BY <2>1, <3>0, <4>2 DEF ToldOnce
      <4> QED BY <4>1, <4>2
    <3>4. SeenHasOneSource'
      <4> SUFFICES ASSUME NEW j \in saw'
                   PROVE  \E d \in Conns : source'[j] = <<d>> /\ told'[d][j].relay = 0
        BY DEF SeenHasOneSource
      <4>1. CASE j = i
        <5>1. source'[i] = <<c>> /\ told'[c][i].relay = 0
          BY <2>2, <2>3, <3>0
        <5> QED BY <4>1, <5>1
      <4>2. CASE j # i
        BY <2>1, <2>3, <3>0, <4>2 DEF SeenHasOneSource, GossipTypes, ItemTypes
      <4> QED BY <4>1, <4>2
    <3>5. AwaitedAlone'
      BY <2>1, <2>3, <2>4, <2>5, <2>7, <3>0 DEF AwaitedAlone
    <3> QED BY <1>4, <3>1, <3>2, <3>3, <3>4, <3>5
  <2> QED BY <2>1, <2>6, <2>7
<1> QED BY <1>5, <1>6

(* A transaction enters the mempool, of a client or in a handler.            *)
LEMMA PoolStep ==
    ASSUME GossipIInv, NEW i \in Items, PutIntoPool(i), UNCHANGED <<saw, source>>
    PROVE  /\ ToldTypes' /\ held' \subseteq Txs
           /\ \A d \in Conns, j \in Items : told'[d][j].relay = told[d][j].relay
           /\ UnseenIsUntouched' /\ SeenHasOneSource' /\ ToldOnce'
<1> USE DEF GossipIInv
<1>1. i \in Txs \ held /\ held' = held \cup {i} /\ Broadcast(i, "pool", NoConn)
  BY DEF PutIntoPool
<1>2. /\ ToldTypes'
      /\ \A c \in Conns, j \in Items : /\ told'[c][j].relay = told[c][j].relay
                                       /\ j # i => told'[c][j] = told[c][j]
      /\ \A c \in Conns : told'[c][i].pool \in {told[c][i].pool, told[c][i].pool + 1}
  BY <1>1, BroadcastByPool
<1>3. held' \subseteq Txs
  BY <1>1 DEF GossipTypes, SocketTypes, ItemTypes, ToldTypes
<1>4. UnseenIsUntouched' /\ SeenHasOneSource'
  <2>1. saw \subseteq Items
    BY DEF GossipTypes, ItemTypes
  <2>2. UnseenIsUntouched'
    BY <1>2 DEF UnseenIsUntouched
  <2>3. SeenHasOneSource'
    BY <1>2, <2>1 DEF SeenHasOneSource
  <2> QED BY <2>2, <2>3
<1>5. ToldOnce'
  <2> SUFFICES ASSUME NEW d \in Conns, NEW j \in Items
               PROVE  /\ told'[d][j].relay <= 1 /\ told'[d][j].pool <= 1
                      /\ j \notin held' => told'[d][j].pool = 0
    BY DEF ToldOnce
  <2>1. CASE j = i
    <3>1. told'[d][i].pool \in {0, 0 + 1} /\ told'[d][i].relay = told[d][i].relay
      BY <1>1, <1>2 DEF ToldOnce
    <3>2. i \in held' /\ told[d][i].relay <= 1
      BY <1>1 DEF ToldOnce
    <3> QED BY <2>1, <3>1, <3>2
  <2>2. CASE j # i
    <3>1. told'[d][j] = told[d][j] /\ (j \in held' <=> j \in held)
      BY <1>1, <1>2, <2>2
    <3> QED BY <3>1 DEF ToldOnce
  <2> QED BY <2>1, <2>2
<1> QED BY <1>2, <1>3, <1>4, <1>5
(* A client submits, and a handler runs or throws.                           *)
LEMMA SubmitSteps ==
    ASSUME GossipIInv, NEW i \in Items,
           SubmitLocally(i) \/ \E c \in Conns : HandlerRuns(c, i) \/ HandlerThrows(c, i)
    PROVE  GossipIInv'
<1> USE DEF GossipIInv
<1>1. /\ UNCHANGED <<conn, list, reading, saw, requested, source, settled>>
      /\ PutIntoPool(i) \/ UNCHANGED <<held, told>>
  BY DEF SubmitLocally, HandlerRuns, HandlerThrows, pubVars
<1>2. ReadingIsLive' /\ ListedAreUp'
  BY <1>1, ConnsUntouched
<1>3. /\ ToldTypes' /\ held' \subseteq Txs
      /\ \A d \in Conns, j \in Items : told'[d][j].relay = told[d][j].relay
      /\ UnseenIsUntouched' /\ SeenHasOneSource' /\ ToldOnce'
  <2>1. CASE PutIntoPool(i)
    BY <1>1, <2>1, PoolStep
  <2>2. CASE UNCHANGED <<held, told>>
    BY <1>1, <2>2 DEF GossipTypes, ItemTypes, ToldTypes, UnseenIsUntouched, SeenHasOneSource, ToldOnce
  <2> QED BY <1>1, <2>1, <2>2
<1>4. /\ service' \in [at : {"up", "closing", "stopped", "crashed"}, spared : SUBSET Conns]
      /\ \/ UNCHANGED awaited
         \/ \E c \in Conns : /\ <<c, i, "called">> \in awaited
                             /\ awaited' = (awaited \ {<<c, i, "called">>}) \cup {<<c, i, "done">>}
  BY DEF SubmitLocally, HandlerRuns, HandlerThrows, GossipTypes, SocketTypes
<1>5. awaited \subseteq Conns \X Items \X {"called", "done"} /\ saw \subseteq Items
  BY DEF GossipTypes, ItemTypes
<1>6. awaited' \subseteq Conns \X Items \X {"called", "done"}
  <2>1. \A c \in Conns : <<c, i, "done">> \in Conns \X Items \X {"called", "done"}
    OBVIOUS
  <2> QED BY <1>4, <1>5, <2>1
<1>7. GossipTypes'
  BY <1>1, <1>3, <1>4, <1>6 DEF GossipTypes, SocketTypes, ItemTypes
<1>8. AwaitedAlone'
  <2>1. CASE UNCHANGED awaited
    BY <1>1, <1>3, <1>5, <2>1 DEF AwaitedAlone
  <2>2. ASSUME NEW c \in Conns, <<c, i, "called">> \in awaited,
               awaited' = (awaited \ {<<c, i, "called">>}) \cup {<<c, i, "done">>}
        PROVE  AwaitedAlone'
    <3>1. /\ i \in saw /\ source[i] = <<c>>
          /\ \A a \in awaited : a[2] = i => a = <<c, i, "called">>
      BY <2>2 DEF AwaitedAlone
    <3>2. \A a \in awaited' : a[2] = i => a = <<c, i, "done">>
      BY <2>2, <3>1
    <3>3. \A a \in awaited' : a[2] # i => a \in awaited
      BY <2>2
    <3>4. \A d \in Conns : told'[d][i].relay = 0
      BY <1>3, <2>2 DEF AwaitedAlone
    <3> SUFFICES ASSUME NEW a \in awaited'
                 PROVE  /\ a[2] \in saw' /\ source'[a[2]] = <<a[1]>>
                        /\ \A d \in Conns : told'[d][a[2]].relay = 0
                        /\ \A b \in awaited' : b[2] = a[2] => b = a
      BY DEF AwaitedAlone
    <3>5. CASE a[2] = i
      <4>1. a = <<c, i, "done">>
        BY <3>2, <3>5
      <4> QED BY <1>1, <3>1, <3>2, <3>4, <4>1
    <3>6. CASE a[2] # i
      <4>1. a \in awaited /\ a[2] \in Items
        BY <1>5, <3>3, <3>6
      <4>2. \A b \in awaited' : b[2] = a[2] => b = a
        BY <3>3, <3>6, <4>1 DEF AwaitedAlone
      <4>3. /\ a[2] \in saw /\ source[a[2]] = <<a[1]>>
            /\ \A d \in Conns : told[d][a[2]].relay = 0
        BY <4>1 DEF AwaitedAlone
      <4> QED BY <1>1, <1>3, <4>1, <4>2, <4>3
    <3> QED BY <3>5, <3>6
  <2> QED BY <1>4, <2>1, <2>2
<1> QED BY <1>2, <1>3, <1>7, <1>8

(* A handler returns and its item is relayed: the entry that goes is the only *)
(* one of the item.                                                         *)
LEMMA ReturnStep ==
    ASSUME GossipIInv, NEW c \in Conns, NEW i \in Items, HandlerReturns(c, i)
    PROVE  GossipIInv'
<1> USE DEF GossipIInv
<1>1. /\ UNCHANGED <<service, conn, list, reading, saw, requested, source, held>>
      /\ <<c, i, "done">> \in awaited /\ awaited' = awaited \ {<<c, i, "done">>}
      /\ Broadcast(i, "relay", c) /\ settled' = settled \cup {i}
  BY DEF HandlerReturns, Relay
<1>2. ReadingIsLive' /\ ListedAreUp'
  BY <1>1, ConnsUntouched
<1>3. /\ ToldTypes'
      /\ \A d \in Conns, j \in Items : /\ told'[d][j].pool = told[d][j].pool
                                       /\ j # i => told'[d][j] = told[d][j]
      /\ \A d \in Conns : /\ told'[d][i].relay \in {told[d][i].relay, told[d][i].relay + 1}
                          /\ d = c => told'[d][i].relay = told[d][i].relay
  BY <1>1, BroadcastByRelay
<1>4. GossipTypes'
  BY <1>1, <1>3 DEF GossipTypes, SocketTypes, ItemTypes
<1>5. /\ i \in saw /\ source[i] = <<c>> /\ \A d \in Conns : told[d][i].relay = 0
      /\ \A a \in awaited : a[2] = i => a = <<c, i, "done">>
  BY <1>1 DEF AwaitedAlone
<1>6. UnseenIsUntouched'
  BY <1>1, <1>3, <1>5 DEF UnseenIsUntouched
<1>7. ToldOnce'
  <2> SUFFICES ASSUME NEW d \in Conns, NEW j \in Items
               PROVE  /\ told'[d][j].relay <= 1 /\ told'[d][j].pool <= 1
                      /\ j \notin held' => told'[d][j].pool = 0
    BY DEF ToldOnce
  <2>1. CASE j = i
    <3>1. told'[d][i].relay <= 1
      BY <1>3, <1>5
    <3>2. told'[d][i].pool = told[d][i].pool /\ held' = held
      BY <1>1, <1>3
    <3> QED BY <2>1, <3>1, <3>2 DEF ToldOnce
  <2>2. CASE j # i
    BY <1>1, <1>3, <2>2 DEF ToldOnce
  <2> QED BY <2>1, <2>2
<1>8. SeenHasOneSource'
  <2> SUFFICES ASSUME NEW j \in saw'
               PROVE  \E d \in Conns : source'[j] = <<d>> /\ told'[d][j].relay = 0
    BY DEF SeenHasOneSource
  <2>1. CASE j = i
    <3>1. source'[i] = <<c>> /\ told'[c][i].relay = 0
      BY <1>1, <1>3, <1>5
    <3> QED BY <2>1, <3>1
  <2>2. CASE j # i
    <3>1. j \in saw /\ j \in Items
      BY <1>1 DEF GossipTypes, ItemTypes
    <3> QED BY <1>1, <1>3, <2>2, <3>1 DEF SeenHasOneSource
  <2> QED BY <2>1, <2>2
<1>9. AwaitedAlone'
  <2>1. \A a \in awaited' : a \in awaited /\ a[2] # i /\ a[2] \in Items
    BY <1>1, <1>5 DEF GossipTypes, ItemTypes
  <2>2. \A a \in awaited, d \in Conns : a[2] # i /\ a[2] \in Items => told'[d][a[2]] = told[d][a[2]]
    BY <1>3
  <2> QED BY <1>1, <2>1, <2>2 DEF AwaitedAlone
<1> QED BY <1>2, <1>3, <1>4, <1>6, <1>7, <1>8, <1>9

(* Every step keeps the invariant.                                           *)
LEMMA GossipStep == GossipIInv /\ [GossipNext]_gossipVars => GossipIInv'
<1> SUFFICES ASSUME GossipIInv, [GossipNext]_gossipVars PROVE GossipIInv'
  OBVIOUS
<1>1. CASE \/ StopService \/ ServerClosed
           \/ \E c \in Conns : \/ Accept(c) \/ Close(c) \/ Receive(c)
                               \/ Refuse(c) \/ Hello(c) \/ Early(c) \/ Other(c) \/ Inv(c)
  BY <1>1, ConnectionSteps
<1>2. ASSUME NEW c \in Conns, Data(c) PROVE GossipIInv'
  BY <1>2, DataStep
<1>3. ASSUME NEW i \in Items, SubmitLocally(i) \/ \E c \in Conns : HandlerRuns(c, i) \/ HandlerThrows(c, i)
      PROVE  GossipIInv'
  BY <1>3, SubmitSteps
<1>4. ASSUME NEW i \in Items, NEW c \in Conns, HandlerReturns(c, i) PROVE GossipIInv'
  BY <1>4, ReturnStep
<1>5. CASE UNCHANGED gossipVars
  BY <1>5 DEF GossipIInv, GossipTypes, SocketTypes, ItemTypes, ToldTypes, ReadingIsLive, ListedAreUp, UnseenIsUntouched,
     SeenHasOneSource, AwaitedAlone, ToldOnce, gossipVars, pubVars
<1> QED BY <1>1, <1>2, <1>3, <1>4, <1>5 DEF GossipNext, Handle, Handler

(* The invariant is what GossipOnce states, and more.                        *)
LEMMA GossipImplies == GossipIInv => GossipOnce
<1> SUFFICES ASSUME GossipIInv PROVE GossipOnce
  OBVIOUS
<1> USE DEF GossipIInv
<1>1. GossipTypeOK
  <2>1. \A k \in DOMAIN reading.left : reading.left[k] \in Messages
    BY DEF GossipTypes, ItemTypes
  <2>2. \A c \in Conns, i \in Items : {told[c][i].relay, told[c][i].pool} \subseteq Nat
    BY DEF GossipTypes, ToldTypes
  <2>3. reading.conn \in Conns \cup {NoConn}
    BY DEF GossipTypes, ItemTypes
  <2> QED BY <2>1, <2>2, <2>3 DEF GossipTypeOK, GossipTypes, SocketTypes, ItemTypes
<1>2. ASSUME NEW i \in Items
      PROVE  /\ Len(source[i]) = IF i \in saw THEN 1 ELSE 0
             /\ \A k \in DOMAIN source[i] : told[source[i][k]][i].relay = 0
  <2>1. CASE i \in saw
    <3>1. PICK d \in Conns : source[i] = <<d>> /\ told[d][i].relay = 0
      BY <2>1 DEF SeenHasOneSource
    <3> QED BY <2>1, <3>1
  <2>2. CASE i \notin saw
    <3>1. source[i] = <<>>
      BY <2>2 DEF UnseenIsUntouched
    <3> QED BY <2>2, <3>1
  <2> QED BY <2>1, <2>2
<1> QED BY <1>1, <1>2 DEF GossipOnce, ToldOnce, ListedAreUp

(* Every item is taken once and announced at most once to each peer in either *)
(* way, never back to its source, and who is listed has greeted and is not   *)
(* closed, for every number of connections and messages.                    *)
THEOREM GossipSuppressesDuplicates == GossipSpec => []GossipOnce
<1>1. GossipInit => GossipIInv
  BY GossipStarts
<1>2. GossipIInv /\ [GossipNext]_gossipVars => GossipIInv'
  BY GossipStep
<1>3. GossipIInv => GossipOnce
  BY GossipImplies
<1> QED BY <1>1, <1>2, <1>3, PTL DEF GossipSpec
===============================================================================
