------------------------------ MODULE FastPath ------------------------------
(***************************************************************************)
(* What the node remembers of a transaction beside the mempool: the ring   *)
(* of recently committed transactions (RecentTxRing), the confirmation     *)
(* tracker (ConfirmationTracker) and the preflight check that asks the     *)
(* pending index and the ring (PreflightService).  They listen to the node *)
(* of Mempool: a submission, a block and a reorg are told to them before   *)
(* anything else happens, of a reorg first the orphaned blocks and then    *)
(* the new ones.  The hash of a block stands for the chain up to it.       *)
(***************************************************************************)
EXTENDS Mempool

CONSTANTS
    RingSize,       \* HotWindowConfig.size
    QueueDepth,     \* perSenderDepth and perStateDepth
    QueryLimit,     \* the limit of getByStates in PreflightService.check
    KDepth,         \* getKDepth(tx.trustScore)
    RequiredTier    \* tx.requiredTier

ASSUME FastPathAssumption ==
    /\ {RingSize, QueueDepth, QueryLimit} \subseteq Nat \ {0}
    /\ KDepth \in [Txs -> Nat] /\ RequiredTier \in [Txs -> 0..4]

VARIABLES
    ring,           \* RecentTxRing
    tracker,        \* ConfirmationTracker: tracked and byBlock
    again           \* transactions pushed while the ring still had them

fast == <<ring, tracker, again>>

-----------------------------------------------------------------------------
(* The ring.  Its slots are written in turn, and its queues hold slots.    *)

RingSlots == 0..RingSize - 1
Free == [height |-> 0]      \* null
Used(r) == {i \in RingSlots : r.entries[i] # Free}
RingTxs(r) == {r.entries[i].tx : i \in Used(r)}

NoRing == [entries |-> [i \in RingSlots |-> Free], head |-> 0, count |-> 0,
           byTxId |-> [t \in {} |-> 0],
           bySender |-> [s \in Senders |-> <<>>], byStateId |-> [s \in States |-> <<>>]]

Without(q, i) == Filtered(q, ToSet(q) \ {i})
Pushed(q, i) == Append(IF Len(q) >= QueueDepth THEN Tail(q) ELSE q, i)

\* (bug) the slot stays in the queues of the states
RemoveFromIndexesBug(r, i) ==
    LET t == r.entries[i].tx IN
    [r EXCEPT !.byTxId = Drop(@, {t}), !.bySender[Sender[t]] = Without(@, i)]

\* removeFromIndexes.  byTxId forgets the transaction wherever it points.
RemoveFromIndexes(r, i) ==
    LET t == r.entries[i].tx IN
    [r EXCEPT !.byTxId = Drop(@, {t}),
              !.bySender[Sender[t]] = Without(@, i),
              !.byStateId = [s \in States |-> IF s \in Touches[t] THEN Without(@[s], i) ELSE @[s]]]

Push(r, t, height) ==
    LET i == (r.head + r.count) % RingSize
        cleared == IF r.entries[i] = Free THEN r ELSE RemoveFromIndexes(r, i)
        full == r.count = RingSize
    IN  [entries |-> [cleared.entries EXCEPT ![i] = [tx |-> t, height |-> height]],
         head |-> IF full THEN (r.head + 1) % RingSize ELSE r.head,
         count |-> IF full THEN r.count ELSE r.count + 1,
         byTxId |-> [u \in DOMAIN cleared.byTxId \cup {t} |-> IF u = t THEN i ELSE cleared.byTxId[u]],
         bySender |-> [cleared.bySender EXCEPT ![Sender[t]] = Pushed(@, i)],
         byStateId |-> [s \in States |-> IF s \in Touches[t] THEN Pushed(cleared.byStateId[s], i)
                                         ELSE cleared.byStateId[s]]]

\* getByStates with a limit: the first it comes to, each transaction once.
Found(txs, i) ==
    IF ring.entries[i].tx \in ToSet(txs) \/ Len(txs) >= QueryLimit THEN txs
    ELSE Append(txs, ring.entries[i].tx)
FoundUnder(txs, s) == FoldLeft(Found, txs, ring.byStateId[s])
GetByStates(touched) == FoldLeft(FoundUnder, <<>>, touched)

\* PreflightService.check: no conflict in the index, nor a committed nonce of the
\* sender that is not below t's.
PreflightOK(t) ==
    /\ Check(pendingIndex, t)
    /\ \A u \in ToSet(GetByStates(SetToSeq(Touches[t]))) :
          Sender[u] = Sender[t] => Nonce[u] < Nonce[t]

-----------------------------------------------------------------------------
(* The tracker.                                                            *)

Untracked == -1
PREFLIGHT == 0
ADMITTED == 1
INCLUDED == 2
K_DEPTH == 3

NoTracker == [tier |-> [t \in Txs |-> Untracked], block |-> [t \in Txs |-> <<>>],
              byBlock |-> [h \in {} |-> {}]]

MarkAdmitted(tk, t) ==
    IF tk.tier[t] = Untracked THEN tk ELSE [tk EXCEPT !.tier[t] = ADMITTED]

\* (bug) only the first transaction of a block is kept for a reorg
MarkIncludedBug(tk, t, hash) ==
    IF tk.tier[t] = Untracked THEN tk
    ELSE [tier |-> [tk.tier EXCEPT ![t] = INCLUDED], block |-> [tk.block EXCEPT ![t] = hash],
          byBlock |-> [h \in DOMAIN tk.byBlock \cup {hash} |->
                         IF h \notin DOMAIN tk.byBlock THEN {t} ELSE tk.byBlock[h]]]

MarkIncluded(tk, t, hash) ==
    IF tk.tier[t] = Untracked THEN tk
    ELSE [tier |-> [tk.tier EXCEPT ![t] = INCLUDED], block |-> [tk.block EXCEPT ![t] = hash],
          byBlock |-> [h \in DOMAIN tk.byBlock \cup {hash} |->
                         (IF h \in DOMAIN tk.byBlock THEN tk.byBlock[h] ELSE {})
                         \cup (IF h = hash THEN {t} ELSE {})]]

DepthAt(tk, t, height) == height - Len(tk.block[t])

UpdateDepth(tk, height) ==
    [tk EXCEPT !.tier = [t \in Txs |-> IF @[t] = INCLUDED /\ DepthAt(tk, t, height) >= KDepth[t]
                                       THEN K_DEPTH ELSE @[t]]]

HandleReorg(tk, orphaned) ==
    LET hit == {t \in UNION {tk.byBlock[h] : h \in orphaned \cap DOMAIN tk.byBlock} :
                  tk.tier[t] # Untracked}
    IN  [tier |-> [t \in Txs |-> IF t \in hit THEN ADMITTED ELSE tk.tier[t]],
         block |-> [t \in Txs |-> IF t \in hit THEN <<>> ELSE tk.block[t]],
         byBlock |-> Drop(tk.byBlock, orphaned)]

\* trackPreflight, of a transaction whose preflight found no conflict.
TrackPreflight(t) ==
    /\ "tracker" \in node.with /\ tracker.tier[t] = Untracked /\ PreflightOK(t)
    /\ tracker' = [tracker EXCEPT !.tier[t] = PREFLIGHT, !.block[t] = <<>>]
    /\ UNCHANGED <<poolVars, ring, again>>

\* remove, as cleanup calls it of a transaction that reached its tier.
Cleanup(t) ==
    LET hash == tracker.block[t]
        left == IF hash \in DOMAIN tracker.byBlock THEN tracker.byBlock[hash] \ {t} ELSE {}
    IN  /\ tracker.tier[t] # Untracked /\ tracker.tier[t] >= RequiredTier[t]
        /\ tracker' = [tier |-> [tracker.tier EXCEPT ![t] = Untracked],
                       block |-> [tracker.block EXCEPT ![t] = <<>>],
                       byBlock |-> IF left = {} THEN Drop(tracker.byBlock, {hash})
                                   ELSE [tracker.byBlock EXCEPT ![hash] = left]]
        /\ UNCHANGED <<poolVars, ring, again>>

-----------------------------------------------------------------------------
(* The node tells them.                                                    *)

Common(c, d) == Top({n \in 0..Len(c) : n <= Len(d) /\ SubSeq(c, 1, n) = SubSeq(d, 1, n)})
Hashes(c, n) == {SubSeq(c, 1, i) : i \in n + 1..Len(c)}

MarkAll(tk, hash) == FoldLeft(LAMBDA k, t : MarkIncluded(k, t, hash), tk, Last(hash))
Told(tk, hash) == UpdateDepth(MarkAll(tk, hash), Len(hash))

\* A block enters the ring.  `again` notes what the ring has when it is pushed.
Entered(w, t, height) ==
    LET r == Push(w.ring, t, height)
    IN  [ring |-> r, again |-> {u \in RingTxs(r) : u \in w.again \/ (u = t /\ t \in RingTxs(w.ring))}]
BlockEntered(w, hash) == FoldLeft(LAMBDA v, t : Entered(v, t, Len(hash)), w, Last(hash))

\* What the node's step tells them: the transactions admitted, or the blocks the
\* old chain and the new one hold above their fork.
Follow ==
    \E fork \in {Common(chain, chain')}, new \in {chain'} :
        LET hashes == [i \in 1..Len(new) - fork |-> SubSeq(new, 1, fork + i)]
            entered == FoldLeft(BlockEntered, [ring |-> ring, again |-> again], hashes)
        IN  /\ tracker' = IF "tracker" \notin node.with THEN tracker
                          ELSE IF new = chain
                          THEN FoldLeft(MarkAdmitted, tracker, SetToSeq(pool' \ pool))
                          ELSE FoldLeft(Told, HandleReorg(tracker, Hashes(chain, fork)), hashes)
            /\ ring' = IF "ring" \in node.with THEN entered.ring ELSE ring
            /\ again' = IF "ring" \in node.with THEN entered.again ELSE again

FastInit == PoolInit /\ ring = NoRing /\ tracker = NoTracker /\ again = {}
FastNext ==
    \/ PoolNext /\ Follow
    \/ \E t \in Txs : TrackPreflight(t) \/ Cleanup(t)
FastSpec == FastInit /\ [][FastNext]_<<poolVars, fast>>

-----------------------------------------------------------------------------
(* Properties.                                                             *)

\* How many slots of r are older than i; the slots that hold transactions of S.
Age(r, i) == IF i >= r.head THEN i - r.head ELSE i + RingSize - r.head
Holding(r, S) == {i \in Used(r) : r.entries[i].tx \in S}
SentBy(s) == {t \in Txs : Sender[t] = s}
ThatTouch(S) == {t \in Txs : Touches[t] \cap S # {}}

\* q lists, from old to new, the newest slots of S.
ListsNewest(r, q, S) ==
    /\ ToSet(q) \subseteq S /\ Len(q) <= QueueDepth
    /\ \A j, k \in DOMAIN q : j < k => Age(r, q[j]) < Age(r, q[k])
    /\ \A i \in S \ ToSet(q) : Len(q) = QueueDepth /\ \A j \in ToSet(q) : Age(r, i) < Age(r, j)

\* The ring forgets a transaction in all its indexes at once and nothing else: a
\* queue holds the newest slots of its sender or state, an id leads to its own
\* entry, and to every one that was pushed once (RecentTxRing.push).
Indexed(r, twice) ==
    /\ Used(r) = {i \in RingSlots : Age(r, i) < r.count}
    /\ \A t \in DOMAIN r.byTxId : r.byTxId[t] \in Holding(r, {t})
    /\ \A i \in Used(r) : LET t == r.entries[i].tx IN
          t \notin twice => t \in DOMAIN r.byTxId /\ r.byTxId[t] = i
    /\ \A s \in Senders : ListsNewest(r, r.bySender[s], Holding(r, SentBy(s)))
    /\ \A s \in States : ListsNewest(r, r.byStateId[s], Holding(r, ThatTouch({s})))
RingIsIndexed == Indexed(ring, again)

\* What the node remembers in several places it remembers alike, through blocks
\* and reorgs: the mempool, the pending index and the ring.
NodeIndexesAgree == IndexesAgree /\ RingIsIndexed

\* Neither the index nor the ring lets a preflight overlook what it knows: a
\* conflict with a pending transaction, a nonce the chain has, or a committed
\* transaction of the same sender over the same states, unless so many touched the
\* states that a queue or the limit of the query is passed (PreflightService.check).
Touching(S) == Holding(ring, ThatTouch(S))
RecentIsSeen ==
    \A t \in node.txs, i \in Used(ring) : LET u == ring.entries[i].tx IN
        /\ Sender[u] = Sender[t] /\ Nonce[u] >= Nonce[t]
        /\ Cardinality(Touching(Touches[t])) <= QueryLimit
        /\ \E s \in Touches[t] \cap Touches[u] : Cardinality(Touching({s})) <= QueueDepth
        => ~PreflightOK(t)
PreflightForesees == ConflictsAreSeen /\ NextNonceIsNew /\ RecentIsSeen

\* A tier from INCLUDED on is only told of a transaction in a block of the chain,
\* and not below K_DEPTH once the block is as deep as it must be ...
OnChain(hash, c) == hash # <<>> /\ IsPrefix(hash, c)
TiersAreEarned ==
    \A t \in Txs : tracker.tier[t] >= INCLUDED =>
        /\ OnChain(tracker.block[t], chain) /\ t \in TxsOf(Last(tracker.block[t]))
        /\ tracker.tier[t] = INCLUDED => DepthAt(tracker, t, Len(chain)) < KDepth[t]

\* ... a tracked transaction gets one when a block holds it, and a tier is taken
\* back by a reorg that drops its block or by admitting it again, by nothing else
\* (markIncluded, updateDepth, handleReorg).
TiersAreKept ==
    \A t \in Txs : tracker.tier[t] # Untracked /\ tracker'.tier[t] # Untracked =>
        /\ t \in ChainTxs(chain') \ ChainTxs(chain) => tracker'.tier[t] >= INCLUDED
        /\ tracker'.tier[t] < tracker.tier[t] => ~OnChain(tracker.block[t], chain') \/ t \in pool' \ pool

\* Transactions enter and leave the mempool, and tiers are given and taken back, as
\* the blocks and reorgs say (MempoolReconciler, ConfirmationTracker).
NodeFollowsChain ==
    [][ReorgKeepsTransactions /\ LeavesForAReason /\ TiersAreEarned' /\ TiersAreKept]_<<poolVars, fast>>
=============================================================================
