------------------------------ MODULE Mempool ------------------------------
(***************************************************************************)
(* The mempool, its pending index and the reconciler that keeps both in    *)
(* step with the chain: MempoolStore, PendingIndex and MempoolReconciler.  *)
(*                                                                         *)
(* All three are synchronous, so a call is one action.  A transaction is a *)
(* constant with its sender, its nonce, the states it touches and those it *)
(* expects at given versions, which need not be among the touched ones;    *)
(* several transactions may have the same sender and nonce.  A             *)
(* block is a sequence of transactions, and the chain only ever holds the  *)
(* nonces of a sender in order.  The version a block leaves in a state is  *)
(* the transaction that wrote it.                                          *)
(***************************************************************************)
EXTENDS Integers, FiniteSets, Sequences, SequencesExt, Filters

CONSTANTS
    Txs, Senders, States,
    Sender,         \* tx.from
    Nonce,          \* tx.nonce
    Touches,        \* tx.states: the states it reads and writes
    Expects,        \* tx.expected: some states -> version
    NoVersion,      \* '', for a touched state it expects no version of
    Lock,           \* transactions with lockWrites
    Initial,        \* the version of a state no block has written
    MaxPool,        \* policy.maxPoolSize
    MaxReorgDepth,  \* ReconcilerConfig.maxReorgDepth
    MaxOrphans,     \* maxReorgDepth * 100
    MaxBlockTxs,    \* bound: transactions in a block
    Nodes           \* the nodes that are looked at, one at a time: the transactions
                    \* that come (txs), policy.maxTxPerSender (perSender),
                    \* PendingIndexConfig.perStateMax (perState), who uses the node
                    \* and who listens to it (with), and a bound on the length of
                    \* its chain (blocks)

\* Who may use a node: clients that submit, somebody who stores orphans, somebody
\* who calls fullSync between blocks; and the listeners of FastPath and Indexer.
Users == {"clients", "orphans", "sync", "ring", "tracker", "indexer", "logs"}

ASSUME TxAssumption ==
    /\ Sender \in [Txs -> Senders]
    /\ Nonce \in [Txs -> Nat]
    /\ \A t \in Txs : Touches[t] \subseteq States /\ IsFiniteSet(Touches[t]) /\ DOMAIN Expects[t] \subseteq States
    /\ Lock \subseteq Txs
ASSUME LimitAssumption ==
    /\ {MaxPool, MaxReorgDepth, MaxOrphans} \subseteq Nat \ {0}
    /\ MaxBlockTxs \in Nat
    /\ Nodes \subseteq [txs : SUBSET Txs, perSender : Nat \ {0}, perState : Nat \ {0},
                    with : SUBSET Users, blocks : Nat]

VARIABLES
    node,       \* the node's transactions and configuration; never changes
    chain,      \* the blocks on the best chain
    pool,       \* MempoolStore.txs
    bySender,   \* MempoolStore.txsBySender
    pendingIndex,   \* the pending index
    orphans     \* MempoolReconciler.orphanedTxs, oldest first

poolVars == <<node, chain, pool, bySender, pendingIndex, orphans>>

Slots == Senders \X {Nonce[t] : t \in Txs}
Slot(t) == <<Sender[t], Nonce[t]>>
Drop(f, S) == [x \in DOMAIN f \ S |-> f[x]]
Top(S) == CHOOSE n \in S : \A m \in S : m <= n

NoIndex == [pending |-> {}, next |-> [s \in Senders |-> 0], slot |-> [x \in {} |-> 0],
            byState |-> [s \in States |-> <<>>]]

PoolInit ==
    /\ node \in Nodes
    /\ chain = <<>>
    /\ pool = {}
    /\ bySender = [s \in Senders |-> {}]
    /\ pendingIndex = NoIndex
    /\ orphans = <<>>

-----------------------------------------------------------------------------
(* The pending index.                                                      *)

InFlight(ix, s) == {x \in DOMAIN ix.slot : x[1] = s}

\* setBaseNonce: the number of transactions in flight is added.
SetBaseNonce(ix, s, n) ==
    [ix EXCEPT !.next[s] = n + Cardinality(InFlight(ix, s))]

AppendEntry(q, t) == Append(IF Len(q) >= node.perState THEN Tail(q) ELSE q, t)

\* (bug) the states of a transaction that writes without a lock are not tracked
OnAdmitBug(ix, t) ==
    IF t \in ix.pending THEN ix
    ELSE [pending |-> ix.pending \cup {t},
          slot |-> [x \in DOMAIN ix.slot \cup {Slot(t)} |-> IF x = Slot(t) THEN t ELSE ix.slot[x]],
          next |-> [ix.next EXCEPT ![Sender[t]] = IF Nonce[t] >= @ THEN Nonce[t] + 1 ELSE @],
          byState |-> [s \in States |->
              IF s \in Touches[t] /\ t \in Lock THEN AppendEntry(ix.byState[s], t)
              ELSE ix.byState[s]]]

\* onAdmit.  A transaction with the sender and nonce of another takes its slot.
OnAdmit(ix, t) ==
    IF t \in ix.pending THEN ix
    ELSE [pending |-> ix.pending \cup {t},
          slot |-> [x \in DOMAIN ix.slot \cup {Slot(t)} |-> IF x = Slot(t) THEN t ELSE ix.slot[x]],
          next |-> [ix.next EXCEPT ![Sender[t]] = IF Nonce[t] >= @ THEN Nonce[t] + 1 ELSE @],
          byState |-> [s \in States |->
              IF s \in Touches[t] THEN AppendEntry(ix.byState[s], t) ELSE ix.byState[s]]]

\* (bug) the entries under the states stay
OnRemoveBug(ix, t) ==
    [ix EXCEPT !.pending = @ \ {t}, !.slot = Drop(@, {Slot(t)})]

\* onRemove.  The slot goes whoever holds it.
OnRemove(ix, t) ==
    [ix EXCEPT !.pending = @ \ {t},
               !.slot = Drop(@, {Slot(t)}),
               !.byState = [s \in States |-> Filtered(@[s], ToSet(@[s]) \ {t})]]

\* (bug) the committed nonce is offered again
OnCommitBug(ix, s, n) ==
    LET held == <<s, n>> \in DOMAIN ix.slot
        left == IF held THEN OnRemove(ix, ix.slot[<<s, n>>]) ELSE ix
    IN  [left EXCEPT !.next[s] = n + Cardinality(InFlight(left, s))]

\* onCommit without a transaction id, as the reconciler calls it.
OnCommit(ix, s, n) ==
    LET held == <<s, n>> \in DOMAIN ix.slot
        left == IF held THEN OnRemove(ix, ix.slot[<<s, n>>]) ELSE ix
    IN  SetBaseNonce(left, s, n + 1)

\* The version an entry names: that of tx.expected, or none.
Version(t, s) == IF s \in DOMAIN Expects[t] THEN Expects[t][s] ELSE NoVersion

\* check, with strictNonce: nothing pending stands in t's way.
Check(ix, t) ==
    /\ Nonce[t] = ix.next[Sender[t]]
    /\ Slot(t) \notin DOMAIN ix.slot
    /\ \A s \in DOMAIN Expects[t] : \A k \in 1..Len(ix.byState[s]) :
          Version(ix.byState[s][k], s) # Expects[t][s]

-----------------------------------------------------------------------------
(* The store.                                                              *)

AddOK(p, by, t) ==
    /\ t \notin p
    /\ Cardinality(p) < MaxPool
    /\ Cardinality(by[Sender[t]]) < node.perSender

WithoutBySender(by, T) == [s \in Senders |-> by[s] \ T]

\* MempoolService.submit without a validator: store.add, and the caller tells
\* the pending index.
Submit(t) ==
    /\ "clients" \in node.with
    /\ AddOK(pool, bySender, t)
    /\ pool' = pool \cup {t}
    /\ bySender' = [bySender EXCEPT ![Sender[t]] = @ \cup {t}]
    /\ pendingIndex' = OnAdmit(pendingIndex, t)
    /\ UNCHANGED <<chain, orphans>>

-----------------------------------------------------------------------------
(* The chain, and the reconciler.                                          *)

TxsOf(b) == ToSet(b)
ChainTxs(c) == UNION {TxsOf(c[i]) : i \in DOMAIN c}
NextOnChain(c, s) == Cardinality({t \in ChainTxs(c) : Sender[t] = s})

\* The blocks that extend the chain c: of every sender the next nonces in order.
BlocksAfter(c) ==
    LET Fits(b) == \A i \in DOMAIN b :
            Nonce[b[i]] = NextOnChain(c, Sender[b[i]])
                          + Cardinality({j \in 1..(i-1) : Sender[b[j]] = Sender[b[i]]})
    IN  {b \in UNION {[1..n -> node.txs] : n \in 0..MaxBlockTxs} : Fits(b)}

\* BlockCommitInfo.senderNonces: the last nonce of each sender in the block.
BlockSenders(b) == {Sender[t] : t \in TxsOf(b)}
SenderNonce(b, s) == Top({Nonce[t] : t \in {u \in TxsOf(b) : Sender[u] = s}})

\* BlockCommitInfo.stateChanges
Writer(b, s) == b[Top({i \in DOMAIN b : s \in Touches[b[i]]})]
Changed(b) == UNION {Touches[t] : t \in TxsOf(b)}

\* Transactions that expect a version the block replaced by another.
Invalidated(p, b) ==
    {t \in p : \E s \in DOMAIN Expects[t] \cap Changed(b) : Expects[t][s] # Writer(b, s)}

\* The last nonce of each sender of the block, one sender after the other.
BaseNonce(ix, b, s) == SetBaseNonce(ix, s, SenderNonce(b, s) + 1)
BaseNonces(ix, b) == FoldLeft(LAMBDA i, s : BaseNonce(i, b, s), ix, SetToSeq(BlockSenders(b)))
CommitNonce(ix, b, s) == OnCommit(BaseNonce(ix, b, s), s, SenderNonce(b, s))
CommitAll(ix, b) == FoldLeft(LAMBDA i, s : CommitNonce(i, b, s), ix, SetToSeq(BlockSenders(b)))

\* onBlockCommit.  Invalidated transactions leave the store only.
Commit(b) ==
    LET kept == pool \ TxsOf(b)
        gone == TxsOf(b) \cup Invalidated(kept, b)
    IN  /\ Len(chain) < node.blocks
        /\ chain' = Append(chain, b)
        /\ pool' = pool \ gone
        /\ bySender' = WithoutBySender(bySender, gone)
        /\ pendingIndex' = CommitAll(pendingIndex, b)
        /\ UNCHANGED orphans

\* storeOrphanedTx: the caller keeps a transaction it saw, for a later reorg.
StoreOrphan(t) ==
    LET all == IF t \in ToSet(orphans) THEN orphans ELSE Append(orphans, t)
    IN  /\ "orphans" \in node.with
        /\ t \in pool \cup ChainTxs(chain)
        /\ orphans' = IF Len(all) > MaxOrphans THEN Tail(all) ELSE all
        /\ UNCHANGED <<chain, pool, bySender, pendingIndex>>

\* (bug) a transaction the new chain holds is put back too
ReinsertBug(st, t, new) ==
    IF t \notin ToSet(orphans) \/ ~ AddOK(st.pool, st.by, t) THEN st
    ELSE [pool |-> st.pool \cup {t}, by |-> [st.by EXCEPT ![Sender[t]] = @ \cup {t}],
          ix |-> OnAdmit(st.ix, t)]

\* One orphaned transaction is put back, if it was kept and fits.
Reinsert(st, t, new) ==
    IF t \in new \/ t \notin ToSet(orphans) \/ ~ AddOK(st.pool, st.by, t) THEN st
    ELSE [pool |-> st.pool \cup {t}, by |-> [st.by EXCEPT ![Sender[t]] = @ \cup {t}],
          ix |-> OnAdmit(st.ix, t)]

ReinsertAll(st, b, new) == FoldLeft(LAMBDA x, t : Reinsert(x, t, new), st, b)
ReinsertBlocks(st, old, new) == FoldLeft(LAMBDA x, b : ReinsertAll(x, b, new), st, old)

\* onReorg: the last d blocks are replaced by news; the newest comes first.
Reorg(d, news) ==
    LET base == SubSeq(chain, 1, Len(chain) - d)
        old == [i \in 1..d |-> chain[Len(chain) - i + 1]]
        new == ChainTxs(news)
        start == [pool |-> pool \ new, by |-> WithoutBySender(bySender, new),
                  ix |-> FoldLeft(BaseNonces, pendingIndex, news)]
        done == ReinsertBlocks(start, old, new)
    IN  /\ d <= MaxReorgDepth
        /\ chain' = base \o news
        /\ pool' = done.pool
        /\ bySender' = done.by
        /\ pendingIndex' = done.ix
        /\ UNCHANGED orphans

\* fullSync: the index is emptied and every transaction of the store admitted.
FullSync ==
    /\ "sync" \in node.with
    /\ pendingIndex' = FoldLeft(OnAdmit, NoIndex, SetToSeq(pool))
    /\ UNCHANGED <<chain, pool, bySender, orphans>>

PoolNext ==
    /\ UNCHANGED node
    /\ \/ \E t \in node.txs : Submit(t) \/ StoreOrphan(t)
       \/ \E b \in BlocksAfter(chain) : Commit(b)
       \/ \E d \in 1..Len(chain) :
             \E b \in BlocksAfter(SubSeq(chain, 1, Len(chain) - d)) \ {chain[Len(chain) - d + 1]} :
                \/ Reorg(d, <<b>>)
                \/ /\ Len(chain) - d + 2 <= node.blocks
                   /\ \E c \in BlocksAfter(Append(SubSeq(chain, 1, Len(chain) - d), b)) : Reorg(d, <<b, c>>)
       \/ FullSync

PoolSpec == PoolInit /\ [][PoolNext]_poolVars

-----------------------------------------------------------------------------
(* Properties.                                                             *)

PoolTypeOK ==
    /\ ChainTxs(chain) \subseteq Txs
    /\ pool \subseteq Txs
    /\ bySender \in [Senders -> SUBSET Txs]
    /\ pendingIndex.pending \subseteq Txs
    /\ DOMAIN pendingIndex.slot \subseteq Slots /\ \A x \in DOMAIN pendingIndex.slot : pendingIndex.slot[x] \in Txs
    /\ pendingIndex.next \in [Senders -> Nat]
    /\ \A s \in States : ToSet(pendingIndex.byState[s]) \subseteq Txs
    /\ ToSet(orphans) \subseteq Txs /\ Len(orphans) <= MaxOrphans

\* The store's index by sender lists each transaction of the store once, and no
\* limit is passed, reinsertion after a reorg included (MempoolStore.add).
PoolWithinLimits ==
    /\ \A s \in Senders : bySender[s] = {t \in pool : Sender[t] = s}
    /\ \A s \in Senders : Cardinality(bySender[s]) <= node.perSender
    /\ Cardinality(pool) <= MaxPool

\* The three views of the pending index agree: what is in flight or listed under
\* a state is pending, once, and no list passes its limit.
IndexAgrees ==
    /\ \A x \in DOMAIN pendingIndex.slot :
          pendingIndex.slot[x] \in pendingIndex.pending /\ Slot(pendingIndex.slot[x]) = x
    /\ \A s \in States :
          /\ ToSet(pendingIndex.byState[s]) \subseteq {t \in pendingIndex.pending : s \in Touches[t]}
          /\ IsInjective(pendingIndex.byState[s])
          /\ Len(pendingIndex.byState[s]) <= node.perState

\* The indexes of the store and of the pending transactions tell the same about
\* the transactions they list, within their limits.
IndexesAgree == PoolTypeOK /\ PoolWithinLimits /\ IndexAgrees

\* When no list can reach its limit, a transaction that passes check shares no
\* expected version with a pending one that touches what it expects (PendingIndex:
\* "Conflict detection").
ConflictsAreSeen ==
    IsFiniteSet(node.txs) /\ Cardinality(node.txs) <= node.perState =>
        \A t \in node.txs : Check(pendingIndex, t) =>
          \A p \in pendingIndex.pending : \A s \in DOMAIN Expects[t] \cap DOMAIN Expects[p] \cap Touches[p] :
             Expects[t][s] # Expects[p][s]

\* The next nonce the index names is one the chain has not seen, at a node that
\* does not rebuild its index between blocks (a rebuilt index starts from zero).
NextNonceIsNew == "sync" \notin node.with => \A s \in Senders : pendingIndex.next[s] >= NextOnChain(chain, s)

\* A reorg drops from the mempool what the new blocks hold and nothing else,
\* puts back only what the old blocks held, and every kept transaction of theirs
\* that fits.
ReorgKeepsTransactions ==
    ~ IsPrefix(chain, chain') =>
        LET new == ChainTxs(chain')
            old == ChainTxs(chain) \ new
        IN  /\ (pool' \ pool) \subseteq old
            /\ (pool \ pool') \subseteq new
            /\ \A t \in (old \cap ToSet(orphans)) \ pool' :
                  Cardinality(pool') = MaxPool \/ Cardinality(bySender'[Sender[t]]) = node.perSender

\* A transaction leaves the mempool only for a reason: a block holds it, or a
\* block replaced a version it expects.
LeavesForAReason ==
    \A t \in pool \ pool' :
        \/ t \in ChainTxs(chain')
        \/ \E i \in DOMAIN chain' : \E u \in TxsOf(chain'[i]) :
              \E s \in DOMAIN Expects[t] \cap Touches[u] : Expects[t][s] # u
=============================================================================
