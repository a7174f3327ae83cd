------------------------------- MODULE Indexer -------------------------------
(***************************************************************************)
(* The index of committed transactions and state changes that queries read *)
(* (src/indexer/indexer.ts).  It listens to the node of FastPath: of a     *)
(* reorg it is told the height of the fork first and then, as of any block, *)
(* the new blocks.  It keeps the newest transactions and the newest changes *)
(* of states up to a limit each.                                           *)
(***************************************************************************)
EXTENDS FastPath

CONSTANTS
    MaxIndexedTxs, MaxStateChanges      \* of IndexerConfig

ASSUME IndexerAssumption == {MaxIndexedTxs, MaxStateChanges} \subseteq Nat \ {0, 1}

VARIABLE ix     \* Indexer

NoIndexer == [txs |-> [t \in {} |-> 0],         \* txsByHash, the height of each
              bySender |-> [s \in Senders |-> <<>>], byState |-> [s \in States |-> <<>>],
              byHeight |-> [h \in {} |-> <<>>], from |-> 0, to |-> 0,
              changes |-> <<>>,
              changesByState |-> [s \in States |-> <<>>],
              changesByTx |-> [t \in Txs |-> <<>>]]

\* A Set of the program keeps the order of insertion, as a sequence without
\* duplicates does.
Added(q, x) == IF x \in ToSet(q) THEN q ELSE Append(q, x)
At(f, h) == IF h \in DOMAIN f THEN f[h] ELSE <<>>

\* (bug) the states forget nothing
RemoveTxBug(i, t) ==
    IF t \notin DOMAIN i.txs THEN i
    ELSE [i EXCEPT !.txs = Drop(@, {t}), !.bySender[Sender[t]] = Without(@, t),
                   !.byHeight[i.txs[t]] = Without(@, t)]

RemoveTx(i, t) ==
    IF t \notin DOMAIN i.txs THEN i
    ELSE [i EXCEPT !.txs = Drop(@, {t}),
                   !.bySender[Sender[t]] = Without(@, t),
                   !.byState = [s \in States |-> IF s \in Touches[t] THEN Without(@[s], t) ELSE @[s]],
                   !.byHeight[i.txs[t]] = Without(@, t)]

\* evictOldestTx: the first of the lowest height, which then moves up to the next
\* height that holds a transaction.
EvictOldestTx(i) ==
    IF i.from = 0 THEN i
    ELSE LET left == IF At(i.byHeight, i.from) = <<>> THEN i ELSE RemoveTx(i, Head(i.byHeight[i.from]))
             held == {h \in left.from..left.to : At(left.byHeight, h) # <<>>}
             from == IF held # {} THEN CHOOSE h \in held : \A g \in held : h <= g
                     ELSE IF left.from <= left.to THEN left.to + 1 ELSE left.from
         IN  [left EXCEPT !.byHeight = Drop(@, left.from..from - 1), !.from = from]

\* addTx.  A limit that is reached is reached by one transaction.
AddTx(i, t, h) ==
    LET room == IF Cardinality(DOMAIN i.txs) >= MaxIndexedTxs THEN EvictOldestTx(i) ELSE i
    IN  [room EXCEPT !.txs = [u \in DOMAIN @ \cup {t} |-> IF u = t THEN h ELSE @[u]],
                     !.bySender[Sender[t]] = Added(@, t),
                     !.byState = [s \in States |-> IF s \in Touches[t] THEN Added(@[s], t) ELSE @[s]],
                     !.byHeight = [g \in DOMAIN @ \cup {h} |-> IF g = h THEN Added(At(@, g), t) ELSE @[g]]]

\* (bug) the list of the state is not told of what is evicted
EvictOldestStateChangeBug(i) ==
    LET oldest == Head(i.changes)
    IN  [i EXCEPT !.changes = Tail(@), !.changesByTx[oldest.tx] = Without(@, oldest)]

EvictOldestStateChange(i) ==
    LET oldest == Head(i.changes)
    IN  [i EXCEPT !.changes = Tail(@),
                  !.changesByState[oldest.state] =
                      IF @ # <<>> /\ Head(@) = oldest THEN Tail(@) ELSE @,
                  !.changesByTx[oldest.tx] = Without(@, oldest)]

AddStateChange(i, change) ==
    LET room == IF Len(i.changes) >= MaxStateChanges THEN EvictOldestStateChange(i) ELSE i
    IN  [room EXCEPT !.changes = Append(@, change),
                     !.changesByState[change.state] = Append(@, change),
                     !.changesByTx[change.tx] = Append(@, change)]

\* What the block b at height h changes: of every transaction the states it writes.
TxChanges(t, h) ==
    LET touched == SetToSeq(Touches[t])
    IN  [n \in DOMAIN touched |-> [state |-> touched[n], tx |-> t, height |-> h]]
BlockChanges(b, h) == FlattenSeq([k \in DOMAIN b |-> TxChanges(b[k], h)])

OfState(q, s) == Filtered(q, {c \in ToSet(q) : c.state = s})
OfTx(q, t) == Filtered(q, {c \in ToSet(q) : c.tx = t})
UpToHeight(q, h) == Filtered(q, {c \in ToSet(q) : c.height <= h})

IndexTxs(i, b, h) == FoldLeft(LAMBDA j, t : AddTx(j, t, h), i, b)
IndexBlock(i, b, h) ==
    LET ranged == [i EXCEPT !.from = IF i.txs = <<>> \/ h < @ THEN h ELSE @,
                            !.to = IF h > @ THEN h ELSE @]
    IN  FoldLeft(AddStateChange, IndexTxs(ranged, b, h), BlockChanges(b, h))

OnReorg(i, fork) ==
    LET kept == FoldLeft(RemoveTx, i, SetToSeq({t \in DOMAIN i.txs : i.txs[t] > fork}))
        changes == UpToHeight(i.changes, fork)
    IN  [kept EXCEPT !.changes = changes,
                     !.changesByState = [s \in States |-> OfState(changes, s)],
                     !.changesByTx = [t \in Txs |-> OfTx(changes, t)],
                     !.to = fork]

-----------------------------------------------------------------------------
IndexerInit == FastInit /\ ix = NoIndexer

\* The node tells it of a reorg, if there is one, and of the new blocks.
NewHeights(fork, new) == [k \in 1..Len(new) - fork |-> fork + k]
IndexBlocks(i, c, heights) == FoldLeft(LAMBDA j, h : IndexBlock(j, c[h], h), i, heights)
IndexerNext ==
    /\ FastNext
    /\ ix' = IF "indexer" \notin node.with \/ chain' = chain THEN ix
             ELSE LET fork == Common(chain, chain')
                      start == IF fork < Len(chain) THEN OnReorg(ix, fork) ELSE ix
                  IN  IndexBlocks(start, chain', NewHeights(fork, chain'))

IndexerSpec == IndexerInit /\ [][IndexerNext]_<<poolVars, fast, ix>>

-----------------------------------------------------------------------------
(* Properties.                                                             *)

\* The index tells what the chain tells, up to its limits, after any blocks,
\* evictions and reorgs: it holds transactions of the chain at their heights and
\* none that is older than one it has dropped, the lists by sender, state and height
\* are those of the transactions it holds, and the changes are the last ones of
\* the chain, by state and by transaction too (indexBlock, evictOldestTx,
\* handleReorg).
ChangesOn(c) == FlattenSeq([h \in DOMAIN c |-> BlockChanges(c[h], h)])
NewestOnly ==
    \A h \in DOMAIN chain : \A k \in DOMAIN chain[h] : LET t == chain[h][k] IN
        /\ t \in DOMAIN ix.txs => ix.txs[t] = h
        /\ t \notin DOMAIN ix.txs => \A g \in 1..h : \A j \in DOMAIN chain[g] :
              g < h \/ j <= k => chain[g][j] \notin DOMAIN ix.txs
LastChanges ==
    \E n \in 0..Len(ChangesOn(chain)) :
        ix.changes = SubSeq(ChangesOn(chain), n + 1, Len(ChangesOn(chain)))
ListsAgree ==
    /\ \A s \in Senders : ToSet(ix.bySender[s]) = {t \in DOMAIN ix.txs : Sender[t] = s}
    /\ \A s \in States : ToSet(ix.byState[s]) = {t \in DOMAIN ix.txs : s \in Touches[t]}
    /\ \A h \in DOMAIN chain : ToSet(At(ix.byHeight, h)) = {t \in DOMAIN ix.txs : ix.txs[t] = h}
    /\ \A s \in States : ix.changesByState[s] = OfState(ix.changes, s)
    /\ \A t \in Txs : ix.changesByTx[t] = OfTx(ix.changes, t)
IndexTellsTheChain ==
    "indexer" \in node.with =>
        /\ DOMAIN ix.txs \subseteq ChainTxs(chain) /\ NewestOnly /\ ListsAgree
        /\ Cardinality(DOMAIN ix.txs) <= MaxIndexedTxs
        /\ LastChanges /\ Len(ix.changes) <= MaxStateChanges
=============================================================================
