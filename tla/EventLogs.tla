------------------------------ MODULE EventLogs ------------------------------
(***************************************************************************)
(* The store of event logs (src/events/logs/store.ts), which listens to    *)
(* the node as the Indexer does: of a reorg it is told to forget the        *)
(* orphaned heights first, then of every new block the events of each of   *)
(* its transactions.                                                       *)
(***************************************************************************)
EXTENDS Indexer

CONSTANTS
    Labels,             \* what a log is listed under: keys, emitters, first topics
    Emits,              \* the logs of each transaction in order, each as its labels
    MaxEventsPerTx      \* MAX_EVENTS_PER_TX

ASSUME EventLogsAssumption ==
    Emits \in [Txs -> Seq(SUBSET Labels)] /\ MaxEventsPerTx \in Nat \ {0}

VARIABLE logs   \* InMemoryEventLogStore

NoLogs == [byTx |-> [t \in Txs |-> <<>>], byLabel |-> [x \in Labels |-> <<>>],
           byBlock |-> [h \in {} |-> <<>>], count |-> 0]

Events(t, h) == [k \in DOMAIN Emits[t] |-> [tx |-> t, index |-> k, labels |-> Emits[t][k], height |-> h]]
Labelled(q, x) == Filtered(q, {e \in ToSet(q) : x \in e.labels})
Except(q, h) == Filtered(q, {e \in ToSet(q) : e.height # h})

\* addEvents, of the events of one transaction; too many of them throw before
\* anything is stored.
AddEvents(l, events) ==
    IF events = <<>> \/ Len(events) > MaxEventsPerTx THEN l
    ELSE LET e == Head(events) IN
         [l EXCEPT !.byTx[e.tx] = @ \o events,
                   !.byLabel = [x \in Labels |-> @[x] \o Labelled(events, x)],
                   !.byBlock = [g \in DOMAIN @ \cup {e.height} |->
                                  IF g = e.height THEN At(@, g) \o events ELSE @[g]],
                   !.count = @ + Len(events)]

\* (bug) the lists by key, emitter and topic keep the logs
RemoveByBlockBug(l, h) ==
    [l EXCEPT !.byTx = [t \in Txs |-> Except(@[t], h)],
              !.byBlock = Drop(@, {h}), !.count = @ - Len(At(l.byBlock, h))]

RemoveByBlock(l, h) ==
    [l EXCEPT !.byTx = [t \in Txs |-> Except(@[t], h)],
              !.byLabel = [x \in Labels |-> Except(@[x], h)],
              !.byBlock = Drop(@, {h}), !.count = @ - Len(At(l.byBlock, h))]

LogBlock(l, b, h) == FoldLeft(LAMBDA k, t : AddEvents(k, Events(t, h)), l, b)
LogBlocks(l, c, heights) == FoldLeft(LAMBDA k, h : LogBlock(k, c[h], h), l, heights)

-----------------------------------------------------------------------------
ListenersInit == IndexerInit /\ logs = NoLogs

ListenersNext ==
    /\ IndexerNext
    /\ logs' = IF "logs" \notin node.with \/ chain' = chain THEN logs
               ELSE LET fork == Common(chain, chain')
                        start == FoldLeft(RemoveByBlock, logs, NewHeights(fork, chain))
                    IN  LogBlocks(start, chain', NewHeights(fork, chain'))

ListenersSpec == ListenersInit /\ [][ListenersNext]_<<poolVars, fast, ix, logs>>

-----------------------------------------------------------------------------
(* Properties.                                                             *)

\* The logs tell what the chain tells: after any blocks and reorgs the lists by
\* transaction, by label and by height are those of the logs of the chain, in its
\* order, and the count is theirs (addEvents, removeByBlock).
Kept(t, h) == IF Len(Emits[t]) > MaxEventsPerTx THEN <<>> ELSE Events(t, h)
LogsIn(b, h) == FlattenSeq([k \in DOMAIN b |-> Kept(b[k], h)])
LogsOn(c) == FlattenSeq([h \in DOMAIN c |-> LogsIn(c[h], h)])
AtHeight(q, h) == Filtered(q, {e \in ToSet(q) : e.height = h})
LogsTellTheChain ==
    "logs" \in node.with =>
        /\ \A t \in Txs : logs.byTx[t] = OfTx(LogsOn(chain), t)
        /\ \A x \in Labels : logs.byLabel[x] = Labelled(LogsOn(chain), x)
        /\ \A h \in DOMAIN chain : At(logs.byBlock, h) = AtHeight(LogsOn(chain), h)
        /\ DOMAIN logs.byBlock \subseteq DOMAIN chain /\ logs.count = Len(LogsOn(chain))

\* The two that follow the chain for queries, the indexer and the logs, tell what
\* it tells.
ListenersTellTheChain == IndexTellsTheChain /\ LogsTellTheChain
=============================================================================
