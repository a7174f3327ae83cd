------------------------------ MODULE Journal -------------------------------
(* The journal: blocks that are final (K deep) are collected, batched and      *)
(* written to other chains (collector.ts), and the finalizer counts what was  *)
(* written and keeps a checkpoint to recover from (finalizer.ts).             *)
(*                                                                            *)
(* A batch leaves the queue on a timer or in a flush. writeToAdapters awaits  *)
(* one writer after the other, and nothing keeps the timer from starting the  *)
(* next batch meanwhile: a flight is one such call between two awaits. A      *)
(* block stands for its height, a journal for the heights it covers.          *)
EXTENDS Integers, Sequences, FiniteSets, Filters

CONSTANTS
    Heights,            \* heights of the blocks that become final
    Adapters,           \* config.adapters: the sequence of chains to write to
    Registered,         \* the chains a writer is registered for
    BatchSize,          \* config.batchSize
    CheckpointInterval, \* config.checkpointInterval
    MaxFlights,         \* bound: batches between two awaits at a time
    MaxTimers,          \* bound: intervals alive at a time
    MaxRestarts         \* bound: restarts of the process

ASSUME JournalAssumption ==
    /\ Heights \subseteq Nat \ {0} /\ Adapters \in Seq(STRING) /\ IsFiniteSet(Registered)
    /\ BatchSize \in Nat \ {0} /\ CheckpointInterval \in Nat \ {0}
    /\ MaxFlights \in Nat /\ MaxTimers \in Nat /\ MaxRestarts \in Nat

VARIABLES
    pending,        \* pendingBlocks
    flights,        \* the calls of processReadyBatches and flush under way
    totalWritten,   \* totalWritten of the collector
    timers,         \* the intervals started and not cleared
    held,           \* whether processingTimer refers to one of them
    checkpoint,     \* the finalizer's checkpoint
    since,          \* journalsSinceCheckpoint
    saved,          \* the checkpoint last emitted, which outlives the process
    restarts,
    resumed,        \* the checkpoint this process loaded
    ends,           \* where journals end that were settled: of earlier processes the one resumed at
    added,          \* the blocks given to this process
    landed,         \* for each chain, the journals this process brought to it
    settled         \* the journals of this process every adapter answered for

collector == <<pending, flights, totalWritten>>
timer == <<timers, held>>
finalizer == <<checkpoint, since, saved>>
history == <<restarts, resumed, ends, added, landed, settled>>
vars == <<collector, timer, finalizer, history>>

LastOf(s) == s[Len(s)]
Elements(s) == {s[i] : i \in DOMAIN s}
Covered(journals) == UNION {Elements(j) : j \in journals}
Least(n) == IF n < BatchSize THEN n ELSE BatchSize

\* A missing writer is answered ADAPTER_NOT_FOUND without an await.
Targets == Filtered(Adapters, Registered)

Checkpoint == [lastHeight : Heights \cup {0}, total : Nat]

Init ==
    /\ pending = <<>> /\ flights = {} /\ totalWritten = 0
    /\ timers = 0 /\ held = FALSE
    /\ checkpoint = [lastHeight |-> 0, total |-> 0] /\ since = 0 /\ saved = checkpoint
    /\ restarts = 0 /\ resumed = checkpoint /\ added = {} /\ settled = {}
    /\ landed = [a \in Registered |-> <<>>]
    /\ ends = {}

-----------------------------------------------------------------------------
\* push and sort by height.
Below(h) == Filtered(pending, {x \in Heights : x < h})
Above(h) == Filtered(pending, {x \in Heights : x > h})
Inserted(h) == Below(h) \o <<h>> \o Above(h)

AddBlock(h) ==
    /\ h \notin added /\ h > resumed.lastHeight
    /\ pending' = Inserted(h)
    /\ added' = added \cup {h}
    /\ UNCHANGED <<flights, totalWritten, timer, finalizer, restarts, resumed, ends, landed, settled>>

\* start: no check for an interval already running; stop clears the last one.
Start ==
    /\ timers < MaxTimers
    /\ timers' = timers + 1 /\ held' = TRUE
    /\ UNCHANGED <<collector, finalizer, history>>

Stop ==
    /\ held
    /\ timers' = timers - 1 /\ held' = FALSE
    /\ UNCHANGED <<collector, finalizer, history>>

\* splice the first blocks and make a journal of them. Which of their changes it
\* carries is left out: createJournal drops those beyond maxEntriesPerJournal.
Batch == SubSeq(pending, 1, Least(Len(pending)))
\* Mutant of Rest: the queue is emptied.
RestBug == <<>>
Rest == SubSeq(pending, Least(Len(pending)) + 1, Len(pending))
Flight(by) == [journal |-> Batch, left |-> Targets, by |-> by]

\* Mutant of Tick: the checkpoint moves when a batch is taken, as the
\* collector's lastProcessedHeight does.
TickBug ==
    /\ timers > 0 /\ Cardinality(flights) < MaxFlights
    /\ Len(pending) >= BatchSize
    /\ flights' = flights \cup {Flight("timer")}
    /\ pending' = Rest
    /\ checkpoint' = [checkpoint EXCEPT !.lastHeight = LastOf(Batch)]
    /\ UNCHANGED <<totalWritten, timer, since, saved, history>>

Tick ==
    /\ timers > 0 /\ Cardinality(flights) < MaxFlights
    /\ Len(pending) >= BatchSize
    /\ flights' = flights \cup {Flight("timer")}
    /\ pending' = Rest
    /\ UNCHANGED <<totalWritten, timer, finalizer, history>>

Flush ==
    /\ pending # <<>> /\ Cardinality(flights) < MaxFlights
    /\ flights' = flights \cup {Flight("flush")}
    /\ pending' = Rest
    /\ UNCHANGED <<totalWritten, timer, finalizer, history>>

\* Mutant of Answered: a call ends with its first answer.
AnsweredBug(f) == flights \ {f}

\* The writer's answer, and the rest of the loop body for its adapter.
Answered(f) == (flights \ {f}) \cup {[f EXCEPT !.left = Tail(@)]}
Land(f) == landed' = [landed EXCEPT ![Head(f.left)] = Append(@, f.journal)]

\* Mutant of JournalWritten: the checkpoint is emitted one write late.
JournalWrittenBug ==
    LET counted == [checkpoint EXCEPT !.total = @ + 1] IN
    /\ checkpoint' = counted
    /\ IF since >= CheckpointInterval
       THEN saved' = counted /\ since' = 0
       ELSE since' = since + 1 /\ UNCHANGED saved

\* onJournalWritten, called by the emit of journal:written.
JournalWritten ==
    LET counted == [checkpoint EXCEPT !.total = @ + 1] IN
    /\ checkpoint' = counted
    /\ IF since + 1 >= CheckpointInterval
       THEN saved' = counted /\ since' = 0
       ELSE since' = since + 1 /\ UNCHANGED saved

WriteOk(f) ==
    /\ f.left # <<>>
    /\ flights' = Answered(f)
    /\ totalWritten' = totalWritten + 1
    /\ JournalWritten
    /\ Land(f)
    /\ UNCHANGED <<pending, timer, restarts, resumed, ends, added, settled>>

\* Mutant of WriteFails: the write is tried again, though it may have landed.
WriteFailsBug(f) ==
    /\ f.left # <<>>
    /\ Land(f) \/ UNCHANGED landed
    /\ UNCHANGED <<collector, timer, finalizer, restarts, resumed, ends, added, settled>>

\* ok: false, or an exception, of which the journal may have landed all the same.
WriteFails(f) ==
    /\ f.left # <<>>
    /\ flights' = Answered(f)
    /\ Land(f) \/ UNCHANGED landed
    /\ UNCHANGED <<pending, totalWritten, timer, finalizer, restarts, resumed, ends, added, settled>>

Settle(j) == settled' = settled \cup {j} /\ ends' = ends \cup {LastOf(j)}

\* writeToAdapters returns to processReadyBatches, which emits batch:processed
\* (onBatchProcessed), ...
BatchReturns(f) ==
    /\ f.by = "timer" /\ f.left = <<>>
    /\ flights' = flights \ {f}
    /\ checkpoint' = [checkpoint EXCEPT !.lastHeight = LastOf(f.journal)]
    /\ Settle(f.journal)
    /\ UNCHANGED <<pending, totalWritten, timer, since, saved, restarts, resumed, added, landed>>

\* ... or to flush, which goes on until nothing is pending and emits nothing.
FlushReturns(f) ==
    /\ f.by = "flush" /\ f.left = <<>>
    /\ Settle(f.journal)
    /\ IF pending = <<>>
       THEN flights' = flights \ {f} /\ UNCHANGED pending
       ELSE flights' = (flights \ {f}) \cup {Flight("flush")} /\ pending' = Rest
    /\ UNCHANGED <<totalWritten, timer, finalizer, restarts, resumed, added, landed>>

\* The process ends: what was pending or under way is gone. A new one loads the
\* checkpoint and is given the blocks above it again.
Restart ==
    /\ restarts < MaxRestarts
    /\ restarts' = restarts + 1
    /\ pending' = <<>> /\ flights' = {} /\ totalWritten' = 0
    /\ timers' = 0 /\ held' = FALSE
    /\ checkpoint' = saved /\ since' = 0 /\ resumed' = saved
    /\ added' = {} /\ settled' = {} /\ landed' = [a \in Registered |-> <<>>]
    /\ ends' = ends \cap {saved.lastHeight}
    /\ UNCHANGED saved

Answers(f) == WriteOk(f) \/ WriteFails(f) \/ BatchReturns(f) \/ FlushReturns(f)

Next ==
    \/ \E h \in Heights : AddBlock(h)
    \/ Start \/ Stop \/ Tick \/ Flush \/ Restart
    \/ \E f \in flights : Answers(f)

\* The timer fires, and every writer answers in the end: mock.ts resolves after
\* writeDelay, and an error ends the await like a result does.
Fairness ==
    /\ WF_vars(Tick)
    /\ \A h \in Heights : WF_vars(\E f \in flights : h \in Elements(f.journal) /\ Answers(f))

Spec == Init /\ [][Next]_vars
FairSpec == Spec /\ Fairness

-----------------------------------------------------------------------------
Ascending(s) == \A i, j \in DOMAIN s : i < j => s[i] < s[j]
IsJournal(j) == Elements(j) \subseteq Heights /\ Len(j) \in 1..BatchSize /\ Ascending(j)
Disjoint(j, k) == Elements(j) \cap Elements(k) = {}
Flying == {f.journal : f \in flights}

\* Types: the queue is sorted by height, and so is every journal made of it.
TypeOK ==
    /\ Elements(pending) \subseteq Heights /\ Ascending(pending)
    /\ \A f \in flights : IsJournal(f.journal) /\ f.by \in {"timer", "flush"}
                          /\ \E n \in 0..Len(Targets) : f.left = SubSeq(Targets, n + 1, Len(Targets))
    /\ totalWritten \in Nat /\ timers \in 0..MaxTimers /\ (held => timers > 0)
    /\ {checkpoint, saved, resumed} \subseteq Checkpoint /\ since \in Nat
    /\ restarts \in 0..MaxRestarts /\ added \subseteq Heights
    /\ \A j \in settled : IsJournal(j)
    /\ DOMAIN landed = Registered /\ ends \subseteq Heights

\* Batches taken by overlapping ticks and flushes, between whose awaits blocks
\* keep coming, share no block and lose none: every block given to the process
\* is in the queue or in exactly one journal, under way or settled.
BlocksAccounted ==
    /\ TypeOK
    /\ added = Elements(pending) \cup Covered(Flying \cup settled)
    /\ \A j \in Flying \cup settled :
          Disjoint(j, pending) /\ \A k \in (Flying \cup settled) \ {j} : Disjoint(j, k)
    /\ Cardinality(flights) = Cardinality(Flying) /\ Flying \cap settled = {}

\* A process brings a journal to a chain at most once, and only after
\* writeToAdapters came to that chain's writer: no block is on a chain twice,
\* and none is there while its batch has yet to ask the writer.
LandsOnce ==
    \A a \in Registered :
        /\ \A i, k \in DOMAIN landed[a] : i # k => Disjoint(landed[a][i], landed[a][k])
        /\ Elements(landed[a]) \subseteq Flying \cup settled
        /\ \A f \in flights : a \in Elements(f.left) => f.journal \notin Elements(landed[a])

\* The collector, the finalizer and the chains agree: the checkpoint counts
\* exactly the writes the collector counted since it was loaded, all of which
\* landed, and a restart forgets less than CheckpointInterval of them.
CountsAgree ==
    /\ checkpoint.total = resumed.total + totalWritten
    /\ checkpoint.total = saved.total + since /\ since < CheckpointInterval
    /\ totalWritten <= Cardinality(UNION {{a} \X DOMAIN landed[a] : a \in Registered})

\* A restart goes on from the end of a batch some process had settled, never of one
\* that was still under way: its checkpoint was emitted after the batch returned.
\* It is not said that blocks are written once over all runs: those above that
\* height may be written again, and those below it that were pending or under way
\* are not written any more, as lastHeight is that of the batch that returned last.
ResumesAtSettled == {checkpoint.lastHeight, saved.lastHeight, resumed.lastHeight} \subseteq ends \cup {0}

\* In one run of the process no block is lost between overlapping batches, none is
\* written twice to a chain, and nothing written goes uncounted, whichever writer
\* fails; the next run begins at the end of a batch that was settled
\* (processReadyBatches, writeToAdapters, onJournalWritten, loadCheckpoint).
JournalAddsUp == BlocksAccounted /\ LandsOnce /\ CountsAgree /\ ResumesAtSettled

\* While an interval runs, a full batch does not stay in the queue ...
FullBatchesLeave == Len(pending) >= BatchSize /\ timers > 0 ~> Len(pending) < BatchSize \/ timers = 0

\* ... and a block taken from it is offered to every adapter, unless the process ends.
TakenBlocksSettle ==
    \A h \in Heights : h \in Covered(Flying) ~> h \in Covered(settled) \/ h \notin added

\* So nothing the collector was given stays behind for good once a batch is full
\* (processReadyBatches, writeToAdapters).
BatchesSettle == FullBatchesLeave /\ TakenBlocksSettle
=============================================================================
