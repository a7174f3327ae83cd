------------------------------- MODULE Bridge -------------------------------
(***************************************************************************)
(* The runner of a bridge provider, src/service/bridge-runner/runner.ts.   *)
(* It hears of bridge requests, pays them out on the destination chain and *)
(* reports each stage to the WSTF chain.  One step of a job is what a call *)
(* of handleBridgeRequest or executeBridge does between two awaits.        *)
(***************************************************************************)
EXTENDS Naturals, FiniteSets, Sequences

CONSTANTS
    Requests,       \* request ids
    InRange,        \* those on the provider's route with an amount it takes
    Amount,         \* what a request pays out
    MinDst,         \* what its liquidity check asks for: minDstAmount || amount
    Liquidity,      \* the provider's tokens on the destination chain
    MaxConcurrent,  \* maxConcurrentBridges
    MaxJobs,        \* bound: calls of handleBridgeRequest
    MaxStarts,      \* bound: calls of start
    MaxLost,        \* bound: reports that do not reach the WSTF chain
    None            \* no job, no request

ASSUME BridgeAssumption ==
    /\ InRange \subseteq Requests
    /\ Amount \in [Requests -> Nat \ {0}] /\ MinDst \in [Requests -> Nat]
    /\ Liquidity \in Nat /\ MaxConcurrent \in Nat /\ MaxJobs \in Nat /\ MaxStarts \in Nat /\ MaxLost \in Nat
    /\ None \notin Requests \cup Nat

VARIABLES
    running,    \* isRunning
    starts,     \* calls of start so far
    subs,       \* subscriptions to BRIDGE_REQUEST; stop cancels none
    connected,  \* chainConnections holds the destination chain
    job,        \* the calls of handleBridgeRequest: request and stage
    active,     \* activeBridges: the job whose execution is stored, or None
    stopping,   \* the loop of stop: under way, entries visited, report awaited
    tx,         \* destination chain: what became of each job's transfer
    balance,    \* destination chain: the provider's tokens
    lost,       \* reports lost so far
    reports     \* WSTF chain: the results submitted for each request, in order

vars == <<running, starts, subs, connected, job, active, stopping, tx, balance, lost, reports>>

Jobs == 1..MaxJobs
Executing == {"confirming", "monitoring", "sending", "waiting", "fulfilling", "failing"}
Stages == Executing \cup {"idle", "checking", "funded", "valid", "refusing", "done"}
Statuses == {"confirmed", "src_confirmed", "fulfilled", "failed", "cancelled"}
Entries == {r \in Requests : active[r] # None}

TypeOK ==
    /\ running \in BOOLEAN /\ connected \in BOOLEAN
    /\ starts \in 0..MaxStarts /\ subs \in 0..starts
    /\ job \in [Jobs -> [req : Requests \cup {None}, at : Stages]]
    /\ active \in [Requests -> Jobs \cup {None}]
    /\ stopping \in [on : BOOLEAN, seen : SUBSET Requests, awaits : Requests \cup {None}]
    /\ tx \in [Jobs -> {"none", "sent", "paid", "reverted"}]
    /\ balance \in 0..Liquidity /\ lost \in 0..MaxLost
    /\ reports \in [Requests -> Seq(Statuses)]

Init ==
    /\ running = FALSE /\ connected = FALSE /\ starts = 0 /\ subs = 0
    /\ job = [j \in Jobs |-> [req |-> None, at |-> "idle"]]
    /\ active = [r \in Requests |-> None]
    /\ stopping = [on |-> FALSE, seen |-> {}, awaits |-> None]
    /\ tx = [j \in Jobs |-> "none"] /\ balance = Liquidity /\ lost = 0
    /\ reports = [r \in Requests |-> <<>>]

-----------------------------------------------------------------------------
At(j, stage) == job[j].at = stage
Goes(j, stage) == job' = [job EXCEPT ![j].at = stage]

(* reportBridgeResult: a submission that fails is logged and forgotten. *)
ReportBridgeResult(r, s) ==
    \/ reports' = [reports EXCEPT ![r] = Append(@, s)] /\ UNCHANGED lost
    \/ lost < MaxLost /\ lost' = lost + 1 /\ UNCHANGED reports

(* Mutants. *)
FinishBug(j) ==      \* only success leaves activeBridges
    LET r == job[j].req IN
    /\ \/ At(j, "fulfilling") /\ ReportBridgeResult(r, "fulfilled") /\ active' = [active EXCEPT ![r] = None]
       \/ At(j, "failing") /\ ReportBridgeResult(r, "failed") /\ UNCHANGED active
    /\ Goes(j, "done")
    /\ UNCHANGED <<running, starts, subs, connected, stopping, tx, balance>>
ConfirmedBug(j) == tx[j] \in {"sent", "paid"}      \* no wait for the confirmation
(* start connects what it can, loads the route and subscribes.  A chain that *)
(* cannot be reached is left out; any other failure makes start throw.      *)
Start ==
    /\ ~running /\ starts < MaxStarts
    /\ starts' = starts + 1
    /\ connected' \in {connected, TRUE}
    /\ \/ running' = TRUE /\ subs' = subs + 1
       \/ UNCHANGED <<running, subs>>
    /\ UNCHANGED <<job, active, stopping, tx, balance, lost, reports>>

(* stop, called of a running service and not while another call of it is in *)
(* its loop; the bounds leave the last start running.                       *)
Stop ==
    /\ ~stopping.on /\ running /\ starts < MaxStarts
    /\ running' = FALSE
    /\ stopping' = [on |-> TRUE, seen |-> {}, awaits |-> None]
    /\ UNCHANGED <<starts, subs, connected, job, active, tx, balance, lost, reports>>

(* The loop of stop reaches the entry of r: it reports an execution whose   *)
(* status is still confirmed, and passes over the others.                   *)
StopVisit(r) ==
    /\ stopping.on /\ stopping.awaits = None
    /\ r \in Entries \ stopping.seen
    /\ stopping' = [stopping EXCEPT
         !.seen = @ \cup {r},
         !.awaits = IF job[active[r]].at = "confirming" THEN r ELSE None]
    /\ UNCHANGED <<running, starts, subs, connected, job, active, tx, balance, lost, reports>>

StopReported ==
    /\ stopping.awaits # None
    /\ ReportBridgeResult(stopping.awaits, "cancelled")
    /\ stopping' = [stopping EXCEPT !.awaits = None]
    /\ UNCHANGED <<running, starts, subs, connected, job, active, tx, balance>>

StopEnds ==
    /\ stopping.on /\ stopping.awaits = None /\ Entries \subseteq stopping.seen
    /\ stopping' = [on |-> FALSE, seen |-> {}, awaits |-> None]
    /\ UNCHANGED <<running, starts, subs, connected, job, active, tx, balance, lost, reports>>

-----------------------------------------------------------------------------
(* The next calls of handleBridgeRequest, one for each subscription. *)
Fresh == LET first == Cardinality({j \in Jobs : ~At(j, "idle")}) IN first + 1 .. first + subs

(* An event of r arrives, for the first time or again: each subscription's  *)
(* call runs up to the await of checkLiquidity, or refuses.                 *)
Deliver(r) ==
    /\ subs > 0 /\ Fresh \subseteq Jobs
    /\ job' = [j \in Jobs |-> IF j \notin Fresh THEN job[j]
                 ELSE [req |-> r, at |-> IF r \in InRange /\ connected THEN "checking"
                                         ELSE "refusing"]]
    /\ UNCHANGED <<running, starts, subs, connected, active, stopping, tx, balance, lost, reports>>

(* The destination chain reads the balance; a read that fails counts as too *)
(* little.                                                                  *)
CheckLiquidity(j) ==
    /\ At(j, "checking")
    /\ \/ balance >= MinDst[job[j].req] /\ Goes(j, "funded")
       \/ Goes(j, "refusing")
    /\ UNCHANGED <<running, starts, subs, connected, active, stopping, tx, balance, lost, reports>>

(* The rest of validateBridgeRequest once the answer is there: the deadline *)
(* may have passed, or the provider be at capacity.                         *)
Validate(j) ==
    /\ At(j, "funded")
    /\ \/ Cardinality(Entries) < MaxConcurrent /\ Goes(j, "valid")
       \/ Goes(j, "refusing")
    /\ UNCHANGED <<running, starts, subs, connected, active, stopping, tx, balance, lost, reports>>

(* The execution is stored under its request, in place of another of it. *)
Register(j) ==
    /\ At(j, "valid")
    /\ active' = [active EXCEPT ![job[j].req] = j]
    /\ Goes(j, "confirming")
    /\ UNCHANGED <<running, starts, subs, connected, stopping, tx, balance, lost, reports>>

Confirm(j) ==
    /\ At(j, "confirming")
    /\ ReportBridgeResult(job[j].req, "confirmed")
    /\ Goes(j, "monitoring")
    /\ UNCHANGED <<running, starts, subs, connected, active, stopping, tx, balance>>

(* executeBridge reports src_confirmed, waits for nothing, and calls the    *)
(* token's transfer.                                                        *)
Monitor(j) ==
    /\ At(j, "monitoring")
    /\ ReportBridgeResult(job[j].req, "src_confirmed")
    /\ Goes(j, "sending")
    /\ UNCHANGED <<running, starts, subs, connected, active, stopping, tx, balance>>

(* The call of transfer returns or throws; when it throws, the transaction  *)
(* may have been broadcast all the same.                                    *)
Send(j) ==
    /\ At(j, "sending")
    /\ \/ Goes(j, "waiting") /\ tx' = [tx EXCEPT ![j] = "sent"]
       \/ Goes(j, "failing") /\ tx' \in {tx, [tx EXCEPT ![j] = "sent"]}
    /\ UNCHANGED <<running, starts, subs, connected, active, stopping, balance, lost, reports>>

(* The destination chain executes a transfer. *)
Mine(j) ==
    LET a == Amount[job[j].req] IN
    /\ tx[j] = "sent"
    /\ \/ balance >= a /\ tx' = [tx EXCEPT ![j] = "paid"] /\ balance' = balance - a
       \/ balance < a /\ tx' = [tx EXCEPT ![j] = "reverted"] /\ UNCHANGED balance
    /\ UNCHANGED <<running, starts, subs, connected, job, active, stopping, lost, reports>>

(* tx.wait() returns once the transfer went through; it throws when it was  *)
(* reverted, or when the connection fails at any time.                      *)
Confirmed(j) == tx[j] = "paid"
Wait(j) ==
    /\ At(j, "waiting")
    /\ \/ Confirmed(j) /\ Goes(j, "fulfilling")
       \/ Goes(j, "failing")
    /\ UNCHANGED <<running, starts, subs, connected, active, stopping, tx, balance, lost, reports>>

(* The end of executeBridge: the last report, then the entry under the      *)
(* request is deleted, whichever execution it holds.                        *)
Finish(j) ==
    LET r == job[j].req IN
    /\ \/ At(j, "fulfilling") /\ ReportBridgeResult(r, "fulfilled")
       \/ At(j, "failing") /\ ReportBridgeResult(r, "failed")
    /\ Goes(j, "done")
    /\ active' = [active EXCEPT ![r] = None]
    /\ stopping' = [stopping EXCEPT !.seen = @ \ {r}]
    /\ UNCHANGED <<running, starts, subs, connected, tx, balance>>

Refuse(j) ==
    /\ At(j, "refusing")
    /\ ReportBridgeResult(job[j].req, "failed")
    /\ Goes(j, "done")
    /\ UNCHANGED <<running, starts, subs, connected, active, stopping, tx, balance>>

HandleBridgeRequest(j) == CheckLiquidity(j) \/ Validate(j) \/ Register(j) \/ Confirm(j) \/ Refuse(j)
ExecuteBridge(j) == Monitor(j) \/ Send(j) \/ Wait(j) \/ Finish(j)
StopStep == StopReported \/ StopEnds \/ \E r \in Requests : StopVisit(r)

Next ==
    \/ Start \/ Stop \/ StopStep
    \/ \E r \in Requests : Deliver(r)
    \/ \E j \in Jobs : HandleBridgeRequest(j) \/ ExecuteBridge(j) \/ Mine(j)

(* The await of tx.wait(), which has no timeout, of a transfer that no block *)
(* of the other chain holds.                                                *)
Unmined(j) == At(j, "waiting") /\ tx[j] = "sent"

(* Every other await comes back, with a result or an exception.  Nothing is  *)
(* assumed of the events, the operator and the blocks of the other chain.   *)
Proceeds(j) == ~Unmined(j) /\ (HandleBridgeRequest(j) \/ ExecuteBridge(j))
Spec == Init /\ [][Next]_vars /\ \A j \in Jobs : WF_vars(Proceeds(j))

-----------------------------------------------------------------------------
JobsOf(r) == {j \in Jobs : job[j].req = r}
Reported(r, s) == {i \in DOMAIN reports[r] : reports[r][i] = s}

(* A request is reported as fulfilled only as often as one of its transfers *)
(* went through on the destination chain, whatever was delivered again, lost *)
(* or stopped in between (executeBridge, executeEVMTransaction).            *)
FulfilledIsPaid ==
    \A r \in Requests :
        Cardinality(Reported(r, "fulfilled")) <= Cardinality({j \in JobsOf(r) : tx[j] = "paid"})

(* An entry of activeBridges is an execution that is under way, of its own   *)
(* request, so that the capacity it takes is given back (the finally of     *)
(* executeBridge); an execution whose request was delivered once has one.   *)
EntriesAreUnderWay ==
    /\ TypeOK
    /\ \A r \in Entries : job[active[r]].req = r /\ job[active[r]].at \in Executing
    /\ \A r \in Requests : \A j \in JobsOf(r) :
         (Cardinality(JobsOf(r)) = 1 /\ job[j].at \in Executing) => active[r] = j

(* The chain hears of a request that was delivered once in the order of its  *)
(* stages, with one end: reports are lost, never swapped or repeated, and an *)
(* end is not taken back.  What stop reports in between is set aside.       *)
Rank(s) == CASE s = "confirmed" -> 1 [] s = "src_confirmed" -> 2 [] OTHER -> 3
StagesInOrder ==
    \A r \in Requests : Cardinality(JobsOf(r)) = 1 =>
        \A a, b \in DOMAIN reports[r] \ Reported(r, "cancelled") :
            a < b => Rank(reports[r][a]) < Rank(reports[r][b])

(* What the service holds and what the chain hears is what happened.         *)
BridgesAreTrue == EntriesAreUnderWay /\ FulfilledIsPaid /\ StagesInOrder

(* Each event delivered is handled to its end, leaving no entry behind that  *)
(* would lower the capacity for good, or comes to wait for a transfer that   *)
(* no block holds.  There it may stay for ever, and its entry with it; once  *)
(* the transfer went through or was reverted, it too comes to its end,       *)
(* whatever was stopped, refused or delivered again (handleBridgeRequest).   *)
Handled(j) == At(j, "done") /\ active[job[j].req] # j
EventsAreHandled ==
    \A j \in Jobs : ~At(j, "idle") /\ ~Unmined(j) ~> Handled(j) \/ Unmined(j)

=============================================================================
