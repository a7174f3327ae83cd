-------------------------- MODULE InstructionRunner --------------------------
(***************************************************************************)
(* The service that runs programs for the calls a node logs                 *)
(* (src/runner/instruction/service.ts, policy.ts).  A timer polls the event  *)
(* log; a poll handles the calls it found one after the other and awaits     *)
(* each of them, while the next polls begin.  A step is what a poll does     *)
(* between two awaits.  ProgramIds run locally or behind HTTP.               *)
(***************************************************************************)
EXTENDS Filters, SequencesExt, Functions

CONSTANTS
    CallEvents,             \* the calls that are logged: [id, program, caller]
    Configured,             \* config.programs: program -> [enabled, kind, maxConcurrent, maxCallsPerHour]
    Changed,                \* what setProgram may be given: [id, config]
    MaxTotalConcurrent, GlobalRateLimitPerHour, PollLimit,      \* of RunnerConfig; of getByKey
    Polls,                  \* bound: polls under way together
    MaxLog                  \* bound: calls in the log

ProgramIds == {e.program : e \in CallEvents}
Callers == {e.caller : e \in CallEvents}
CallIds == {e.id : e \in CallEvents}
Http == {p \in DOMAIN Configured : Configured[p].kind = "http"} \cup {c.id : c \in {c \in Changed : c.config.kind = "http"}}

ASSUME RunnerAssumption ==
    /\ {MaxTotalConcurrent, GlobalRateLimitPerHour, PollLimit, MaxLog} \subseteq Nat
    /\ IsFiniteSet(Polls) /\ IsFiniteSet(ProgramIds)
    /\ {"total", "global"} \cap ProgramIds = {}     \* they stand for the counts over all programs
    /\ \A p \in DOMAIN Configured : {Configured[p].maxConcurrent, Configured[p].maxCallsPerHour} \subseteq Nat
    /\ Cardinality({e.id : e \in {e \in CallEvents : e.program \in Http}}) < Cardinality(Polls)

VARIABLES
    log,        \* the events listed under CALL_LOCAL_REQUEST, oldest first
    on,         \* running
    programs,   \* PolicyEngine.programs
    poll,       \* the calls of pollForEvents under way
    processed,  \* processedCallIds
    runs,       \* executions, by their status
    rates,      \* rateLimits and globalRateLimits: the counts of their windows
    concurrent, \* concurrentByProgram and totalConcurrent
    stats,      \* ProgramStats
    seen        \* history: runs begun and results submitted for each call, requests that a
                \* failing trust service ended, runs begun in the window of each caller

runner == <<log, on, programs, poll, processed, runs, rates, concurrent, stats, seen>>

Windows == (ProgramIds \cup {"global"}) \X Callers
NoPoll == [at |-> "idle", left |-> <<>>, call |-> [id |-> 0, program |-> 0, caller |-> 0], kind |-> "none"]

RunnerInit ==
    /\ log = <<>> /\ on = FALSE /\ programs = Configured
    /\ poll = [n \in Polls |-> NoPoll] /\ processed = {}
    /\ runs = [i \in {} |-> "none"]
    /\ rates = [w \in Windows |-> 0] /\ concurrent = [p \in ProgramIds \cup {"total"} |-> 0]
    /\ stats = [p \in ProgramIds |-> [requests |-> 0, success |-> 0, failure |-> 0, rejected |-> 0]]
    /\ seen = [begun |-> [i \in CallIds |-> 0], submitted |-> [i \in CallIds |-> 0],
               ended |-> [p \in ProgramIds |-> 0], window |-> [c \in Callers |-> 0]]

-----------------------------------------------------------------------------
(* A call is logged, and the last ones leave the log in a reorg.            *)
LogCall(e) ==
    /\ Len(log) < MaxLog /\ ~ Contains(log, e)
    /\ log' = Append(log, e)
    /\ UNCHANGED <<on, programs, poll, processed, runs, rates, concurrent, stats, seen>>

UnlogCall ==
    /\ log # <<>>
    /\ log' = Front(log)
    /\ UNCHANGED <<on, programs, poll, processed, runs, rates, concurrent, stats, seen>>

\* stop ends the timer, and no poll that is under way.
StartRunner ==
    /\ ~ on /\ on' = TRUE
    /\ UNCHANGED <<log, programs, poll, processed, runs, rates, concurrent, stats, seen>>
StopRunner ==
    /\ on /\ on' = FALSE
    /\ UNCHANGED <<log, programs, poll, processed, runs, rates, concurrent, stats, seen>>

SetProgram(c) ==
    /\ programs' = [p \in DOMAIN programs \cup {c.id} |-> IF p = c.id THEN c.config ELSE programs[p]]
    /\ programs' # programs
    /\ UNCHANGED <<log, on, poll, processed, runs, rates, concurrent, stats, seen>>
\* updateConfig loads the programs of the configuration again: those set since are gone.
UpdateConfig ==
    /\ programs # Configured /\ programs' = Configured
    /\ UNCHANGED <<log, on, poll, processed, runs, rates, concurrent, stats, seen>>

\* An hour after its first call the window of a caller is over.
HourPasses(w) ==
    /\ rates[w] > 0
    /\ rates' = [rates EXCEPT ![w] = 0]
    /\ seen' = IF w[1] = "global" THEN [seen EXCEPT !.window[w[2]] = 0] ELSE seen
    /\ UNCHANGED <<log, on, programs, poll, processed, runs, concurrent, stats>>

-----------------------------------------------------------------------------
InWindow == SubSeq(log, IF Len(log) > PollLimit THEN Len(log) - PollLimit + 1 ELSE 1, Len(log))
New(events) == Filtered(events, {e \in CallEvents : e.id \notin processed})
MovesTo(n, at) == poll' = [poll EXCEPT ![n].at = at]

\* (bug) a poll waits for the one before it
PollBug(n) ==
    /\ \A m \in Polls : poll[m] = NoPoll
    /\ on /\ New(InWindow) # <<>>
    /\ poll' = [poll EXCEPT ![n] = [NoPoll EXCEPT !.at = "next", !.left = New(InWindow)]]
    /\ UNCHANGED <<log, on, programs, processed, runs, rates, concurrent, stats, seen>>
\* The timer fires; a poll that finds nothing new ends at once.
Poll(n) ==
    /\ on /\ poll[n] = NoPoll /\ New(InWindow) # <<>>
    /\ poll' = [poll EXCEPT ![n] = [NoPoll EXCEPT !.at = "next", !.left = New(InWindow)]]
    /\ UNCHANGED <<log, on, programs, processed, runs, rates, concurrent, stats, seen>>

Count(p, field) == stats' = [stats EXCEPT ![p][field] = @ + 1]
MarkCall(i, s) == runs' = [j \in DOMAIN runs \cup {i} |-> IF j = i THEN s ELSE runs[j]]

Mark(e) == processed' = processed \cup {e.id}

\* The next call that is not processed, up to the await of its trust tier.
Take(n) ==
    LET todo == New(poll[n].left)
        e == Head(todo)
    IN
    /\ poll[n].at = "next"
    /\ \/ todo = <<>>
          /\ poll' = [poll EXCEPT ![n] = NoPoll]
          /\ UNCHANGED <<processed, runs, stats>>
       \/ todo # <<>> /\ e.program \notin DOMAIN programs
          /\ Mark(e) /\ MarkCall(e.id, "rejected")
          /\ poll' = [poll EXCEPT ![n].left = Tail(todo)]
          /\ UNCHANGED stats
       \/ todo # <<>> /\ e.program \in DOMAIN programs
          /\ Mark(e) /\ Count(e.program, "requests")
          /\ poll' = [poll EXCEPT ![n] = [at |-> "tier", left |-> Tail(todo), call |-> e,
                                           kind |-> programs[e.program].kind]]
          /\ UNCHANGED runs
    /\ UNCHANGED <<log, on, programs, rates, concurrent, seen>>

\* The trust service throws: so does processRequest, and the poll is over.
TierFails(n) ==
    /\ poll[n].at = "tier"
    /\ poll' = [poll EXCEPT ![n] = NoPoll]
    /\ seen' = [seen EXCEPT !.ended[poll[n].call.program] = @ + 1]
    /\ UNCHANGED <<log, on, programs, processed, runs, rates, concurrent, stats>>

\* The limit of a window; a program without one has 0.
Limit(w) == IF w[1] = "global" THEN GlobalRateLimitPerHour ELSE programs[w[1]].maxCallsPerHour
Unlimited(w) == w[1] # "global" /\ Limit(w) = 0
\* checkRateLimit and checkGlobalRateLimit: a window opens with its first call, whatever
\* its limit.
Within(w) == Unlimited(w) \/ rates[w] = 0 \/ rates[w] < Limit(w)
Counted(ws) == [w \in Windows |-> IF w \in ws /\ ~ Unlimited(w) THEN rates[w] + 1 ELSE rates[w]]

\* checkPolicy, as far as the rates, which count calls that are then refused for the
\* executions under way.  Before them it may refuse any call: for its program, its tier,
\* its address or its size.
Admits(e) ==
    /\ e.program \in DOMAIN programs /\ programs[e.program].enabled
    /\ Within(<<e.program, e.caller>>) /\ Within(<<"global", e.caller>>)
    /\ rates' = Counted({<<e.program, e.caller>>, <<"global", e.caller>>})
Refuses(e) ==
    \/ UNCHANGED rates
    \/ /\ e.program \in DOMAIN programs /\ programs[e.program].enabled
       /\ Within(<<e.program, e.caller>>) /\ ~ Within(<<"global", e.caller>>)
       /\ rates' = Counted({<<e.program, e.caller>>})
HasRoom(e) ==
    /\ concurrent[e.program] < programs[e.program].maxConcurrent
    /\ concurrent["total"] < MaxTotalConcurrent

Reject(n) ==
    LET e == poll[n].call IN
    /\ poll[n].at = "tier"
    /\ Refuses(e) \/ (Admits(e) /\ ~ HasRoom(e))
    /\ MarkCall(e.id, "rejected") /\ Count(e.program, "rejected")
    /\ MovesTo(n, "next")
    /\ UNCHANGED <<log, on, programs, processed, concurrent, seen>>

Execute(n) ==
    LET e == poll[n].call IN
    /\ poll[n].at = "tier"
    /\ Admits(e) /\ HasRoom(e)
    /\ MarkCall(e.id, "running")
    /\ concurrent' = [concurrent EXCEPT ![e.program] = @ + 1, !["total"] = @ + 1]
    /\ seen' = [seen EXCEPT !.begun[e.id] = @ + 1, !.window[e.caller] = @ + 1]
    /\ MovesTo(n, "executing")
    /\ UNCHANGED <<log, on, programs, processed, stats>>

\* The service's checkPolicy, which is to run nothing, counts as a call.
DryRun(e) ==
    /\ Refuses(e) \/ Admits(e)
    /\ UNCHANGED <<log, on, programs, poll, processed, runs, concurrent, stats, seen>>

\* (bug) the place is kept by a run whose result could not be submitted
GivenBackBug(e, sent) == IF sent THEN [concurrent EXCEPT ![e.program] = @ - 1, !["total"] = @ - 1] ELSE concurrent
\* recordExecutionEnd, in the finally
GivenBack(e, sent) == [concurrent EXCEPT ![e.program] = @ - 1, !["total"] = @ - 1]

\* executeLocal or executeHttp returns, and its result is to be submitted ...
Executed(n) ==
    LET e == poll[n].call IN
    /\ poll[n].at = "executing"
    /\ \/ MarkCall(e.id, "completed") /\ Count(e.program, "success")
       \/ MarkCall(e.id, "failed") /\ Count(e.program, "failure")
    /\ MovesTo(n, "submitting")
    /\ UNCHANGED <<log, on, programs, processed, rates, concurrent, seen>>

\* ... or throws, and there is nothing to submit.
ExecutionThrows(n) ==
    LET e == poll[n].call IN
    /\ poll[n].at = "executing"
    /\ MarkCall(e.id, "failed") /\ Count(e.program, "failure")
    /\ concurrent' = GivenBack(e, FALSE)
    /\ MovesTo(n, "next")
    /\ UNCHANGED <<log, on, programs, processed, rates, seen>>

\* submitCallResult returns, or throws, which is logged.
Submitted(n) ==
    LET e == poll[n].call IN
    /\ poll[n].at = "submitting"
    /\ \E sent \in BOOLEAN :
          /\ concurrent' = GivenBack(e, sent)
          /\ seen' = IF sent THEN [seen EXCEPT !.submitted[e.id] = @ + 1] ELSE seen
    /\ MovesTo(n, "next")
    /\ UNCHANGED <<log, on, programs, processed, runs, rates, stats>>

PollStep(n) ==
    \/ Take(n) \/ TierFails(n) \/ Reject(n) \/ Execute(n)
    \/ Executed(n) \/ ExecutionThrows(n) \/ Submitted(n)

RunnerNext ==
    \/ \E e \in CallEvents : LogCall(e) \/ DryRun(e)
    \/ UnlogCall \/ StartRunner \/ StopRunner \/ UpdateConfig
    \/ \E c \in Changed : SetProgram(c)
    \/ \E w \in Windows : HourPasses(w)
    \/ \E n \in Polls : Poll(n) \/ PollStep(n)

\* The timer fires, and what is awaited returns: a local program is killed at its
\* timeout.  The timeout of an HTTP program is cleared when the headers are there, so
\* nothing ends the wait for a body.
RunnerFairness ==
    /\ WF_runner(\E n \in Polls : Poll(n))
    /\ \A n \in Polls : WF_runner(PollStep(n) /\ (poll[n].at = "executing" => poll[n].kind = "local"))

RunnerSpec == RunnerInit /\ [][RunnerNext]_runner /\ RunnerFairness

-----------------------------------------------------------------------------
(* Properties.                                                             *)

Holding(stages, p) == {n \in Polls : poll[n].at \in stages /\ poll[n].call.program = p}
Underway == {"executing", "submitting"}

\* However polls overlap, calls are logged twice or programs change, a call is run at
\* most once and its result submitted at most once ...
RunsOnce ==
    \A i \in CallIds :
        /\ seen.begun[i] <= 1 /\ seen.submitted[i] <= seen.begun[i]
        /\ seen.begun[i] = 1 <=> i \in DOMAIN runs /\ runs[i] # "rejected"
        /\ i \in DOMAIN runs /\ runs[i] = "running" <=> \E n \in Polls : poll[n].at = "executing" /\ poll[n].call.id = i

\* ... what is under way is what is counted, within the limits ...
CountsAreRunning ==
    /\ \A p \in ProgramIds : concurrent[p] = Cardinality(Holding(Underway, p))
    /\ concurrent["total"] = SumFunctionOnSet(concurrent, ProgramIds)
    /\ concurrent["total"] <= MaxTotalConcurrent

\* ... every request ends as one of three things, unless the trust service failed ...
RequestsAddUp ==
    \A p \in ProgramIds : LET count == stats[p] IN
        count.requests = count.success + count.failure + count.rejected + seen.ended[p]
                        + Cardinality(Holding({"tier", "executing"}, p))

\* ... and no window sees more runs than its limit, or than one.
RunsAddUp ==
    /\ RunsOnce /\ CountsAreRunning /\ RequestsAddUp
    /\ \A c \in Callers :
          seen.window[c] <= (IF GlobalRateLimitPerHour = 0 THEN 1 ELSE GlobalRateLimitPerHour)

\* A call that the timer can see is processed unless it leaves the last PollLimit ones,
\* and what is begun ends, unless it waits for an HTTP body: other polls go on beside
\* the one that hangs (pollForEvents, processRequest).
Waiting(i) == \E n \in Polls : poll[n].at \in {"tier", "submitting"} /\ poll[n].call.id = i
RunsLocally(i) == \E n \in Polls : poll[n].at = "executing" /\ poll[n].call.id = i /\ poll[n].kind = "local"
Visible(i) == on /\ i \notin processed /\ \E e \in ToSet(InWindow) : e.id = i
CallsSettle ==
    \A i \in CallIds :
        /\ Visible(i) ~> ~ Visible(i)
        /\ Waiting(i) \/ RunsLocally(i) ~> ~ (Waiting(i) \/ RunsLocally(i))
=============================================================================
