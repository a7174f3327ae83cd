---------------------------- MODULE ServiceProofs -----------------------------
(* Proofs about the services that work for the chain: the runner of a bridge    *)
(* provider keeps true books (BridgesAreTrue), the runner of programs runs and   *)
(* counts every call once (RunsAddUp), a store that is exported while it is      *)
(* written is what an importer gets (ImportIsTheExport), and the cache in front  *)
(* of it keeps its limits, its list and its heights (CacheIsSound), and a client  *)
(* of the stream of events misses none unreported (StreamIsWhole), for any        *)
(* requests, calls, programs, polls, batches, chunks, fetches, clients and limits. *)
EXTENDS Bridge, InstructionRunner, Mirror, EventStream, CollectionProofs

(* The runner of a bridge provider.                                            *)

(* The calls of handleBridgeRequest are numbered in the order they are made, and *)
(* a call that was made has its request.                                      *)
Numbered ==
    /\ \E n \in 0..MaxJobs : \A j \in Jobs : At(j, "idle") <=> j > n
    /\ \A j \in Jobs : At(j, "idle") <=> job[j].req = None

(* A transfer exists once its job has come to the call, and the job goes on to   *)
(* report it as fulfilled once it went through only.                          *)
TransfersFollow ==
    \A j \in Jobs : /\ tx[j] # "none" => job[j].at \in {"waiting", "fulfilling", "failing", "done"}
                    /\ At(j, "fulfilling") => tx[j] = "paid"

EntriesRun == \A r \in Entries : job[active[r]].req = r /\ job[active[r]].at \in Executing

(* The execution of the only job of its request is stored while it runs.        *)
Alone(r) == \A i, j \in JobsOf(r) : i = j
AloneIsStored ==
    \A r \in Requests : \A j \in JobsOf(r) : (Alone(r) /\ job[j].at \in Executing) => active[r] = j

(* Jobs that are done account for the reports of fulfilled transfers.           *)
PaidJobs(r) == {j \in JobsOf(r) : tx[j] = "paid"}
Settled(r) == {j \in PaidJobs(r) : At(j, "done")}
SettledCover == \A r \in Requests : Cardinality(Reported(r, "fulfilled")) <= Cardinality(Settled(r))

(* What was said of a request, other than by stop, was said by a job of it that  *)
(* has come at least as far as the report.                                   *)
Said(r) == DOMAIN reports[r] \ Reported(r, "cancelled")
Reach(j) ==
    CASE job[j].at = "monitoring" -> 1
      [] job[j].at \in {"sending", "waiting", "fulfilling", "failing"} -> 2
      [] job[j].at = "done" -> 3
      [] OTHER -> 0
SaidByJobs == \A r \in Requests : \A a \in Said(r) : \E j \in JobsOf(r) : Rank(reports[r][a]) <= Reach(j)
SaidInOrder ==
    \A r \in Requests : Alone(r) =>
        \A a, b \in Said(r) : a < b => Rank(reports[r][a]) < Rank(reports[r][b])

BridgeIInv ==
    /\ TypeOK /\ Numbered /\ TransfersFollow /\ EntriesRun /\ AloneIsStored /\ SettledCover
    /\ SaidByJobs /\ SaidInOrder

-----------------------------------------------------------------------------
JobRecords == [req : Requests \cup {None}, at : Stages]

(* A job that goes to a stage keeps its request, and the others stay.           *)
LEMMA JobMoves ==
    ASSUME TypeOK, NEW j \in Jobs, NEW to \in Stages, Goes(j, to)
    PROVE  /\ job' \in [Jobs -> JobRecords]
           /\ job'[j].at = to /\ job'[j].req = job[j].req
           /\ \A i \in Jobs : i # j => job'[i] = job[i]
           /\ \A i \in Jobs : job'[i].req = job[i].req
           /\ \A r \in Requests : JobsOf(r)' = JobsOf(r)
           /\ \A r \in Requests : Alone(r)' <=> Alone(r)
<1>1. job \in [Jobs -> JobRecords]
  BY DEF TypeOK, JobRecords
<1>2. job' = [job EXCEPT ![j] = [job[j] EXCEPT !.at = to]]
  BY <1>1 DEF Goes
<1>3. job[j] \in JobRecords
  BY <1>1
<1>4. [job[j] EXCEPT !.at = to] \in JobRecords /\ [job[j] EXCEPT !.at = to].at = to /\ [job[j] EXCEPT !.at = to].req = job[j].req
  BY <1>3 DEF JobRecords
<1>5. job' \in [Jobs -> JobRecords]
  BY <1>1, <1>2, <1>4
<1>6. job'[j] = [job[j] EXCEPT !.at = to] /\ \A i \in Jobs : i # j => job'[i] = job[i]
  BY <1>1, <1>2
<1>7. job'[j].at = to /\ job'[j].req = job[j].req
  BY <1>4, <1>6
<1>8. \A i \in Jobs : job'[i].req = job[i].req
  BY <1>6, <1>7
<1>9. \A r \in Requests : JobsOf(r)' = JobsOf(r)
  BY <1>8 DEF JobsOf
<1>10. \A r \in Requests : Alone(r)' <=> Alone(r)
  BY <1>9 DEF Alone
<1> QED BY <1>5, <1>6, <1>7, <1>8, <1>9, <1>10

(* A report is appended to those of its request, or lost.                       *)
LEMMA ReportComes ==
    ASSUME TypeOK, NEW r \in Requests, NEW s \in Statuses, ReportBridgeResult(r, s)
    PROVE  /\ reports' \in [Requests -> Seq(Statuses)] /\ lost' \in 0..MaxLost
           /\ \A q \in Requests : q # r => reports'[q] = reports[q]
           /\ \/ reports'[r] = reports[r]
              \/ reports'[r] = Append(reports[r], s)
<1>1. reports \in [Requests -> Seq(Statuses)] /\ lost \in 0..MaxLost /\ MaxLost \in Nat
  BY BridgeAssumption DEF TypeOK
<1>2. CASE reports' = [reports EXCEPT ![r] = Append(@, s)] /\ UNCHANGED lost
  <2>1. Append(reports[r], s) \in Seq(Statuses)
    BY <1>1
  <2> QED BY <1>1, <1>2, <2>1
<1>3. CASE lost < MaxLost /\ lost' = lost + 1 /\ UNCHANGED reports
  BY <1>1, <1>3
<1> QED BY <1>2, <1>3 DEF ReportBridgeResult

(* A request without a new report has said what it had, and one with it that in  *)
(* addition.                                                                 *)
LEMMA SaidStays ==
    ASSUME NEW q \in Requests, reports'[q] = reports[q]
    PROVE  /\ Said(q)' = Said(q) /\ \A s \in Statuses : Reported(q, s)' = Reported(q, s)
           /\ \A a \in Said(q) : reports'[q][a] = reports[q][a]
  BY DEF Said, Reported

\* What a request is told next comes after everything it was told.
LEMMA SaidGrows ==
    ASSUME TypeOK, NEW r \in Requests, NEW s \in Statuses, reports'[r] = Append(reports[r], s)
    PROVE  LET n == Len(reports[r]) + 1
           IN  /\ n \in Nat /\ \A a \in Said(r) : a \in Nat /\ a < n /\ reports'[r][a] = reports[r][a]
               /\ reports'[r][n] = s
               /\ Said(r)' = IF s = "cancelled" THEN Said(r) ELSE Said(r) \cup {n}
               /\ \A t \in Statuses : Reported(r, t)' = IF t = s THEN Reported(r, t) \cup {n} ELSE Reported(r, t)
<1> DEFINE n == Len(reports[r]) + 1
<1>1. reports[r] \in Seq(Statuses)
  BY DEF TypeOK
<1>2. n \in Nat /\ DOMAIN reports[r] = 1..(n - 1) /\ DOMAIN reports'[r] = 1..n
  BY <1>1
<1>3. reports'[r][n] = s /\ \A a \in 1..(n - 1) : reports'[r][a] = reports[r][a]
  BY <1>1
<1> HIDE DEF n
<1>4. \A t \in Statuses : Reported(r, t)' = IF t = s THEN Reported(r, t) \cup {n} ELSE Reported(r, t)
  <2> TAKE t \in Statuses
  <2>1. Reported(r, t) = {i \in 1..(n - 1) : reports[r][i] = t}
    BY <1>2 DEF Reported
  <2>2. Reported(r, t)' = {i \in 1..n : reports'[r][i] = t}
    BY <1>2 DEF Reported
  <2> QED BY <1>2, <1>3, <2>1, <2>2
<1>5. "cancelled" \in Statuses
  BY DEF Statuses
<1>6. Said(r) = (1..(n - 1)) \ Reported(r, "cancelled") /\ Said(r)' = (1..n) \ Reported(r, "cancelled")'
  BY <1>2 DEF Said
<1>7. Reported(r, "cancelled") \subseteq 1..(n - 1)
  BY <1>2 DEF Reported
<1>8. Said(r)' = IF s = "cancelled" THEN Said(r) ELSE Said(r) \cup {n}
  <2>1. Reported(r, "cancelled")' = IF s = "cancelled" THEN Reported(r, "cancelled") \cup {n} ELSE Reported(r, "cancelled")
    BY <1>4, <1>5
  <2>2. 1..n = (1..(n - 1)) \cup {n} /\ n \notin 1..(n - 1)
    BY <1>2
  <2> QED BY <1>6, <1>7, <2>1, <2>2
<1>9. \A a \in Said(r) : a \in Nat /\ a < n /\ reports'[r][a] = reports[r][a]
  BY <1>2, <1>3, <1>6
<1> QED BY <1>2, <1>3, <1>4, <1>8, <1>9 DEF n

-----------------------------------------------------------------------------
(* A call that was made goes from stage to stage without changing who is who.   *)
LEMMA NumbersKept ==
    ASSUME TypeOK, Numbered, NEW j \in Jobs, NEW to \in Stages, Goes(j, to), ~At(j, "idle"), to # "idle"
    PROVE  Numbered'
<1>1. job'[j].at = to /\ job'[j].req = job[j].req /\ \A i \in Jobs : i # j => job'[i] = job[i]
  BY JobMoves
<1>2. \A i \in Jobs : At(i, "idle")' <=> At(i, "idle")
  BY <1>1 DEF At
<1>3. \A i \in Jobs : job'[i].req = job[i].req
  BY <1>1
<1> QED BY <1>2, <1>3 DEF Numbered

\* Steps that leave the jobs leave their numbering.
LEMMA NumbersUntouched == ASSUME Numbered, UNCHANGED job PROVE Numbered'
  BY DEF Numbered, At

(* A call that was made knows its request.                                      *)
LEMMA JobHasRequest ==
    ASSUME TypeOK, Numbered, NEW j \in Jobs, ~At(j, "idle")
    PROVE  job[j].req \in Requests /\ job[j].at \in Stages \ {"idle"} /\ j \in JobsOf(job[j].req)
<1>1. job[j] \in [req : Requests \cup {None}, at : Stages]
  BY DEF TypeOK
<1>2. job[j].req # None
  BY DEF Numbered
<1> QED BY <1>1, <1>2 DEF At, JobsOf

(* What is said stays in order when a job goes on, saying at most what it has    *)
(* come to with this step.                                                   *)
LEMMA SayingByJob ==
    ASSUME BridgeIInv, NEW j \in Jobs, NEW to \in Stages, Goes(j, to), ~At(j, "idle"),
           NEW s \in Statuses \ {"cancelled"},
           \/ UNCHANGED reports /\ Reach(j) <= Reach(j)'
           \/ ReportBridgeResult(job[j].req, s) /\ Reach(j) < Rank(s) /\ Rank(s) <= Reach(j)'
    PROVE  SaidByJobs' /\ SaidInOrder'
<1>1. TypeOK /\ Numbered /\ SaidByJobs /\ SaidInOrder
  BY DEF BridgeIInv
<1>2. PICK r \in Requests : r = job[j].req /\ j \in JobsOf(r)
  BY <1>1, JobHasRequest
<1>3. /\ \A i \in Jobs : i # j => job'[i] = job[i]
      /\ \A q \in Requests : JobsOf(q)' = JobsOf(q) /\ (Alone(q)' <=> Alone(q))
  BY <1>1, JobMoves
<1>4. \A i \in Jobs : Reach(i) \in Nat /\ Reach(i)' \in Nat
  BY DEF Reach
<1>5. \A t : Rank(t) \in Nat
  BY DEF Rank
<1>6. Reach(j) <= Reach(j)'
  BY <1>4, <1>5
<1>7. \A i \in Jobs : Reach(i) <= Reach(i)'
  BY <1>3, <1>4, <1>6 DEF Reach
<1>8. \A q \in Requests : JobsOf(q) \subseteq Jobs
  BY DEF JobsOf
<1>9. ASSUME NEW q \in Requests, reports'[q] = reports[q]
      PROVE  /\ \A a \in Said(q)' : \E i \in JobsOf(q)' : Rank(reports'[q][a]) <= Reach(i)'
             /\ Alone(q)' => \A a, b \in Said(q)' : a < b => Rank(reports'[q][a]) < Rank(reports'[q][b])
  <2>1. \A a \in Said(q) : \E i \in JobsOf(q) : Rank(reports[q][a]) <= Reach(i)
    BY <1>1 DEF SaidByJobs
  <2>2. Said(q)' = Said(q) /\ JobsOf(q)' = JobsOf(q)
    BY <1>3, <1>9, SaidStays
  <2>3. \A a \in Said(q)' : \E i \in JobsOf(q)' : Rank(reports'[q][a]) <= Reach(i)'
    <3> SUFFICES ASSUME NEW a \in Said(q)
                 PROVE  \E i \in JobsOf(q) : Rank(reports[q][a]) <= Reach(i)'
      BY <1>9, <2>2
    <3>1. PICK i \in JobsOf(q) : Rank(reports[q][a]) <= Reach(i)
      BY <2>1
    <3>2. Rank(reports[q][a]) \in Nat /\ Reach(i) \in Nat /\ Reach(i)' \in Nat /\ Reach(i) <= Reach(i)'
      BY <1>4, <1>5, <1>7, <1>8
    <3> QED BY <3>1, <3>2
  <2>4. Alone(q)' => \A a, b \in Said(q)' : a < b => Rank(reports'[q][a]) < Rank(reports'[q][b])
    BY <1>1, <1>3, <1>9, <2>2 DEF SaidInOrder
  <2> QED BY <2>3, <2>4
<1>10. CASE reports' = reports
  BY <1>9, <1>10 DEF SaidByJobs, SaidInOrder
<1>11. CASE reports' # reports
  <2>1. ReportBridgeResult(r, s) /\ Reach(j) < Rank(s) /\ Rank(s) <= Reach(j)'
    BY <1>2, <1>11
  <2>2. /\ \A q \in Requests : q # r => reports'[q] = reports[q]
        /\ reports'[r] = reports[r] \/ reports'[r] = Append(reports[r], s)
    BY <1>1, <2>1, ReportComes
  <2>3. ASSUME reports'[r] = Append(reports[r], s)
        PROVE  /\ \A a \in Said(r)' : \E i \in JobsOf(r)' : Rank(reports'[r][a]) <= Reach(i)'
               /\ Alone(r)' => \A a, b \in Said(r)' : a < b => Rank(reports'[r][a]) < Rank(reports'[r][b])
    <3>1. PICK n \in Nat : /\ \A a \in Said(r) : a \in Nat /\ a < n /\ reports'[r][a] = reports[r][a]
                           /\ reports'[r][n] = s /\ Said(r)' = Said(r) \cup {n}
      BY <1>1, <2>3, SaidGrows, Zenon
    <3>2. \A a \in Said(r) : \E i \in JobsOf(r) : Rank(reports[r][a]) <= Reach(i)
      BY <1>1 DEF SaidByJobs
    <3>3. ASSUME NEW a \in Said(r)'
          PROVE  \E i \in JobsOf(r)' : Rank(reports'[r][a]) <= Reach(i)'
      <4>1. CASE a = n
        BY <1>2, <1>3, <2>1, <3>1, <4>1
      <4>2. CASE a \in Said(r)
        <5>1. PICK i \in JobsOf(r) : Rank(reports[r][a]) <= Reach(i)
          BY <3>2, <4>2
        <5>2. Rank(reports[r][a]) \in Nat /\ Reach(i) \in Nat /\ Reach(i)' \in Nat /\ Reach(i) <= Reach(i)'
          BY <1>4, <1>5, <1>7, <1>8
        <5>3. Rank(reports'[r][a]) <= Reach(i)'
          BY <3>1, <4>2, <5>1, <5>2
        <5> QED BY <1>3, <5>3
      <4> QED BY <3>1, <4>1, <4>2
    <3>4. ASSUME Alone(r), NEW a \in Said(r)', NEW b \in Said(r)', a < b
          PROVE  Rank(reports'[r][a]) < Rank(reports'[r][b])
      <4>1. a \in Said(r)
        BY <3>1, <3>4
      <4>2. CASE b \in Said(r)
        BY <1>1, <3>1, <3>4, <4>1, <4>2 DEF SaidInOrder
      <4>3. CASE b = n
        <5>1. PICK i \in JobsOf(r) : Rank(reports[r][a]) <= Reach(i)
          BY <3>2, <4>1
        <5>2. i = j
          BY <1>2, <3>4 DEF Alone
        <5>3. Rank(reports[r][a]) \in Nat /\ Reach(j) \in Nat /\ Rank(s) \in Nat
          BY <1>4, <1>5
        <5> QED BY <2>1, <3>1, <4>1, <4>3, <5>1, <5>2, <5>3
      <4> QED BY <3>1, <4>2, <4>3
    <3> QED BY <1>3, <3>3, <3>4
  <2> QED BY <1>9, <2>2, <2>3 DEF SaidByJobs, SaidInOrder
<1> QED BY <1>10, <1>11

(* Steps that no job takes leave who said what and in which order as it is, even *)
(* if stop says something.                                                   *)
LEMMA SayingByStop ==
    ASSUME BridgeIInv, UNCHANGED job,
           UNCHANGED reports \/ \E r \in Requests : ReportBridgeResult(r, "cancelled")
    PROVE  SaidByJobs' /\ SaidInOrder' /\ \A q \in Requests : Reported(q, "fulfilled")' = Reported(q, "fulfilled")
<1>1. TypeOK /\ SaidByJobs /\ SaidInOrder
  BY DEF BridgeIInv
<1>2. {"cancelled", "fulfilled"} \subseteq Statuses
  BY DEF Statuses
<1>3. ASSUME NEW q \in Requests
      PROVE  /\ Said(q)' = Said(q) /\ \A a \in Said(q) : reports'[q][a] = reports[q][a]
             /\ Reported(q, "fulfilled")' = Reported(q, "fulfilled")
  <2>1. reports'[q] = reports[q] \/ reports'[q] = Append(reports[q], "cancelled")
    BY <1>1, <1>2, ReportComes
  <2>2. CASE reports'[q] = reports[q]
    BY <1>2, <2>2, SaidStays
  <2>3. CASE reports'[q] = Append(reports[q], "cancelled")
    BY <1>1, <1>2, <2>3, SaidGrows, Zenon
  <2> QED BY <2>1, <2>2, <2>3
<1>4. \A q \in Requests : JobsOf(q)' = JobsOf(q) /\ (Alone(q)' <=> Alone(q))
  BY DEF JobsOf, Alone
<1>5. \A i \in Jobs : Reach(i)' = Reach(i)
  BY DEF Reach
<1>6. SaidByJobs'
  BY <1>1, <1>3, <1>4, <1>5 DEF SaidByJobs, JobsOf
<1>7. SaidInOrder'
  BY <1>1, <1>3, <1>4 DEF SaidInOrder
<1> QED BY <1>3, <1>6, <1>7

(* A job that neither begins nor ends to be an execution leaves the entries true. *)
LEMMA StoredKept ==
    ASSUME BridgeIInv, NEW j \in Jobs, NEW to \in Stages, Goes(j, to), UNCHANGED active,
           job[j].at \in Executing <=> to \in Executing
    PROVE  EntriesRun' /\ AloneIsStored'
<1>1. TypeOK /\ EntriesRun /\ AloneIsStored
  BY DEF BridgeIInv
<1>2. /\ job'[j].at = to /\ job'[j].req = job[j].req
      /\ \A i \in Jobs : i # j => job'[i] = job[i]
      /\ \A r \in Requests : JobsOf(r)' = JobsOf(r)
      /\ \A r \in Requests : Alone(r)' <=> Alone(r)
  BY <1>1, JobMoves
<1>3. \A i \in Jobs : job'[i].req = job[i].req /\ (job'[i].at \in Executing <=> job[i].at \in Executing)
  BY <1>2
<1>4. Entries' = Entries
  BY DEF Entries
<1>5. \A r \in Entries : active[r] \in Jobs
  BY <1>1 DEF Entries, TypeOK
<1>6. EntriesRun'
  BY <1>1, <1>3, <1>4, <1>5 DEF EntriesRun
<1>7. AloneIsStored'
  BY <1>1, <1>2, <1>3 DEF AloneIsStored, JobsOf
<1> QED BY <1>6, <1>7

\* Steps that leave jobs and entries leave what is stored of them.
LEMMA StoredUntouched ==
    ASSUME EntriesRun, AloneIsStored, UNCHANGED <<job, active>>
    PROVE  EntriesRun' /\ AloneIsStored'
  BY DEF EntriesRun, AloneIsStored, Entries, JobsOf, Alone

(* As long as no fulfilled transfer is reported, settled jobs can only be more.  *)
LEMMA JobsAreFinite ==
    /\ IsFiniteSet(Jobs)
    /\ \A r : IsFiniteSet(Settled(r)) /\ Cardinality(Settled(r)) \in Nat
    /\ \A r : IsFiniteSet(PaidJobs(r)) /\ Cardinality(PaidJobs(r)) \in Nat
    /\ \A r : IsFiniteSet(JobsOf(r))
<1>1. IsFiniteSet(Jobs)
  BY BridgeAssumption, FS_Interval DEF Jobs
<1>2. \A r : JobsOf(r) \in SUBSET Jobs /\ PaidJobs(r) \in SUBSET Jobs /\ Settled(r) \in SUBSET Jobs
  BY DEF JobsOf, PaidJobs, Settled
<1> QED BY <1>1, <1>2, FS_Subset, FS_CardinalityType

\* The reports of a request are finitely many, and the next is not among them.
LEMMA ReportedIsFinite ==
    ASSUME TypeOK, NEW r \in Requests, NEW s
    PROVE  /\ IsFiniteSet(Reported(r, s)) /\ Cardinality(Reported(r, s)) \in Nat
           /\ Len(reports[r]) + 1 \notin Reported(r, s)
<1>1. reports[r] \in Seq(Statuses)
  BY DEF TypeOK
<1>2. DOMAIN reports[r] = 1..Len(reports[r]) /\ Len(reports[r]) \in Nat
  BY <1>1
<1>3. IsFiniteSet(1..Len(reports[r]))
  BY <1>2, FS_Interval
<1>4. Reported(r, s) \in SUBSET (1..Len(reports[r]))
  BY <1>2 DEF Reported
<1> QED BY <1>2, <1>3, <1>4, FS_Subset, FS_CardinalityType

\* A step that reports no fulfilment and unsettles no job keeps the cover.
LEMMA CoverKept ==
    ASSUME BridgeIInv, \A q \in Requests : Reported(q, "fulfilled")' = Reported(q, "fulfilled"),
           \A q \in Requests : Settled(q) \subseteq Settled(q)'
    PROVE  SettledCover'
<1> SUFFICES ASSUME NEW q \in Requests
             PROVE  Cardinality(Reported(q, "fulfilled")') <= Cardinality(Settled(q)')
  BY DEF SettledCover
<1>1. TypeOK /\ SettledCover
  BY DEF BridgeIInv
<1>2. Cardinality(Reported(q, "fulfilled")) <= Cardinality(Settled(q))
  BY <1>1 DEF SettledCover
<1>3. PICK S : S = Settled(q)'
  OBVIOUS
<1>4. S \in SUBSET Jobs
  BY <1>3 DEF Settled, PaidJobs, JobsOf
<1>5. IsFiniteSet(S) /\ Cardinality(S) \in Nat
  BY <1>4, JobsAreFinite, FS_Subset, FS_CardinalityType
<1>6. Cardinality(Settled(q)) <= Cardinality(S)
  <2>1. Settled(q) \in SUBSET S
    BY <1>3
  <2> QED BY <1>5, <2>1, FS_Subset
<1>7. Cardinality(Settled(q)) \in Nat /\ Cardinality(Reported(q, "fulfilled")) \in Nat
  BY <1>1, JobsAreFinite, ReportedIsFinite
<1> QED BY <1>2, <1>3, <1>5, <1>6, <1>7

(* A report that does not say that a transfer went through leaves the count.    *)
LEMMA OtherReport ==
    ASSUME TypeOK, NEW r \in Requests, NEW s \in Statuses \ {"fulfilled"}, ReportBridgeResult(r, s)
    PROVE  \A q \in Requests : Reported(q, "fulfilled")' = Reported(q, "fulfilled")
<1>1. "fulfilled" \in Statuses
  BY DEF Statuses
<1> SUFFICES ASSUME NEW q \in Requests PROVE Reported(q, "fulfilled")' = Reported(q, "fulfilled")
  OBVIOUS
<1>2. \/ reports'[q] = reports[q]
      \/ q = r /\ reports'[q] = Append(reports[q], s)
  BY ReportComes
<1>3. CASE reports'[q] = reports[q]
  BY <1>1, <1>3, SaidStays
<1>4. CASE q = r /\ reports'[q] = Append(reports[q], s)
  BY <1>1, <1>4, SaidGrows, ZenonT(30)
<1> QED BY <1>2, <1>3, <1>4

(* A job that is not done stays settled with the others when it goes on.         *)
LEMMA SettledStays ==
    ASSUME TypeOK, NEW j \in Jobs, NEW to \in Stages, Goes(j, to), ~At(j, "done"),
           \A i \in Jobs : i # j => tx'[i] = tx[i]
    PROVE  \A q \in Requests : Settled(q) \subseteq Settled(q)'
<1>1. /\ \A i \in Jobs : i # j => job'[i] = job[i]
      /\ \A r \in Requests : JobsOf(r)' = JobsOf(r)
  BY JobMoves
<1> SUFFICES ASSUME NEW q \in Requests, NEW i \in Settled(q) PROVE i \in Settled(q)'
  OBVIOUS
<1>2. i \in JobsOf(q) /\ tx[i] = "paid" /\ job[i].at = "done" /\ i # j /\ i \in Jobs
  BY DEF Settled, PaidJobs, At, JobsOf
<1> QED BY <1>1, <1>2 DEF Settled, PaidJobs, At

-----------------------------------------------------------------------------
\* No request, no job and nothing reported.
LEMMA BridgeStarts == Init => BridgeIInv
<1> SUFFICES ASSUME Init PROVE BridgeIInv
  OBVIOUS
<1>1. TypeOK
  <2>1. job \in [Jobs -> [req : Requests \cup {None}, at : Stages]]
    BY DEF Init, Stages
  <2>2. stopping \in [on : BOOLEAN, seen : SUBSET Requests, awaits : Requests \cup {None}]
    BY DEF Init
  <2>3. /\ starts \in 0..MaxStarts /\ subs \in 0..starts
        /\ balance \in 0..Liquidity /\ lost \in 0..MaxLost
    BY BridgeAssumption DEF Init
  <2>4. /\ active \in [Requests -> Jobs \cup {None}]
        /\ tx \in [Jobs -> {"none", "sent", "paid", "reverted"}]
        /\ reports \in [Requests -> Seq(Statuses)]
    BY DEF Init
  <2>5. running \in BOOLEAN /\ connected \in BOOLEAN
    BY DEF Init
  <2> QED BY <2>1, <2>2, <2>3, <2>4, <2>5 DEF TypeOK
<1>2. Entries = {} /\ \A r \in Requests : JobsOf(r) = {}
  BY BridgeAssumption DEF Init, Entries, JobsOf
<1>3. Numbered
  <2>1. MaxJobs \in 0..MaxJobs /\ \A j \in Jobs : At(j, "idle") <=> ~(j > MaxJobs)
    BY BridgeAssumption DEF Init, At, Jobs
  <2>2. 0 \in 0..MaxJobs /\ \A j \in Jobs : At(j, "idle") <=> j > 0
    BY BridgeAssumption DEF Init, At, Jobs
  <2>3. \A j \in Jobs : At(j, "idle") <=> job[j].req = None
    BY DEF Init, At
  <2> QED BY <2>2, <2>3 DEF Numbered
<1>4. TransfersFollow
  BY DEF Init, TransfersFollow, At
<1>5. EntriesRun /\ AloneIsStored
  BY <1>2 DEF EntriesRun, AloneIsStored
<1>6. \A r \in Requests : \A s : Reported(r, s) = {} /\ Said(r) = {}
  BY DEF Init, Reported, Said
<1>7. SettledCover
  <2>1. \A r \in Requests : Cardinality(Reported(r, "fulfilled")) = 0
    BY <1>6, FS_EmptySet
  <2> QED BY <2>1, JobsAreFinite DEF SettledCover
<1>8. SaidByJobs /\ SaidInOrder
  BY <1>6 DEF SaidByJobs, SaidInOrder
<1> QED BY <1>1, <1>3, <1>4, <1>5, <1>7, <1>8 DEF BridgeIInv

(* What the operator, stop and the destination chain do.                        *)
LEMMA StopSteps ==
    ASSUME BridgeIInv, Start \/ Stop \/ StopReported \/ StopEnds \/ \E r \in Requests : StopVisit(r)
    PROVE  BridgeIInv'
<1>1. TypeOK /\ Numbered /\ TransfersFollow /\ EntriesRun /\ AloneIsStored
  BY DEF BridgeIInv
<1>2. UNCHANGED <<job, active, tx, balance>>
  BY DEF Start, Stop, StopReported, StopEnds, StopVisit
<1>3. TypeOK'
  <2>1. MaxStarts \in Nat /\ None \notin Requests /\ "cancelled" \in Statuses
    BY BridgeAssumption DEF Statuses
  <2>2. CASE Start
    <3>1. starts' \in 0..MaxStarts /\ subs' \in 0..starts'
      BY <1>1, <2>1, <2>2 DEF TypeOK, Start
    <3>2. running' \in BOOLEAN /\ connected' \in BOOLEAN
      BY <1>1, <2>2, Zenon DEF TypeOK, Start
    <3> QED BY <1>1, <2>2, <3>1, <3>2 DEF TypeOK, Start
  <2>3. CASE Stop
    BY <1>1, <2>1, <2>3 DEF TypeOK, Stop
  <2>4. CASE StopReported
    <3>1. stopping.awaits \in Requests
      BY <1>1, <2>4 DEF TypeOK, StopReported
    <3>2. reports' \in [Requests -> Seq(Statuses)] /\ lost' \in 0..MaxLost
      <4>1. PICK r \in Requests : r = stopping.awaits
        BY <3>1
      <4>2. ReportBridgeResult(r, "cancelled")
        BY <2>4, <4>1 DEF StopReported
      <4> QED BY <1>1, <2>1, <4>2, ReportComes
    <3>3. stopping' \in [on : BOOLEAN, seen : SUBSET Requests, awaits : Requests \cup {None}]
      BY <1>1, <2>4 DEF TypeOK, StopReported
    <3> QED BY <1>1, <2>4, <3>2, <3>3 DEF TypeOK, StopReported
  <2>5. CASE StopEnds
    BY <1>1, <2>1, <2>5 DEF TypeOK, StopEnds
  <2>6. CASE \E r \in Requests : StopVisit(r)
    <3>1. PICK r \in Requests : StopVisit(r)
      BY <2>6
    <3>2. stopping' \in [on : BOOLEAN, seen : SUBSET Requests, awaits : Requests \cup {None}]
      BY <1>1, <3>1 DEF TypeOK, StopVisit
    <3> QED BY <1>1, <3>1, <3>2 DEF TypeOK, StopVisit
  <2> QED BY <2>2, <2>3, <2>4, <2>5, <2>6
<1>4. UNCHANGED reports \/ \E r \in Requests : ReportBridgeResult(r, "cancelled")
  <2>1. CASE StopReported
    BY <1>1, <2>1 DEF TypeOK, StopReported
  <2> QED BY <2>1 DEF Start, Stop, StopEnds, StopVisit
<1>5. SaidByJobs' /\ SaidInOrder' /\ \A q \in Requests : Reported(q, "fulfilled")' = Reported(q, "fulfilled")
  BY <1>2, <1>4, SayingByStop
<1>6. SettledCover'
  <2>1. \A q \in Requests : Settled(q)' = Settled(q)
    BY <1>2 DEF Settled, PaidJobs, JobsOf, At
  <2> QED BY <1>5, <2>1, CoverKept
<1>7. Numbered' /\ TransfersFollow' /\ EntriesRun' /\ AloneIsStored'
  BY <1>1, <1>2, NumbersUntouched, StoredUntouched DEF TransfersFollow, At
<1> QED BY <1>3, <1>5, <1>6, <1>7 DEF BridgeIInv

\* Mine: the chain pays or reverts what was sent.
LEMMA MineStep == ASSUME BridgeIInv, NEW j \in Jobs, Mine(j) PROVE BridgeIInv'
<1>1. TypeOK /\ Numbered /\ TransfersFollow /\ EntriesRun /\ AloneIsStored
  BY DEF BridgeIInv
<1>2. UNCHANGED <<running, starts, subs, connected, job, active, stopping, lost, reports>> /\ tx[j] = "sent"
  BY DEF Mine
<1>3. tx' = [tx EXCEPT ![j] = "paid"] \/ tx' = [tx EXCEPT ![j] = "reverted"]
  BY DEF Mine
<1>4. tx \in [Jobs -> {"none", "sent", "paid", "reverted"}]
  BY <1>1 DEF TypeOK
<1>5. tx' \in [Jobs -> {"none", "sent", "paid", "reverted"}] /\ \A i \in Jobs : i # j => tx'[i] = tx[i]
  BY <1>3, <1>4
<1>6. ~At(j, "idle")
  BY <1>1, <1>2 DEF TransfersFollow, At
<1>7. balance' \in 0..Liquidity
  <2>1. Amount[job[j].req] \in Nat /\ balance \in 0..Liquidity /\ Liquidity \in Nat
    BY <1>1, <1>6, BridgeAssumption, JobHasRequest DEF TypeOK
  <2> QED BY <2>1 DEF Mine
<1>8. TypeOK'
  BY <1>1, <1>2, <1>5, <1>7 DEF TypeOK
<1>9. TransfersFollow'
  BY <1>1, <1>2, <1>5 DEF TransfersFollow, At
<1>10. SaidByJobs' /\ SaidInOrder' /\ \A q \in Requests : Reported(q, "fulfilled")' = Reported(q, "fulfilled")
  BY <1>2, SayingByStop
<1>11. SettledCover'
  <2>1. \A q \in Requests : Settled(q) \subseteq Settled(q)'
    BY <1>2, <1>5 DEF Settled, PaidJobs, JobsOf, At
  <2> QED BY <1>10, <2>1, CoverKept
<1> QED BY <1>1, <1>2, <1>8, <1>9, <1>10, <1>11, NumbersUntouched, StoredUntouched DEF BridgeIInv

(* The calls that an event makes are idle ones, the next in their order.         *)
LEMMA FreshJobs ==
    ASSUME BridgeIInv, Fresh \subseteq Jobs
    PROVE  /\ \A j \in Fresh : At(j, "idle")
           /\ \E n \in 0..MaxJobs : \A j \in Jobs : (At(j, "idle") /\ j \notin Fresh) <=> j > n
<1>1. TypeOK /\ Numbered /\ MaxJobs \in Nat
  BY BridgeAssumption DEF BridgeIInv
<1>2. PICK n \in 0..MaxJobs : \A j \in Jobs : At(j, "idle") <=> j > n
  BY <1>1 DEF Numbered
<1>3. {j \in Jobs : ~At(j, "idle")} = 1..n
  BY <1>1, <1>2 DEF Jobs
<1>4. Cardinality(1..n) = n
  BY <1>1, <1>2, FS_Interval
<1>5. Fresh = n + 1 .. n + subs /\ subs \in Nat
  <2>1. subs \in Nat
    BY <1>1, BridgeAssumption DEF TypeOK
  <2> QED BY <1>3, <1>4, <2>1 DEF Fresh
<1>6. \A j \in Fresh : At(j, "idle")
  BY <1>1, <1>2, <1>5
<1>7. CASE subs = 0
  <2>1. Fresh = {}
    BY <1>1, <1>2, <1>5, <1>7
  <2> QED BY <1>2, <1>6, <2>1
<1>8. CASE subs > 0
  <2>1. n + subs \in Fresh
    BY <1>1, <1>2, <1>5, <1>8
  <2>2. n + subs \in 0..MaxJobs
    BY <1>1, <1>2, <1>5, <2>1 DEF Jobs
  <2>3. \A j \in Jobs : (At(j, "idle") /\ j \notin Fresh) <=> j > n + subs
    BY <1>1, <1>2, <1>5, <1>8 DEF Jobs
  <2> QED BY <1>6, <2>2, <2>3
<1> QED BY <1>5, <1>7, <1>8

\* Deliver: a request is handed to the listeners, which start its jobs.
LEMMA DeliverStep == ASSUME BridgeIInv, NEW r \in Requests, Deliver(r) PROVE BridgeIInv'
<1>1. TypeOK /\ Numbered /\ TransfersFollow /\ EntriesRun /\ AloneIsStored /\ SaidByJobs /\ SaidInOrder
  BY DEF BridgeIInv
<1>2. /\ UNCHANGED <<running, starts, subs, connected, active, stopping, tx, balance, lost, reports>>
      /\ Fresh \subseteq Jobs
  BY DEF Deliver
<1>3. PICK F : F = Fresh
  OBVIOUS
<1>4. \A j \in F : At(j, "idle") /\ j \in Jobs
  BY <1>2, <1>3, FreshJobs
<1>5. PICK stage \in {"checking", "refusing"} :
        job' = [j \in Jobs |-> IF j \notin F THEN job[j] ELSE [req |-> r, at |-> stage]]
  <2>1. CASE r \in InRange /\ connected
    BY <1>3, <2>1 DEF Deliver
  <2>2. CASE ~(r \in InRange /\ connected)
    BY <1>3, <2>2 DEF Deliver
  <2> QED BY <2>1, <2>2
<1>6. /\ \A j \in F : job'[j].req = r /\ job'[j].at = stage
      /\ \A j \in Jobs \ F : job'[j] = job[j]
  BY <1>4, <1>5
<1>7. \A j \in F : job[j].at = "idle" /\ job[j].req = None /\ job[j].at \notin Executing
  BY <1>1, <1>4 DEF Numbered, At, Executing
<1>8. TypeOK'
  <2>1. job' \in [Jobs -> [req : Requests \cup {None}, at : Stages]]
    BY <1>1, <1>5 DEF TypeOK, Stages
  <2> QED BY <1>1, <1>2, <2>1 DEF TypeOK
<1>9. Numbered'
  <2>1. \A j \in Jobs : At(j, "idle")' <=> At(j, "idle") /\ j \notin F
    BY <1>4, <1>6 DEF At
  <2>2. \A j \in Jobs : At(j, "idle")' <=> job'[j].req = None
    <3> TAKE j \in Jobs
    <3>1. CASE j \in F
      BY <1>6, <3>1, BridgeAssumption DEF At
    <3>2. CASE j \notin F
      BY <1>1, <1>6, <3>2 DEF At, Numbered
    <3> QED BY <3>1, <3>2
  <2>3. PICK n \in 0..MaxJobs : \A j \in Jobs : (At(j, "idle") /\ j \notin F) <=> j > n
    BY <1>2, <1>3, FreshJobs
  <2>4. \A j \in Jobs : At(j, "idle")' <=> j > n
    BY <2>1, <2>3
  <2> QED BY <2>2, <2>4 DEF Numbered
<1>10. TransfersFollow'
  BY <1>1, <1>2, <1>6, <1>7 DEF TransfersFollow, At
<1>11. \A q \in Requests : JobsOf(q) \subseteq JobsOf(q)'
  <2> SUFFICES ASSUME NEW q \in Requests, NEW j \in JobsOf(q) PROVE j \in JobsOf(q)'
    OBVIOUS
  <2>1. j \in Jobs /\ job[j].req = q /\ q # None
    BY BridgeAssumption DEF JobsOf
  <2>2. j \notin F
    BY <1>7, <2>1
  <2> QED BY <1>6, <2>1, <2>2 DEF JobsOf
<1>12. \A q \in Requests : Alone(q)' => Alone(q)
  BY <1>11 DEF Alone
<1>13. EntriesRun'
  <2> SUFFICES ASSUME NEW q \in Entries' PROVE job'[active'[q]].req = q /\ job'[active'[q]].at \in Executing
    BY DEF EntriesRun
  <2>1. q \in Entries /\ active'[q] = active[q] /\ active[q] \in Jobs
    BY <1>1, <1>2 DEF Entries, TypeOK
  <2>2. job[active[q]].req = q /\ job[active[q]].at \in Executing
    BY <1>1, <2>1 DEF EntriesRun
  <2>3. active[q] \notin F
    BY <1>7, <2>2
  <2> QED BY <1>6, <2>1, <2>2, <2>3
<1>14. AloneIsStored'
  <2> SUFFICES ASSUME NEW q \in Requests, NEW j \in JobsOf(q)', Alone(q)', job'[j].at \in Executing
               PROVE  active'[q] = j
    BY DEF AloneIsStored
  <2>1. j \in Jobs /\ job'[j].req = q
    BY DEF JobsOf
  <2>2. j \notin F
    BY <1>6 DEF Executing
  <2>3. j \in JobsOf(q) /\ job[j].at \in Executing
    BY <1>6, <2>1, <2>2 DEF JobsOf
  <2> QED BY <1>1, <1>2, <1>12, <2>3 DEF AloneIsStored
<1>15. \A q \in Requests : Said(q)' = Said(q)
  BY <1>2 DEF Said, Reported
<1>16. SaidByJobs'
  <2> SUFFICES ASSUME NEW q \in Requests, NEW a \in Said(q)
               PROVE  \E j \in JobsOf(q)' : Rank(reports'[q][a]) <= Reach(j)'
    BY <1>15 DEF SaidByJobs
  <2>1. PICK j \in JobsOf(q) : Rank(reports[q][a]) <= Reach(j)
    BY <1>1 DEF SaidByJobs
  <2>2. j \in Jobs \ F
    BY <1>7, BridgeAssumption DEF JobsOf
  <2>3. Reach(j)' = Reach(j)
    BY <1>6, <2>2 DEF Reach
  <2> QED BY <1>2, <1>11, <2>1, <2>3
<1>17. SaidInOrder'
  BY <1>1, <1>2, <1>12, <1>15 DEF SaidInOrder
<1>18. SettledCover'
  <2>1. \A q \in Requests : Settled(q) \subseteq Settled(q)'
    <3> SUFFICES ASSUME NEW q \in Requests, NEW j \in Settled(q) PROVE j \in Settled(q)'
      OBVIOUS
    <3>1. j \in JobsOf(q) /\ tx[j] = "paid" /\ job[j].at = "done" /\ j \in Jobs
      BY DEF Settled, PaidJobs, At, JobsOf
    <3>2. j \notin F
      BY <1>7, <3>1
    <3> QED BY <1>2, <1>6, <1>11, <3>1, <3>2 DEF Settled, PaidJobs, At
  <2>2. \A q \in Requests : Reported(q, "fulfilled")' = Reported(q, "fulfilled")
    BY <1>2 DEF Reported
  <2> QED BY <2>1, <2>2, CoverKept
<1> QED BY <1>8, <1>9, <1>10, <1>13, <1>14, <1>16, <1>17, <1>18 DEF BridgeIInv

-----------------------------------------------------------------------------
(* What a job does between its beginning and its end as an execution.           *)
LEMMA JobFrame ==
    ASSUME BridgeIInv, NEW j \in Jobs, NEW to \in Stages \ {"idle"}, Goes(j, to), ~At(j, "idle"), ~At(j, "done"),
           UNCHANGED <<running, starts, subs, connected, stopping, balance>>,
           active' \in [Requests -> Jobs \cup {None}],
           tx' \in [Jobs -> {"none", "sent", "paid", "reverted"}],
           \A i \in Jobs : i # j => tx'[i] = tx[i],
           tx'[j] # "none" => to \in {"waiting", "fulfilling", "failing", "done"},
           to = "fulfilling" => tx'[j] = "paid",
           UNCHANGED <<reports, lost>> \/ \E r \in Requests, s \in Statuses : ReportBridgeResult(r, s)
    PROVE  TypeOK' /\ Numbered' /\ TransfersFollow'
<1>1. TypeOK /\ Numbered /\ TransfersFollow
  BY DEF BridgeIInv
<1>2. /\ job' \in [Jobs -> JobRecords] /\ job'[j].at = to
      /\ \A i \in Jobs : i # j => job'[i] = job[i]
  BY <1>1, JobMoves
<1>3. reports' \in [Requests -> Seq(Statuses)] /\ lost' \in 0..MaxLost
  <2>1. CASE UNCHANGED <<reports, lost>>
    BY <1>1, <2>1 DEF TypeOK
  <2>2. CASE \E r \in Requests, s \in Statuses : ReportBridgeResult(r, s)
    BY <1>1, <2>2, ReportComes
  <2> QED BY <2>1, <2>2
<1>4. TypeOK'
  BY <1>1, <1>2, <1>3 DEF TypeOK, JobRecords
<1>5. Numbered'
  BY <1>1, NumbersKept
<1>6. TransfersFollow'
  BY <1>1, <1>2 DEF TransfersFollow, At
<1> QED BY <1>4, <1>5, <1>6

\* A job goes on to its next stage, reporting nothing but failures or stages before the transfer.
LEMMA PlainStep ==
    ASSUME BridgeIInv, NEW j \in Jobs, NEW to \in Stages \ {"idle"}, Goes(j, to), ~At(j, "idle"), ~At(j, "done"),
           UNCHANGED <<running, starts, subs, connected, active, stopping, balance>>,
           tx' \in [Jobs -> {"none", "sent", "paid", "reverted"}],
           \A i \in Jobs : i # j => tx'[i] = tx[i],
           tx'[j] # "none" => to \in {"waiting", "fulfilling", "failing", "done"},
           to = "fulfilling" => tx'[j] = "paid",
           job[j].at \in Executing <=> to \in Executing,
           NEW s \in Statuses \ {"cancelled", "fulfilled"},
           \/ UNCHANGED <<reports, lost>> /\ Reach(j) <= Reach(j)'
           \/ ReportBridgeResult(job[j].req, s) /\ Reach(j) < Rank(s) /\ Rank(s) <= Reach(j)'
    PROVE  BridgeIInv'
<1>1. TypeOK /\ Numbered
  BY DEF BridgeIInv
<1>2. PICK r \in Requests : r = job[j].req
  BY <1>1, JobHasRequest
<1>3. UNCHANGED <<reports, lost>> \/ ReportBridgeResult(r, s)
  BY <1>2
<1>4. active' \in [Requests -> Jobs \cup {None}]
  BY <1>1 DEF TypeOK
<1>5. TypeOK' /\ Numbered' /\ TransfersFollow'
  BY <1>3, <1>4, JobFrame
<1>6. EntriesRun' /\ AloneIsStored'
  BY StoredKept
<1>7. SaidByJobs' /\ SaidInOrder'
  BY SayingByJob
<1>8. \A q \in Requests : Settled(q) \subseteq Settled(q)'
  BY <1>1, SettledStays
<1>9. \A q \in Requests : Reported(q, "fulfilled")' = Reported(q, "fulfilled")
  <2>1. CASE UNCHANGED <<reports, lost>>
    BY <2>1 DEF Reported
  <2>2. CASE ReportBridgeResult(r, s)
    BY <1>1, <2>2, OtherReport
  <2> QED BY <1>3, <2>1, <2>2
<1>10. SettledCover'
  BY <1>8, <1>9, CoverKept
<1> QED BY <1>5, <1>6, <1>7, <1>10 DEF BridgeIInv

\* Which stages and statuses there are, and the order they are reported in.
LEMMA StageFacts ==
    /\ {"funded", "valid", "refusing", "confirming", "monitoring", "sending", "waiting", "fulfilling", "failing", "done"}
         \subseteq Stages \ {"idle"}
    /\ {"failed", "confirmed", "src_confirmed"} \subseteq Statuses \ {"cancelled", "fulfilled"}
    /\ "fulfilled" \in Statuses \ {"cancelled"}
    /\ Rank("confirmed") = 1 /\ Rank("src_confirmed") = 2 /\ Rank("failed") = 3 /\ Rank("fulfilled") = 3
  BY DEF Stages, Executing, Statuses, Rank

\* CheckLiquidity, Validate, Confirm, Refuse, Monitor, Send and Wait are such steps.
LEMMA PlainSteps ==
    ASSUME BridgeIInv, NEW j \in Jobs,
           CheckLiquidity(j) \/ Validate(j) \/ Confirm(j) \/ Refuse(j) \/ Monitor(j) \/ Send(j) \/ Wait(j)
    PROVE  BridgeIInv'
<1>1. TypeOK /\ Numbered /\ TransfersFollow
  BY DEF BridgeIInv
<1>2. tx \in [Jobs -> {"none", "sent", "paid", "reverted"}]
  BY <1>1 DEF TypeOK
<1>3. ASSUME NEW to \in Stages, Goes(j, to) PROVE job'[j].at = to
  BY <1>1, <1>3, JobMoves
<1>4. ASSUME NEW from \in {"checking", "funded"}, NEW to \in {"funded", "valid", "refusing"}, At(j, from), Goes(j, to),
             UNCHANGED <<running, starts, subs, connected, active, stopping, tx, balance, lost, reports>>
      PROVE  BridgeIInv'
  <2>1. to \in Stages \ {"idle"} /\ job[j].at = from /\ job'[j].at = to
    BY <1>3, <1>4, StageFacts DEF At
  <2>2. Reach(j) <= Reach(j)' /\ (job[j].at \in Executing <=> to \in Executing) /\ ~At(j, "idle") /\ ~At(j, "done")
    BY <1>4, <2>1 DEF Reach, Executing, At
  <2>3. tx[j] = "none"
    BY <1>1, <1>2, <2>1 DEF TransfersFollow
  <2> QED BY <1>2, <1>4, <2>1, <2>2, <2>3, StageFacts, PlainStep
<1>5. CASE CheckLiquidity(j) \/ Validate(j)
  <2>1. CASE CheckLiquidity(j)
    BY <1>4, <2>1 DEF CheckLiquidity
  <2>2. CASE Validate(j)
    BY <1>4, <2>2 DEF Validate
  <2> QED BY <1>5, <2>1, <2>2
<1>6. CASE Confirm(j)
  <2>1. Goes(j, "monitoring") /\ job[j].at = "confirming" /\ job'[j].at = "monitoring"
    BY <1>3, <1>6, StageFacts DEF At, Confirm
  <2>2. /\ Reach(j) = 0 /\ Reach(j)' = 1 /\ ~At(j, "idle") /\ ~At(j, "done")
        /\ job[j].at \in Executing /\ "monitoring" \in Executing
    BY <2>1 DEF Reach, Executing, At
  <2>3. tx[j] = "none"
    BY <1>1, <1>2, <2>1 DEF TransfersFollow
  <2> QED BY <1>2, <1>6, <2>1, <2>2, <2>3, StageFacts, PlainStep DEF Confirm
<1>7. CASE Refuse(j)
  <2>1. Goes(j, "done") /\ job[j].at = "refusing" /\ job'[j].at = "done"
    BY <1>3, <1>7, StageFacts DEF At, Refuse
  <2>2. /\ Reach(j) = 0 /\ Reach(j)' = 3 /\ ~At(j, "idle") /\ ~At(j, "done")
        /\ job[j].at \notin Executing /\ "done" \notin Executing
    BY <2>1 DEF Reach, Executing, At
  <2> QED BY <1>2, <1>7, <2>1, <2>2, StageFacts, PlainStep DEF Refuse
<1>8. CASE Monitor(j)
  <2>1. Goes(j, "sending") /\ job[j].at = "monitoring" /\ job'[j].at = "sending"
    BY <1>3, <1>8, StageFacts DEF At, Monitor
  <2>2. /\ Reach(j) = 1 /\ Reach(j)' = 2 /\ ~At(j, "idle") /\ ~At(j, "done")
        /\ job[j].at \in Executing /\ "sending" \in Executing
    BY <2>1 DEF Reach, Executing, At
  <2>3. tx[j] = "none"
    BY <1>1, <1>2, <2>1 DEF TransfersFollow
  <2> QED BY <1>2, <1>8, <2>1, <2>2, <2>3, StageFacts, PlainStep DEF Monitor
<1>9. CASE Send(j)
  <2>1. PICK to \in {"waiting", "failing"} : Goes(j, to)
    BY <1>9 DEF Send
  <2>2. to \in Stages \ {"idle"} /\ job[j].at = "sending" /\ job'[j].at = to
    BY <1>3, <1>9, <2>1, StageFacts DEF At, Send
  <2>3. /\ Reach(j) = 2 /\ Reach(j)' = 2 /\ ~At(j, "idle") /\ ~At(j, "done")
        /\ job[j].at \in Executing /\ to \in Executing
    BY <2>1, <2>2 DEF Reach, Executing, At
  <2>4. /\ tx' \in [Jobs -> {"none", "sent", "paid", "reverted"}]
        /\ \A i \in Jobs : i # j => tx'[i] = tx[i]
    BY <1>2, <1>9 DEF Send
  <2> QED BY <1>9, <2>1, <2>2, <2>3, <2>4, StageFacts, PlainStep DEF Send
<1>10. CASE Wait(j)
  <2>1. PICK to \in {"fulfilling", "failing"} : Goes(j, to) /\ (to = "fulfilling" => tx[j] = "paid")
    BY <1>10 DEF Wait, Confirmed
  <2>2. to \in Stages \ {"idle"} /\ job[j].at = "waiting" /\ job'[j].at = to
    BY <1>3, <1>10, <2>1, StageFacts DEF At, Wait
  <2>3. /\ Reach(j) = 2 /\ Reach(j)' = 2 /\ ~At(j, "idle") /\ ~At(j, "done")
        /\ job[j].at \in Executing /\ to \in Executing
    BY <2>1, <2>2 DEF Reach, Executing, At
  <2> QED BY <1>2, <1>10, <2>1, <2>2, <2>3, StageFacts, PlainStep DEF Wait
<1> QED BY <1>5, <1>6, <1>7, <1>8, <1>9, <1>10

(* An execution is stored in place of another of its request: that one is not    *)
(* alone.                                                                    *)
LEMMA RegisterStep == ASSUME BridgeIInv, NEW j \in Jobs, Register(j) PROVE BridgeIInv'
<1>1. TypeOK /\ Numbered /\ TransfersFollow /\ EntriesRun /\ AloneIsStored
  BY DEF BridgeIInv
<1>2. /\ Goes(j, "confirming") /\ job[j].at = "valid"
      /\ UNCHANGED <<running, starts, subs, connected, stopping, tx, balance, lost, reports>>
  BY DEF Register, At
<1>3. PICK r \in Requests : r = job[j].req
  BY <1>1, <1>2, JobHasRequest DEF At
<1>4. active' = [active EXCEPT ![r] = j] /\ active \in [Requests -> Jobs \cup {None}]
  BY <1>1, <1>3 DEF Register, TypeOK
<1>5. active' \in [Requests -> Jobs \cup {None}] /\ active'[r] = j /\ \A q \in Requests : q # r => active'[q] = active[q]
  BY <1>4
<1>6. /\ job'[j].at = "confirming" /\ job'[j].req = r
      /\ \A i \in Jobs : i # j => job'[i] = job[i]
      /\ \A q \in Requests : JobsOf(q)' = JobsOf(q) /\ (Alone(q)' <=> Alone(q))
  BY <1>1, <1>2, <1>3, StageFacts, JobMoves
<1>7. Reach(j) <= Reach(j)'
  BY <1>2, <1>6 DEF Reach
<1>8. tx \in [Jobs -> {"none", "sent", "paid", "reverted"}] /\ tx[j] = "none"
  BY <1>1, <1>2 DEF TypeOK, TransfersFollow
<1>9. ~At(j, "idle") /\ ~At(j, "done")
  BY <1>2 DEF At
<1>10. TypeOK' /\ Numbered' /\ TransfersFollow'
  BY <1>2, <1>5, <1>8, <1>9, StageFacts, JobFrame
<1>11. SaidByJobs' /\ SaidInOrder'
  BY <1>2, <1>7, <1>9, StageFacts, SayingByJob
<1>12. SettledCover'
  <2>1. \A q \in Requests : Settled(q) \subseteq Settled(q)'
    BY <1>1, <1>2, <1>9, StageFacts, SettledStays
  <2>2. \A q \in Requests : Reported(q, "fulfilled")' = Reported(q, "fulfilled")
    BY <1>2 DEF Reported
  <2> QED BY <2>1, <2>2, CoverKept
<1>13. None \notin Jobs /\ "confirming" \in Executing
  BY BridgeAssumption DEF Jobs, Executing
<1>14. EntriesRun'
  <2> SUFFICES ASSUME NEW q \in Entries' PROVE job'[active'[q]].req = q /\ job'[active'[q]].at \in Executing
    BY DEF EntriesRun
  <2>1. CASE q = r
    BY <1>5, <1>6, <1>13, <2>1
  <2>2. CASE q # r
    <3>1. q \in Entries /\ active'[q] = active[q] /\ active[q] \in Jobs
      BY <1>4, <1>5, <2>2 DEF Entries
    <3>2. job[active[q]].req = q /\ job[active[q]].at \in Executing
      BY <1>1, <3>1 DEF EntriesRun
    <3>3. active[q] # j
      BY <1>3, <2>2, <3>2
    <3> QED BY <1>6, <3>1, <3>2, <3>3
  <2> QED BY <2>1, <2>2
<1>15. AloneIsStored'
  <2> SUFFICES ASSUME NEW q \in Requests, NEW i \in JobsOf(q), Alone(q), job'[i].at \in Executing
               PROVE  active'[q] = i
    BY <1>6 DEF AloneIsStored
  <2>1. i \in Jobs /\ job[i].req = q
    BY DEF JobsOf
  <2>2. CASE i = j
    BY <1>3, <1>5, <2>1, <2>2
  <2>3. CASE i # j
    <3>1. active[q] = i
      BY <1>1, <1>6, <2>1, <2>3 DEF AloneIsStored
    <3>2. q # r
      BY <1>3, <2>3 DEF Alone, JobsOf
    <3> QED BY <1>5, <3>1, <3>2
  <2> QED BY <2>2, <2>3
<1> QED BY <1>10, <1>11, <1>12, <1>14, <1>15 DEF BridgeIInv

(* The end of an execution deletes the entry of its request, and its own         *)
(* transfer answers for its report.                                          *)
LEMMA FinishStep == ASSUME BridgeIInv, NEW j \in Jobs, Finish(j) PROVE BridgeIInv'
<1>1. TypeOK /\ Numbered /\ TransfersFollow /\ EntriesRun /\ AloneIsStored /\ SettledCover
  BY DEF BridgeIInv
<1>2. /\ Goes(j, "done") /\ job[j].at \in {"fulfilling", "failing"}
      /\ UNCHANGED <<running, starts, subs, connected, tx, balance>>
  BY DEF Finish, At
<1>3. PICK r \in Requests : r = job[j].req
  BY <1>1, <1>2, JobHasRequest DEF At
<1>4. active' = [active EXCEPT ![r] = None] /\ active \in [Requests -> Jobs \cup {None}]
  BY <1>1, <1>3 DEF Finish, TypeOK
<1>5. active' \in [Requests -> Jobs \cup {None}] /\ active'[r] = None /\ \A q \in Requests : q # r => active'[q] = active[q]
  BY <1>4
<1>6. /\ job' \in [Jobs -> JobRecords]
      /\ job'[j].at = "done" /\ job'[j].req = r
      /\ \A i \in Jobs : i # j => job'[i] = job[i]
      /\ \A q \in Requests : JobsOf(q)' = JobsOf(q) /\ (Alone(q)' <=> Alone(q))
  BY <1>1, <1>2, <1>3, StageFacts, JobMoves
<1>7. Reach(j) = 2 /\ Reach(j)' = 3 /\ ~At(j, "idle") /\ ~At(j, "done")
  BY <1>2, <1>6 DEF Reach, At
<1>8. PICK s \in {"fulfilled", "failed"} :
        ReportBridgeResult(r, s) /\ (s = "fulfilled" => job[j].at = "fulfilling")
  BY <1>3 DEF Finish, At
<1>9. s \in Statuses \ {"cancelled"} /\ Rank(s) = 3
  BY <1>8, StageFacts
<1>10. /\ reports' \in [Requests -> Seq(Statuses)] /\ lost' \in 0..MaxLost
       /\ \A q \in Requests : q # r => reports'[q] = reports[q]
       /\ reports'[r] = reports[r] \/ reports'[r] = Append(reports[r], s)
  BY <1>1, <1>8, <1>9, ReportComes
<1>11. TypeOK'
  <2>1. stopping' \in [on : BOOLEAN, seen : SUBSET Requests, awaits : Requests \cup {None}]
    BY <1>1 DEF Finish, TypeOK
  <2> QED BY <1>1, <1>2, <1>5, <1>6, <1>10, <2>1 DEF TypeOK, JobRecords
<1>12. Numbered'
  BY <1>1, <1>2, <1>7, StageFacts, NumbersKept
<1>13. TransfersFollow'
  BY <1>1, <1>2, <1>6 DEF TransfersFollow, At
<1>14. SaidByJobs' /\ SaidInOrder'
  BY <1>2, <1>3, <1>7, <1>8, <1>9, StageFacts, SayingByJob
<1>15. EntriesRun'
  <2> SUFFICES ASSUME NEW q \in Entries' PROVE job'[active'[q]].req = q /\ job'[active'[q]].at \in Executing
    BY DEF EntriesRun
  <2>1. q # r
    BY <1>5 DEF Entries
  <2>2. q \in Entries /\ active'[q] = active[q] /\ active[q] \in Jobs
    BY <1>4, <1>5, <2>1 DEF Entries
  <2>3. job[active[q]].req = q /\ job[active[q]].at \in Executing
    BY <1>1, <2>2 DEF EntriesRun
  <2>4. active[q] # j
    BY <1>3, <2>1, <2>3
  <2> QED BY <1>6, <2>2, <2>3, <2>4
<1>16. AloneIsStored'
  <2> SUFFICES ASSUME NEW q \in Requests, NEW i \in JobsOf(q), Alone(q), job'[i].at \in Executing
               PROVE  active'[q] = i
    BY <1>6 DEF AloneIsStored
  <2>1. i \in Jobs /\ job[i].req = q
    BY DEF JobsOf
  <2>2. i # j
    BY <1>6 DEF Executing
  <2>3. active[q] = i
    BY <1>1, <1>6, <2>1, <2>2 DEF AloneIsStored
  <2>4. q # r
    BY <1>3, <2>2 DEF Alone, JobsOf
  <2> QED BY <1>5, <2>3, <2>4
<1>17. SettledCover'
  <2>1. \A q \in Requests : Settled(q) \subseteq Settled(q)'
    BY <1>1, <1>2, <1>7, StageFacts, SettledStays
  <2>2. CASE \A q \in Requests : Reported(q, "fulfilled")' = Reported(q, "fulfilled")
    BY <2>1, <2>2, CoverKept
  <2>3. CASE s = "fulfilled" /\ reports'[r] = Append(reports[r], s)
    <3>1. PICK n : n = Len(reports[r]) + 1 /\ Reported(r, "fulfilled")' = Reported(r, "fulfilled") \cup {n}
      BY <1>1, <2>3, StageFacts, SaidGrows, Zenon
    <3>2. PICK A, B : A = Reported(r, "fulfilled") /\ B = Settled(r)
      OBVIOUS
    <3>3. PICK B2 : B2 = Settled(r)'
      OBVIOUS
    <3>4. j \in B2 /\ j \notin B /\ B \cup {j} \subseteq B2
      <4>1. j \in JobsOf(r)
        BY <1>3 DEF JobsOf
      <4>2. tx[j] = "paid"
        BY <1>1, <1>8, <2>3 DEF TransfersFollow, At
      <4>3. j \in B2
        BY <1>2, <1>6, <3>3, <4>1, <4>2 DEF Settled, PaidJobs, At
      <4>4. j \notin B
        BY <1>7, <3>2 DEF Settled
      <4> QED BY <2>1, <3>2, <3>3, <4>3, <4>4
    <3>5. Cardinality(A \cup {n}) = Cardinality(A) + 1 /\ Cardinality(A) \in Nat
      BY <1>1, <3>1, <3>2, ReportedIsFinite, FS_AddElement
    <3>6. Cardinality(B) + 1 <= Cardinality(B2) /\ Cardinality(B) \in Nat /\ Cardinality(B2) \in Nat
      <4>1. B2 \in SUBSET Jobs
        BY <3>3 DEF Settled, PaidJobs, JobsOf
      <4>2. IsFiniteSet(B2) /\ Cardinality(B2) \in Nat
        BY <4>1, JobsAreFinite, FS_Subset, FS_CardinalityType
      <4>3. IsFiniteSet(B) /\ Cardinality(B) \in Nat
        BY <3>2, JobsAreFinite
      <4>4. Cardinality(B \cup {j}) = Cardinality(B) + 1
        BY <3>4, <4>3, FS_AddElement
      <4>5. Cardinality(B \cup {j}) <= Cardinality(B2)
        BY <3>4, <4>2, FS_Subset
      <4> QED BY <4>2, <4>3, <4>4, <4>5
    <3>7. Cardinality(A) <= Cardinality(B)
      BY <1>1, <3>2 DEF SettledCover
    <3>8. Cardinality(Reported(r, "fulfilled")') <= Cardinality(Settled(r)')
      <4>1. Cardinality(A) + 1 <= Cardinality(B2)
        BY <3>5, <3>6, <3>7
      <4>2. Cardinality(A \cup {n}) <= Cardinality(B2)
        BY <3>5, <4>1
      <4>3. Reported(r, "fulfilled")' = A \cup {n}
        BY <3>1, <3>2
      <4> QED BY <3>3, <4>2, <4>3, Zenon
    <3>9. ASSUME NEW q \in Requests, q # r
          PROVE  Cardinality(Reported(q, "fulfilled")') <= Cardinality(Settled(q)')
      <4>1. Reported(q, "fulfilled")' = Reported(q, "fulfilled")
        BY <1>10, <3>9, StageFacts, SaidStays
      <4>2. Settled(q)' = Settled(q)
        <5>1. j \notin JobsOf(q)
          BY <1>3, <3>9 DEF JobsOf
        <5>2. JobsOf(q)' = JobsOf(q) /\ JobsOf(q) \subseteq Jobs
          BY <1>6 DEF JobsOf
        <5>3. \A i \in JobsOf(q) : i # j /\ i \in Jobs /\ job'[i] = job[i]
          BY <1>6, <5>1, <5>2
        <5> QED BY <1>2, <5>2, <5>3 DEF Settled, PaidJobs, At
      <4> QED BY <1>1, <4>1, <4>2 DEF SettledCover
    <3> QED BY <3>8, <3>9 DEF SettledCover
  <2>4. CASE s # "fulfilled"
    BY <1>1, <1>8, <1>9, <2>2, <2>4, OtherReport
  <2>5. CASE reports'[r] = reports[r]
    <3>1. \A q \in Requests : Reported(q, "fulfilled")' = Reported(q, "fulfilled")
      BY <1>10, <2>5, StageFacts, SaidStays
    <3> QED BY <2>2, <3>1
  <2> QED BY <1>10, <2>3, <2>4, <2>5
<1> QED BY <1>11, <1>12, <1>13, <1>14, <1>15, <1>16, <1>17 DEF BridgeIInv

-----------------------------------------------------------------------------
\* Every step keeps the invariant.
LEMMA BridgeStep == BridgeIInv /\ [Next]_vars => BridgeIInv'
<1> SUFFICES ASSUME BridgeIInv, [Next]_vars PROVE BridgeIInv'
  OBVIOUS
<1>1. CASE Start \/ Stop \/ StopStep
  BY <1>1, StopSteps DEF StopStep
<1>2. CASE \E r \in Requests : Deliver(r)
  BY <1>2, DeliverStep
<1>3. CASE \E j \in Jobs : HandleBridgeRequest(j) \/ ExecuteBridge(j) \/ Mine(j)
  <2>1. PICK j \in Jobs : HandleBridgeRequest(j) \/ ExecuteBridge(j) \/ Mine(j)
    BY <1>3
  <2>2. CASE CheckLiquidity(j) \/ Validate(j) \/ Confirm(j) \/ Refuse(j) \/ Monitor(j) \/ Send(j) \/ Wait(j)
    BY <2>2, PlainSteps
  <2> QED BY <2>1, <2>2, RegisterStep, FinishStep, MineStep DEF HandleBridgeRequest, ExecuteBridge
<1>4. CASE UNCHANGED vars
  <2>1. UNCHANGED <<job, active, tx, reports>>
    BY <1>4 DEF vars
  <2>2. TypeOK' /\ Numbered' /\ TransfersFollow' /\ EntriesRun' /\ AloneIsStored'
    BY <1>4, <2>1, NumbersUntouched, StoredUntouched DEF BridgeIInv, TypeOK, vars, TransfersFollow, At
  <2>3. SaidByJobs' /\ SaidInOrder' /\ \A q \in Requests : Reported(q, "fulfilled")' = Reported(q, "fulfilled")
    BY <2>1, SayingByStop
  <2>4. \A q \in Requests : Settled(q) \subseteq Settled(q)'
    BY <2>1 DEF Settled, PaidJobs, JobsOf, At
  <2> QED BY <2>2, <2>3, <2>4, CoverKept DEF BridgeIInv
<1> QED BY <1>1, <1>2, <1>3, <1>4 DEF Next

(* One job of a request is alone.                                               *)
LEMMA OneIsAlone == ASSUME NEW r, Cardinality(JobsOf(r)) = 1 PROVE Alone(r)
<1>1. PICK x : JobsOf(r) = {x}
  BY JobsAreFinite, FS_Singleton
<1> QED BY <1>1 DEF Alone

\* What the invariant says of the bridge.
LEMMA BridgeImplies == BridgeIInv => BridgesAreTrue
<1> SUFFICES ASSUME BridgeIInv PROVE BridgesAreTrue
  OBVIOUS
<1>1. TypeOK /\ EntriesRun /\ AloneIsStored /\ SettledCover /\ SaidInOrder
  BY DEF BridgeIInv
<1>2. EntriesAreUnderWay
  <2>1. \A r \in Entries : job[active[r]].req = r /\ job[active[r]].at \in Executing
    BY <1>1 DEF EntriesRun
  <2>2. ASSUME NEW r \in Requests, NEW j \in JobsOf(r), Cardinality(JobsOf(r)) = 1, job[j].at \in Executing
        PROVE  active[r] = j
    BY <1>1, <2>2, OneIsAlone DEF AloneIsStored
  <2> QED BY <1>1, <2>1, <2>2 DEF EntriesAreUnderWay
<1>3. FulfilledIsPaid
  <2> SUFFICES ASSUME NEW r \in Requests
               PROVE  Cardinality(Reported(r, "fulfilled")) <= Cardinality(PaidJobs(r))
    BY DEF FulfilledIsPaid, PaidJobs
  <2>1. Settled(r) \in SUBSET PaidJobs(r)
    BY DEF Settled
  <2>2. /\ Cardinality(Settled(r)) <= Cardinality(PaidJobs(r))
        /\ Cardinality(Settled(r)) \in Nat /\ Cardinality(PaidJobs(r)) \in Nat
    BY <2>1, JobsAreFinite, FS_Subset
  <2>3. Cardinality(Reported(r, "fulfilled")) <= Cardinality(Settled(r)) /\ Cardinality(Reported(r, "fulfilled")) \in Nat
    BY <1>1, ReportedIsFinite DEF SettledCover
  <2> QED BY <2>2, <2>3
<1>4. StagesInOrder
  BY <1>1, OneIsAlone DEF StagesInOrder, SaidInOrder, Said
<1> QED BY <1>2, <1>3, <1>4 DEF BridgesAreTrue

(* Whatever is delivered again, lost, stopped or reverted, in any interleaving   *)
(* of the calls: the entries of activeBridges are executions under way, no      *)
(* request is reported as fulfilled more often than it was paid, and the        *)
(* stages of a request are reported in order (runner.ts, handleBridgeRequest    *)
(* and executeBridge).                                                       *)
THEOREM BridgeBooksAreTrue == Spec => []BridgesAreTrue
<1>1. Spec => []BridgeIInv
  BY BridgeStarts, BridgeStep, PTL DEF Spec
<1> QED BY <1>1, BridgeImplies, PTL

-----------------------------------------------------------------------------
(* The runner of programs.                                                      *)

(* The types. A busy poll has a call; the others keep the last one they had.      *)
PollStages == {"idle", "next", "tier", "executing", "submitting"}
Busy == {"tier", "executing", "submitting"}
ConfigValues == {Configured[p] : p \in DOMAIN Configured} \cup {c.config : c \in Changed}
Kinds == {c.kind : c \in ConfigValues} \cup {"none"}
PollRecord == [at : PollStages, left : Seq(CallEvents), call : CallEvents \cup {NoPoll.call}, kind : Kinds]
PollTypes ==
    /\ log \in Seq(CallEvents)
    /\ \A p \in DOMAIN programs : programs[p] \in ConfigValues
    /\ poll \in [Polls -> PollRecord]
    /\ \A n \in Polls : poll[n].at \in Busy => poll[n].call \in CallEvents
    /\ processed \subseteq CallIds
NumberTypes ==
    /\ rates \in [Windows -> Nat] /\ concurrent \in [ProgramIds \cup {"total"} -> Nat]
    /\ stats \in [ProgramIds -> [requests : Nat, success : Nat, failure : Nat, rejected : Nat]]
    /\ seen \in [begun : [CallIds -> Nat], submitted : [CallIds -> Nat],
                 ended : [ProgramIds -> Nat], window : [Callers -> Nat]]
(* A call is in the hands of one poll, is processed by then, and has a run as     *)
(* far as that poll has come.                                                 *)
OneHolder ==
    /\ \A n \in Polls : poll[n].at \in Busy => poll[n].call.id \in processed
    /\ \A n, m \in Polls : poll[n].at \in Busy /\ poll[m].at \in Busy /\ poll[n].call.id = poll[m].call.id => n = m
RunsByStage ==
    /\ runs \in [DOMAIN runs -> {"rejected", "running", "completed", "failed"}] /\ DOMAIN runs \subseteq processed
    /\ \A n \in Polls : LET i == poll[n].call.id IN
          /\ poll[n].at = "tier" => i \notin DOMAIN runs
          /\ poll[n].at = "executing" => i \in DOMAIN runs /\ runs[i] = "running"
          /\ poll[n].at = "submitting" => i \in DOMAIN runs /\ runs[i] \in {"completed", "failed"}
    /\ \A i \in DOMAIN runs : runs[i] = "running" => \E n \in Polls : poll[n].at = "executing" /\ poll[n].call.id = i
(* What is remembered of a call is what its run says.                            *)
HistoryOfRuns ==
    /\ \A i \in CallIds : seen.begun[i] = IF i \in DOMAIN runs /\ runs[i] # "rejected" THEN 1 ELSE 0
    /\ \A i \in CallIds : seen.submitted[i] <= seen.begun[i]
    /\ \A n \in Polls : poll[n].at \in Busy => seen.submitted[poll[n].call.id] = 0
(* A window counts the runs of its caller at least.                              *)
CallsCounted == [c \in Callers |-> rates[<<"global", c>>]]
MostCalls == IF GlobalRateLimitPerHour = 0 THEN 1 ELSE GlobalRateLimitPerHour
WindowsCover ==
    \A c \in Callers : seen.window[c] <= CallsCounted[c] /\ CallsCounted[c] <= MostCalls
RunnerIInv ==
    /\ PollTypes /\ NumberTypes /\ OneHolder /\ RunsByStage /\ HistoryOfRuns /\ WindowsCover
    /\ CountsAreRunning /\ RequestsAddUp

LEMMA RunnerNumbers ==
    /\ MaxTotalConcurrent \in Nat /\ GlobalRateLimitPerHour \in Nat
    /\ IsFiniteSet(Polls) /\ IsFiniteSet(ProgramIds)
    /\ "total" \notin ProgramIds /\ "global" \notin ProgramIds
BY RunnerAssumption

(* What is held changes with the poll that moves, and its count by one at most.  *)
LEMMA HeldIsFinite ==
    ASSUME NEW S, NEW p
    PROVE  IsFiniteSet(Holding(S, p)) /\ Cardinality(Holding(S, p)) \in Nat
<1>1. Holding(S, p) \subseteq Polls
  BY DEF Holding
<1> QED BY <1>1, RunnerNumbers, FS_Subset, FS_CardinalityType

LEMMA HeldMoves ==
    ASSUME NEW n \in Polls, \A m \in Polls \ {n} : poll'[m] = poll[m], NEW S, NEW p
    PROVE  Cardinality(Holding(S, p)') = Cardinality(Holding(S, p))
               - (IF poll[n].at \in S /\ poll[n].call.program = p THEN 1 ELSE 0)
               + (IF poll'[n].at \in S /\ poll'[n].call.program = p THEN 1 ELSE 0)
<1> DEFINE old == Holding(S, p)
           new == Holding(S, p)'
           rest == {m \in Polls \ {n} : poll[m].at \in S /\ poll[m].call.program = p}
           was == poll[n].at \in S /\ poll[n].call.program = p
           is == poll'[n].at \in S /\ poll'[n].call.program = p
<1>1. new = {m \in Polls : poll'[m].at \in S /\ poll'[m].call.program = p}
  BY DEF Holding
<1>2. old = {m \in Polls : poll[m].at \in S /\ poll[m].call.program = p}
  BY DEF Holding
<1>3. rest \subseteq Polls /\ n \notin rest /\ IsFiniteSet(rest) /\ Cardinality(rest) \in Nat
  <2>1. rest \subseteq Polls /\ n \notin rest
    OBVIOUS
  <2> QED BY <2>1, RunnerNumbers, FS_Subset, FS_CardinalityType
<1>4. old = IF was THEN rest \cup {n} ELSE rest
  BY <1>2, Zenon
<1>5. new = IF is THEN rest \cup {n} ELSE rest
  <2>1. \A m \in Polls : m # n => poll'[m] = poll[m]
    OBVIOUS
  <2> QED BY <1>1, <2>1, Zenon
<1>6. Cardinality(rest \cup {n}) = Cardinality(rest) + 1
  BY <1>3, FS_AddElement
<1> HIDE DEF old, new, rest, was, is
<1>7. Cardinality(old) = Cardinality(rest) + (IF was THEN 1 ELSE 0)
  BY <1>3, <1>4, <1>6
<1>8. Cardinality(new) = Cardinality(rest) + (IF is THEN 1 ELSE 0)
  BY <1>3, <1>5, <1>6
<1>9. Cardinality(new) = Cardinality(old) - (IF was THEN 1 ELSE 0) + (IF is THEN 1 ELSE 0)
  BY <1>3, <1>7, <1>8
<1> QED BY <1>9 DEF old, new, was, is

(* What New leaves of the calls are calls, none of them processed.               *)
LEMMA NewCalls ==
    ASSUME NEW s \in Seq(CallEvents)
    PROVE  /\ New(s) \in Seq(CallEvents)
           /\ New(s) # <<>> => /\ Head(New(s)) \in CallEvents /\ Head(New(s)).id \notin processed
                               /\ Tail(New(s)) \in Seq(CallEvents)
<1> DEFINE S == {e \in CallEvents : e.id \notin processed}
<1>1. PICK t : t = New(s)
  OBVIOUS
<1>2. t = Filtered(s, S)
  BY <1>1 DEF New
<1>3. t \in Seq(CallEvents) /\ \A k \in DOMAIN t : \E i \in DOMAIN s : t[k] = s[i] /\ s[i] \in S
  <2> HIDE DEF S
  <2> QED BY <1>2, FilteredProperties
<1>4. ASSUME t # <<>> PROVE Head(t) \in CallEvents /\ Head(t).id \notin processed /\ Tail(t) \in Seq(CallEvents)
  <2>1. 1 \in DOMAIN t /\ Head(t) = t[1] /\ Tail(t) \in Seq(CallEvents)
    BY <1>3, <1>4
  <2> QED BY <1>3, <2>1
<1> QED BY <1>1, <1>3, <1>4

LEMMA NoPollTyped == NoPoll \in PollRecord /\ NoPoll.at = "idle"
BY EmptySeq DEF NoPoll, PollRecord, PollStages, Kinds

(* Steps that run nothing leave what is counted of the runs.                     *)
LEMMA RunsUntouched ==
    ASSUME OneHolder, RunsByStage, HistoryOfRuns, CountsAreRunning, RequestsAddUp,
           UNCHANGED <<poll, processed, runs, concurrent, stats>>,
           seen'.begun = seen.begun, seen'.submitted = seen.submitted, seen'.ended = seen.ended
    PROVE  OneHolder' /\ RunsByStage' /\ HistoryOfRuns' /\ CountsAreRunning' /\ RequestsAddUp'
<1>1. \A S, p : Holding(S, p)' = Holding(S, p)
  BY DEF Holding
<1>2. OneHolder' /\ RunsByStage'
  BY DEF OneHolder, RunsByStage
<1>3. HistoryOfRuns'
  BY DEF HistoryOfRuns
<1>4. CountsAreRunning'
  BY <1>1 DEF CountsAreRunning, Underway
<1>5. RequestsAddUp'
  BY <1>1 DEF RequestsAddUp
<1> QED BY <1>2, <1>3, <1>4, <1>5

LEMMA RunnerStarts == RunnerInit => RunnerIInv
<1> SUFFICES ASSUME RunnerInit PROVE RunnerIInv
  OBVIOUS
<1> USE DEF RunnerInit
<1>0. \A n \in Polls : poll[n] = NoPoll /\ poll[n].at = "idle"
  BY NoPollTyped
<1>1. PollTypes
  BY <1>0, NoPollTyped, EmptySeq DEF PollTypes, ConfigValues, Busy
<1>2. NumberTypes
  BY DEF NumberTypes
<1>3. OneHolder /\ RunsByStage
  BY <1>0 DEF OneHolder, RunsByStage, Busy
<1>4. HistoryOfRuns
  BY <1>0 DEF HistoryOfRuns, Busy
<1>5. WindowsCover
  <2>1. \A c \in Callers : <<"global", c>> \in Windows
    BY DEF Windows
  <2>2. \A c \in Callers : CallsCounted[c] = 0 /\ seen.window[c] = 0
    BY <2>1 DEF CallsCounted
  <2> HIDE DEF RunnerInit
  <2> QED BY <2>2, RunnerNumbers DEF WindowsCover, MostCalls
<1>6. \A S, p : "idle" \notin S => Holding(S, p) = {}
  BY <1>0 DEF Holding
<1>7. Cardinality({}) = 0
  BY FS_EmptySet
<1>8. CountsAreRunning
  <2>1. \A p \in ProgramIds : concurrent[p] = 0
    BY RunnerNumbers
  <2>2. SumFunctionOnSet(concurrent, ProgramIds) = 0
    BY <2>1, RunnerNumbers, SumOfZeros
  <2>3. concurrent["total"] = 0
    OBVIOUS
  <2>4. \A p : Cardinality(Holding(Underway, p)) = 0
    BY <1>6, <1>7 DEF Underway
  <2> HIDE DEF RunnerInit
  <2> QED BY <2>1, <2>2, <2>3, <2>4, RunnerNumbers DEF CountsAreRunning
<1>9. RequestsAddUp
  <2>1. \A p : Cardinality(Holding({"tier", "executing"}, p)) = 0
    BY <1>6, <1>7
  <2>2. \A p \in ProgramIds : /\ stats[p] = [requests |-> 0, success |-> 0, failure |-> 0, rejected |-> 0]
                              /\ seen.ended[p] = 0
    OBVIOUS
  <2> HIDE DEF RunnerInit
  <2> QED BY <2>1, <2>2 DEF RequestsAddUp
<1> QED BY <1>1, <1>2, <1>3, <1>4, <1>5, <1>8, <1>9 DEF RunnerIInv

(* The log and the programs change beside the polls.                             *)
LEMMA LogSteps ==
    ASSUME RunnerIInv,
           \/ \E e \in CallEvents : LogCall(e)
           \/ UnlogCall \/ StartRunner \/ StopRunner
    PROVE  RunnerIInv'
<1> USE DEF RunnerIInv
<1>1. UNCHANGED <<programs, poll, processed, runs, rates, concurrent, stats, seen>>
  BY DEF LogCall, UnlogCall, StartRunner, StopRunner
<1>2. log' \in Seq(CallEvents)
  BY DEF Front, PollTypes, LogCall, UnlogCall, StartRunner, StopRunner
<1>3. PollTypes'
  BY <1>1, <1>2 DEF PollTypes
<1>4. NumberTypes' /\ WindowsCover'
  BY <1>1 DEF NumberTypes, WindowsCover, CallsCounted
<1> QED BY <1>1, <1>3, <1>4, RunsUntouched

LEMMA ProgramSteps ==
    ASSUME RunnerIInv, UpdateConfig \/ \E c \in Changed : SetProgram(c)
    PROVE  RunnerIInv'
<1> USE DEF RunnerIInv
<1>1. UNCHANGED <<log, poll, processed, runs, rates, concurrent, stats, seen>>
  BY DEF UpdateConfig, SetProgram
<1>2. \A p \in DOMAIN programs' : programs'[p] \in ConfigValues
  <2>1. CASE UpdateConfig
    BY <2>1 DEF UpdateConfig, ConfigValues
  <2>2. ASSUME NEW c \in Changed, SetProgram(c) PROVE \A p \in DOMAIN programs' : programs'[p] \in ConfigValues
    <3>1. c.config \in ConfigValues
      BY DEF ConfigValues
    <3> QED BY <2>2, <3>1 DEF SetProgram, PollTypes
  <2> QED BY <2>1, <2>2
<1>3. PollTypes'
  BY <1>1, <1>2 DEF PollTypes
<1>4. NumberTypes' /\ WindowsCover'
  BY <1>1 DEF NumberTypes, WindowsCover, CallsCounted
<1> QED BY <1>1, <1>3, <1>4, RunsUntouched

(* The windows.                                                                *)
LEMMA HourPassesStep == ASSUME RunnerIInv, NEW w \in Windows, HourPasses(w) PROVE RunnerIInv'
<1> USE DEF RunnerIInv
<1>1. UNCHANGED <<log, programs, poll, processed, runs, concurrent, stats>> /\ rates' = [rates EXCEPT ![w] = 0]
  BY DEF HourPasses
<1>2. seen' = IF w[1] = "global" THEN [seen EXCEPT !.window[w[2]] = 0] ELSE seen
  BY DEF HourPasses
<1>3. /\ seen'.begun = seen.begun /\ seen'.submitted = seen.submitted /\ seen'.ended = seen.ended
      /\ seen'.window = IF w[1] = "global" THEN [seen.window EXCEPT ![w[2]] = 0] ELSE seen.window
      /\ seen' \in [begun : [CallIds -> Nat], submitted : [CallIds -> Nat],
                    ended : [ProgramIds -> Nat], window : [Callers -> Nat]]
  BY <1>2 DEF NumberTypes
<1>4. PollTypes' /\ NumberTypes'
  BY <1>1, <1>3 DEF PollTypes, NumberTypes
<1>5. WindowsCover'
  <2> SUFFICES ASSUME NEW c \in Callers
               PROVE  seen'.window[c] <= CallsCounted'[c] /\ CallsCounted'[c] <= MostCalls
    BY DEF WindowsCover
  <2>1. <<"global", c>> \in Windows /\ w = <<w[1], w[2]>>
    BY DEF Windows
  <2>2. CASE w = <<"global", c>>
    <3>1. seen'.window[c] = 0 /\ CallsCounted'[c] = 0
      BY <1>1, <1>3, <2>1, <2>2 DEF NumberTypes, CallsCounted
    <3> QED BY <3>1, RunnerNumbers DEF MostCalls
  <2>3. CASE w # <<"global", c>>
    <3>1. seen'.window[c] = seen.window[c] /\ CallsCounted'[c] = CallsCounted[c]
      BY <1>1, <1>3, <2>1, <2>3 DEF NumberTypes, CallsCounted
    <3> QED BY <3>1 DEF WindowsCover
  <2> QED BY <2>2, <2>3
<1> QED BY <1>1, <1>3, <1>4, <1>5, RunsUntouched

(* What a check of the policy may do to the windows: those of the callers stay      *)
(* within the limit, and an admitted call counts in the one of its caller.         *)
LEMMA CountedWindows ==
    ASSUME NumberTypes, NEW ws
    PROVE  /\ Counted(ws) \in [Windows -> Nat]
           /\ \A c \in Callers : Counted(ws)[<<"global", c>>] = (IF <<"global", c>> \in ws THEN CallsCounted[c] + 1 ELSE CallsCounted[c])
<1>1. \A w \in Windows : Counted(ws)[w] = (IF w \in ws /\ ~ Unlimited(w) THEN rates[w] + 1 ELSE rates[w]) /\ rates[w] \in Nat
  BY DEF Counted, NumberTypes
<1>2. Counted(ws) \in [Windows -> Nat]
  <2>1. Counted(ws) = [w \in Windows |-> Counted(ws)[w]]
    BY DEF Counted
  <2>2. \A w \in Windows : Counted(ws)[w] \in Nat
    BY <1>1
  <2> HIDE DEF Counted
  <2> QED BY <2>1, <2>2
<1>3. ASSUME NEW c \in Callers
      PROVE  Counted(ws)[<<"global", c>>] = (IF <<"global", c>> \in ws THEN CallsCounted[c] + 1 ELSE CallsCounted[c])
  <2>1. PICK w : w = <<"global", c>>
    OBVIOUS
  <2>2. w \in Windows /\ w[1] = "global"
    BY <2>1 DEF Windows
  <2>3. ~ Unlimited(w)
    BY <2>2 DEF Unlimited
  <2>4. Counted(ws)[w] = (IF w \in ws THEN rates[w] + 1 ELSE rates[w])
    BY <1>1, <2>2, <2>3
  <2> QED BY <2>1, <2>4 DEF CallsCounted
<1> QED BY <1>2, <1>3

LEMMA RatesAdmitted ==
    ASSUME NumberTypes, WindowsCover, NEW e \in CallEvents, Admits(e)
    PROVE  /\ rates' \in [Windows -> Nat] /\ e.caller \in Callers
           /\ \A c \in Callers : /\ CallsCounted[c] \in Nat
                                 /\ CallsCounted'[c] = CallsCounted[c] + (IF c = e.caller THEN 1 ELSE 0)
                                 /\ CallsCounted'[c] <= MostCalls
<1> DEFINE ws == {<<e.program, e.caller>>, <<"global", e.caller>>}
<1>0. e.caller \in Callers /\ e.program \in ProgramIds /\ e.program # "global"
  BY RunnerNumbers DEF Callers, ProgramIds
<1>1. rates' = Counted(ws) /\ Within(<<"global", e.caller>>)
  BY DEF Admits
<1>2. \A c : <<"global", c>> \in ws <=> c = e.caller
  BY <1>0
<1> HIDE DEF ws
<1>3. rates' \in [Windows -> Nat]
  BY <1>1, CountedWindows
<1>4. \A c \in Callers : CallsCounted[c] \in Nat /\ CallsCounted[c] <= MostCalls
  BY DEF Windows, NumberTypes, CallsCounted, WindowsCover
<1>5. CallsCounted[e.caller] = 0 \/ CallsCounted[e.caller] < GlobalRateLimitPerHour
  <2>1. PICK w : w = <<"global", e.caller>>
    OBVIOUS
  <2>2. w[1] = "global" /\ rates[w] = CallsCounted[e.caller]
    BY <1>0, <2>1 DEF CallsCounted
  <2>3. Within(w)
    BY <1>1, <2>1
  <2> QED BY <2>2, <2>3 DEF Within, Unlimited, Limit
<1>6. \A c \in Callers : CallsCounted'[c] = (IF <<"global", c>> \in ws THEN CallsCounted[c] + 1 ELSE CallsCounted[c])
  <2>1. \A c \in Callers : CallsCounted'[c] = Counted(ws)[<<"global", c>>]
    BY <1>1 DEF CallsCounted
  <2>2. \A c \in Callers : Counted(ws)[<<"global", c>>] = (IF <<"global", c>> \in ws THEN CallsCounted[c] + 1 ELSE CallsCounted[c])
    BY CountedWindows
  <2> QED BY <2>1, <2>2, Zenon
<1>7. ASSUME NEW c \in Callers
      PROVE  CallsCounted'[c] = CallsCounted[c] + (IF c = e.caller THEN 1 ELSE 0) /\ CallsCounted'[c] <= MostCalls
  <2>0. CallsCounted'[c] = (IF c = e.caller THEN CallsCounted[c] + 1 ELSE CallsCounted[c])
    BY <1>2, <1>6, Zenon
  <2>1. CallsCounted'[c] = CallsCounted[c] + (IF c = e.caller THEN 1 ELSE 0)
    BY <1>4, <2>0
  <2>2. CASE c = e.caller
    BY <1>4, <1>5, <2>1, <2>2, RunnerNumbers DEF MostCalls
  <2>3. CASE c # e.caller
    BY <1>4, <2>1, <2>3
  <2> QED BY <2>1, <2>2, <2>3
<1> QED BY <1>0, <1>3, <1>4, <1>7

LEMMA RatesRefused ==
    ASSUME NumberTypes, WindowsCover, NEW e \in CallEvents, Refuses(e)
    PROVE  rates' \in [Windows -> Nat] /\ CallsCounted' = CallsCounted
<1> DEFINE ws == {<<e.program, e.caller>>}
<1>0. e.program \in ProgramIds /\ e.program # "global"
  BY RunnerNumbers DEF ProgramIds
<1>1. \A c : <<"global", c>> \notin ws
  BY <1>0
<1>2. CASE UNCHANGED rates
  BY <1>2 DEF NumberTypes, CallsCounted
<1>3. CASE rates' = Counted(ws)
  <2> HIDE DEF ws
  <2>2. \A c \in Callers : Counted(ws)[<<"global", c>>] = (IF <<"global", c>> \in ws THEN CallsCounted[c] + 1 ELSE CallsCounted[c])
    BY CountedWindows
  <2>4. \A c \in Callers : Counted(ws)[<<"global", c>>] = CallsCounted[c]
    BY <1>1, <2>2, Zenon
  <2>5. CallsCounted' = [c \in Callers |-> Counted(ws)[<<"global", c>>]]
    BY <1>3 DEF CallsCounted
  <2>6. CallsCounted = [c \in Callers |-> CallsCounted[c]]
    BY DEF CallsCounted
  <2>7. CallsCounted' = CallsCounted
    BY <2>4, <2>5, <2>6, Zenon
  <2> QED BY <1>3, <2>7, CountedWindows
<1> QED BY <1>2, <1>3 DEF Refuses

(* A check that runs nothing.                                                    *)
LEMMA DryRunStep == ASSUME RunnerIInv, NEW e \in CallEvents, DryRun(e) PROVE RunnerIInv'
<1> USE DEF RunnerIInv
<1>1. UNCHANGED <<log, programs, poll, processed, runs, concurrent, stats, seen>> /\ (Refuses(e) \/ Admits(e))
  BY DEF DryRun
<1>2. rates' \in [Windows -> Nat] /\ \A c \in Callers : CallsCounted[c] \in Nat /\ CallsCounted[c] <= CallsCounted'[c] /\ CallsCounted'[c] <= MostCalls
  <2>1. CASE Admits(e)
    <3>1. ASSUME NEW c \in Callers PROVE CallsCounted[c] \in Nat /\ CallsCounted[c] <= CallsCounted'[c] /\ CallsCounted'[c] <= MostCalls
      <4>1. CallsCounted[c] \in Nat /\ CallsCounted'[c] <= MostCalls /\ CallsCounted'[c] = CallsCounted[c] + (IF c = e.caller THEN 1 ELSE 0)
        BY <2>1, RatesAdmitted
      <4> QED BY <4>1
    <3> QED BY <2>1, <3>1, RatesAdmitted
  <2>2. CASE Refuses(e)
    <3>1. rates' \in [Windows -> Nat] /\ CallsCounted' = CallsCounted
      BY <2>2, RatesRefused
    <3>2. \A c \in Callers : CallsCounted[c] \in Nat
      BY DEF Windows, NumberTypes, CallsCounted
    <3> QED BY <3>1, <3>2 DEF WindowsCover
  <2> QED BY <1>1, <2>1, <2>2
<1>3. PollTypes'
  BY <1>1 DEF PollTypes
<1>4. NumberTypes'
  BY <1>1, <1>2 DEF NumberTypes
<1>5. WindowsCover'
  <2> SUFFICES ASSUME NEW c \in Callers PROVE seen'.window[c] <= CallsCounted'[c] /\ CallsCounted'[c] <= MostCalls
    BY DEF WindowsCover, MostCalls
  <2>1. seen'.window[c] = seen.window[c] /\ seen.window[c] \in Nat /\ seen.window[c] <= CallsCounted[c]
    BY <1>1 DEF WindowsCover, NumberTypes
  <2>2. CallsCounted[c] \in Nat /\ CallsCounted'[c] \in Nat
    BY <1>2 DEF Windows, CallsCounted
  <2> QED BY <1>2, <2>1, <2>2
<1> QED BY <1>1, <1>3, <1>4, <1>5, RunsUntouched

-----------------------------------------------------------------------------
(* What moves when a poll does. First the executions under way: their number stays  *)
(* when the poll comes to none and leaves none, and goes up and down with it.      *)
LEMMA CountsKept ==
    ASSUME CountsAreRunning, NEW n \in Polls, \A m \in Polls \ {n} : poll'[m] = poll[m], UNCHANGED concurrent,
           poll[n].at \in Underway <=> poll'[n].at \in Underway,
           poll[n].at \in Underway => poll'[n].call = poll[n].call
    PROVE  CountsAreRunning'
<1>1. ASSUME NEW p PROVE Cardinality(Holding(Underway, p)') = Cardinality(Holding(Underway, p))
  BY HeldMoves, HeldIsFinite
<1>2. \A p : Cardinality(Holding(Underway, p))' = Cardinality(Holding(Underway, p))
  BY <1>1
<1> QED BY <1>2 DEF CountsAreRunning, Underway

LEMMA ConcurrentSum ==
    ASSUME NumberTypes, CountsAreRunning
    PROVE  /\ Summable(concurrent, ProgramIds) /\ concurrent["total"] = SumFunctionOnSet(concurrent, ProgramIds)
           /\ \A p \in ProgramIds : concurrent[p] \in Nat /\ concurrent[p] <= concurrent["total"]
           /\ concurrent["total"] \in Nat
<1>1. concurrent["total"] \in Nat /\ \A p \in ProgramIds : concurrent[p] \in Nat
  BY DEF NumberTypes
<1>2. Summable(concurrent, ProgramIds)
  BY <1>1, RunnerNumbers DEF Summable
<1>3. concurrent["total"] = SumFunctionOnSet(concurrent, ProgramIds)
  BY DEF CountsAreRunning
<1>4. \A p \in ProgramIds : concurrent[p] <= SumFunctionOnSet(concurrent, ProgramIds)
  BY <1>1, RunnerNumbers, SumPositive
<1> QED BY <1>1, <1>2, <1>3, <1>4

LEMMA CountsUp ==
    ASSUME NumberTypes, CountsAreRunning, NEW n \in Polls, \A m \in Polls \ {n} : poll'[m] = poll[m],
           poll[n].at \notin Underway, poll'[n].at \in Underway,
           NEW p \in ProgramIds, poll'[n].call.program = p, concurrent["total"] < MaxTotalConcurrent,
           concurrent' = [concurrent EXCEPT ![p] = @ + 1, !["total"] = @ + 1]
    PROVE  CountsAreRunning' /\ concurrent' \in [ProgramIds \cup {"total"} -> Nat]
<1>0. concurrent \in [ProgramIds \cup {"total"} -> Nat] /\ p # "total"
  BY RunnerNumbers DEF NumberTypes
<1>1. /\ concurrent' \in [ProgramIds \cup {"total"} -> Nat] /\ concurrent'["total"] = concurrent["total"] + 1
      /\ \A q \in ProgramIds : concurrent'[q] = concurrent[q] + (IF q = p THEN 1 ELSE 0)
  BY <1>0, RunnerNumbers
<1>2. ASSUME NEW q \in ProgramIds PROVE concurrent'[q] = Cardinality(Holding(Underway, q)')
  <2>1. concurrent[q] = Cardinality(Holding(Underway, q)) /\ Cardinality(Holding(Underway, q)) \in Nat
    BY HeldIsFinite DEF CountsAreRunning
  <2>2. Cardinality(Holding(Underway, q)') = Cardinality(Holding(Underway, q)) - 0 + (IF q = p THEN 1 ELSE 0)
    BY HeldMoves
  <2> QED BY <1>1, <2>1, <2>2
<1>3. SumFunctionOnSet(concurrent', ProgramIds) = concurrent["total"] + 1
  <2>1. concurrent'[p] \in Int /\ concurrent[p] \in Nat /\ concurrent'[p] = concurrent[p] + 1 /\ \A q \in ProgramIds \ {p} : concurrent'[q] = concurrent[q]
    BY <1>0, <1>1
  <2>2. SumFunctionOnSet(concurrent', ProgramIds) = SumFunctionOnSet(concurrent, ProgramIds) - concurrent[p] + concurrent'[p]
    <3>1. PICK S, f, g, x : S = ProgramIds /\ f = concurrent /\ g = concurrent' /\ x = p
      OBVIOUS
    <3>2. x \in S /\ Summable(f, S) /\ g[x] \in Int /\ \A q \in S \ {x} : g[q] = f[q]
      BY <2>1, <3>1, ConcurrentSum
    <3>3. SumFunctionOnSet(g, S) = SumFunctionOnSet(f, S) - f[x] + g[x]
      BY ONLY <3>2, SumChange
    <3> QED BY <3>1, <3>3
  <2> QED BY <2>1, <2>2, ConcurrentSum
<1>4. concurrent'["total"] <= MaxTotalConcurrent
  BY <1>1, ConcurrentSum, RunnerNumbers
<1> QED BY <1>1, <1>2, <1>3, <1>4 DEF CountsAreRunning, Underway

LEMMA CountsDown ==
    ASSUME NumberTypes, CountsAreRunning, NEW n \in Polls, \A m \in Polls \ {n} : poll'[m] = poll[m],
           poll[n].at \in Underway, poll'[n].at \notin Underway,
           NEW p \in ProgramIds, poll[n].call.program = p,
           concurrent' = [concurrent EXCEPT ![p] = @ - 1, !["total"] = @ - 1]
    PROVE  CountsAreRunning' /\ concurrent' \in [ProgramIds \cup {"total"} -> Nat]
<1>0. concurrent \in [ProgramIds \cup {"total"} -> Nat] /\ p # "total"
  BY RunnerNumbers DEF NumberTypes
<1>1. concurrent[p] \in Nat \ {0}
  <2>1. n \in Holding(Underway, p)
    BY DEF Holding
  <2>2. Cardinality(Holding(Underway, p)) # 0
    BY <2>1, HeldIsFinite, FS_EmptySet
  <2> QED BY <2>2, HeldIsFinite DEF CountsAreRunning
<1>2. concurrent["total"] \in Nat \ {0} /\ concurrent["total"] <= MaxTotalConcurrent
  BY <1>1, ConcurrentSum DEF CountsAreRunning
<1>3. /\ concurrent' \in [ProgramIds \cup {"total"} -> Nat] /\ concurrent'["total"] = concurrent["total"] - 1
      /\ \A q \in ProgramIds : concurrent'[q] = concurrent[q] - (IF q = p THEN 1 ELSE 0)
  BY <1>0, <1>1, <1>2, RunnerNumbers
<1>4. ASSUME NEW q \in ProgramIds PROVE concurrent'[q] = Cardinality(Holding(Underway, q)')
  <2>1. concurrent[q] = Cardinality(Holding(Underway, q)) /\ Cardinality(Holding(Underway, q)) \in Nat
    BY HeldIsFinite DEF CountsAreRunning
  <2>2. Cardinality(Holding(Underway, q)') = Cardinality(Holding(Underway, q)) - (IF q = p THEN 1 ELSE 0) + 0
    BY HeldMoves
  <2> QED BY <1>3, <2>1, <2>2
<1>5. SumFunctionOnSet(concurrent', ProgramIds) = concurrent["total"] - 1
  <2>1. concurrent'[p] \in Int /\ concurrent[p] \in Nat /\ concurrent'[p] = concurrent[p] - 1 /\ \A q \in ProgramIds \ {p} : concurrent'[q] = concurrent[q]
    BY <1>0, <1>3
  <2>2. SumFunctionOnSet(concurrent', ProgramIds) = SumFunctionOnSet(concurrent, ProgramIds) - concurrent[p] + concurrent'[p]
    <3>1. PICK S, f, g, x : S = ProgramIds /\ f = concurrent /\ g = concurrent' /\ x = p
      OBVIOUS
    <3>2. x \in S /\ Summable(f, S) /\ g[x] \in Int /\ \A q \in S \ {x} : g[q] = f[q]
      BY <2>1, <3>1, ConcurrentSum
    <3>3. SumFunctionOnSet(g, S) = SumFunctionOnSet(f, S) - f[x] + g[x]
      BY ONLY <3>2, SumChange
    <3> QED BY <3>1, <3>3
  <2> QED BY <2>1, <2>2, ConcurrentSum
<1>6. concurrent'["total"] <= MaxTotalConcurrent
  BY <1>2, <1>3, RunnerNumbers
<1> QED BY <1>3, <1>4, <1>5, <1>6 DEF CountsAreRunning, Underway

(* The requests of a program go up by one, or one of the ways a request can end does.*)
Ends == [q \in ProgramIds |-> stats[q].success + stats[q].failure + stats[q].rejected + seen.ended[q]]
LEMMA RequestsMove ==
    ASSUME NumberTypes, NumberTypes', RequestsAddUp, NEW n \in Polls, \A m \in Polls \ {n} : poll'[m] = poll[m],
           \A q \in ProgramIds :
              stats'[q].requests - stats[q].requests + (IF poll[n].at \in {"tier", "executing"} /\ poll[n].call.program = q THEN 1 ELSE 0)
                = Ends'[q] - Ends[q] + (IF poll'[n].at \in {"tier", "executing"} /\ poll'[n].call.program = q THEN 1 ELSE 0)
    PROVE  RequestsAddUp'
<1> DEFINE Open == {"tier", "executing"}
<1>1. ASSUME NEW q \in ProgramIds PROVE stats'[q].requests = Ends'[q] + Cardinality(Holding(Open, q)')
  <2> DEFINE was == IF poll[n].at \in Open /\ poll[n].call.program = q THEN 1 ELSE 0
             is == IF poll'[n].at \in Open /\ poll'[n].call.program = q THEN 1 ELSE 0
  <2>1. stats[q].requests = Ends[q] + Cardinality(Holding(Open, q))
    BY DEF RequestsAddUp, Ends
  <2>2. stats[q].requests \in Nat /\ Ends[q] \in Nat /\ stats'[q].requests \in Nat /\ Ends'[q] \in Nat
    BY DEF NumberTypes, Ends
  <2>3. Cardinality(Holding(Open, q)) \in Nat /\ Cardinality(Holding(Open, q)') = Cardinality(Holding(Open, q)) - was + is
    BY HeldMoves, HeldIsFinite
  <2>4. stats'[q].requests - stats[q].requests + was = Ends'[q] - Ends[q] + is /\ was \in {0, 1} /\ is \in {0, 1}
    OBVIOUS
  <2> HIDE DEF was, is, Open
  <2> QED BY <2>1, <2>2, <2>3, <2>4
<1> QED BY <1>1 DEF RequestsAddUp, Ends

LEMMA RequestsKept ==
    ASSUME NumberTypes, NumberTypes', RequestsAddUp, NEW n \in Polls, \A m \in Polls \ {n} : poll'[m] = poll[m],
           UNCHANGED <<stats, seen>>, poll[n].at \notin {"tier", "executing"}, poll'[n].at \notin {"tier", "executing"}
    PROVE  RequestsAddUp'
<1>1. \A q \in ProgramIds : Ends'[q] = Ends[q] /\ Ends[q] \in Nat /\ stats'[q].requests = stats[q].requests /\ stats[q].requests \in Nat
  BY DEF Ends, NumberTypes
<1>2. \A q \in ProgramIds :
         stats'[q].requests - stats[q].requests + (IF poll[n].at \in {"tier", "executing"} /\ poll[n].call.program = q THEN 1 ELSE 0)
           = Ends'[q] - Ends[q] + (IF poll'[n].at \in {"tier", "executing"} /\ poll'[n].call.program = q THEN 1 ELSE 0)
  BY <1>1
<1> QED BY <1>2, RequestsMove

LEMMA CountedStat ==
    ASSUME NumberTypes, NEW p \in ProgramIds, NEW f \in {"requests", "success", "failure", "rejected"}, Count(p, f)
    PROVE  /\ stats' \in [ProgramIds -> [requests : Nat, success : Nat, failure : Nat, rejected : Nat]]
           /\ \A q \in ProgramIds :
                 /\ stats'[q].requests = stats[q].requests + (IF q = p /\ f = "requests" THEN 1 ELSE 0)
                 /\ stats'[q].success = stats[q].success + (IF q = p /\ f = "success" THEN 1 ELSE 0)
                 /\ stats'[q].failure = stats[q].failure + (IF q = p /\ f = "failure" THEN 1 ELSE 0)
                 /\ stats'[q].rejected = stats[q].rejected + (IF q = p /\ f = "rejected" THEN 1 ELSE 0)
<1>1. CASE f = "requests"
  BY <1>1 DEF Count, NumberTypes
<1>2. CASE f = "success"
  BY <1>2 DEF Count, NumberTypes
<1>3. CASE f = "failure"
  BY <1>3 DEF Count, NumberTypes
<1>4. CASE f = "rejected"
  BY <1>4 DEF Count, NumberTypes
<1> QED BY <1>1, <1>2, <1>3, <1>4

-----------------------------------------------------------------------------
(* Then the calls and their runs.                                               *)
LEMMA PollMoves ==
    ASSUME PollTypes, NEW n \in Polls, NEW a \in PollStages, MovesTo(n, a), a \in Busy => poll[n].call \in CallEvents
    PROVE  /\ poll' \in [Polls -> PollRecord] /\ \A m \in Polls \ {n} : poll'[m] = poll[m]
           /\ poll'[n].at = a /\ poll'[n].call = poll[n].call
           /\ \A m \in Polls : poll'[m].at \in Busy => poll'[m].call \in CallEvents
<1>1. poll' = [poll EXCEPT ![n].at = a] /\ poll \in [Polls -> PollRecord]
  BY DEF MovesTo, PollTypes
<1>2. poll[n] \in PollRecord /\ poll'[n] = [poll[n] EXCEPT !.at = a]
  BY <1>1
<1>3. poll'[n] \in PollRecord /\ poll'[n].at = a /\ poll'[n].call = poll[n].call
  BY <1>2 DEF PollRecord
<1>4. poll' \in [Polls -> PollRecord] /\ \A m \in Polls \ {n} : poll'[m] = poll[m]
  BY <1>1, <1>3
<1>5. \A m \in Polls : poll'[m].at \in Busy => poll'[m].call \in CallEvents
  BY <1>3, <1>4 DEF PollTypes
<1> QED BY <1>3, <1>4, <1>5

LEMMA PollIsSet ==
    ASSUME PollTypes, NEW n \in Polls, NEW r \in PollRecord, poll' = [poll EXCEPT ![n] = r],
           r.at \in Busy => r.call \in CallEvents
    PROVE  /\ poll' \in [Polls -> PollRecord] /\ \A m \in Polls \ {n} : poll'[m] = poll[m]
           /\ poll'[n] = r
           /\ \A m \in Polls : poll'[m].at \in Busy => poll'[m].call \in CallEvents
BY DEF PollTypes

LEMMA CallFacts ==
    ASSUME NEW e \in CallEvents
    PROVE  e.id \in CallIds /\ e.program \in ProgramIds /\ e.caller \in Callers
BY DEF CallIds, ProgramIds, Callers

LEMMA HoldersStay ==
    ASSUME OneHolder, NEW n \in Polls, \A m \in Polls \ {n} : poll'[m] = poll[m], UNCHANGED processed,
           poll'[n].at \in Busy => poll[n].at \in Busy /\ poll'[n].call = poll[n].call
    PROVE  OneHolder'
<1>1. \A m \in Polls : poll'[m].at \in Busy => poll[m].at \in Busy /\ poll'[m].call = poll[m].call
  OBVIOUS
<1> QED BY <1>1 DEF OneHolder, Busy

LEMMA RunMarked ==
    ASSUME PollTypes, OneHolder, RunsByStage, NEW n \in Polls, poll[n].at \in Busy,
           \A m \in Polls \ {n} : poll'[m] = poll[m], poll'[n].call = poll[n].call, UNCHANGED processed,
           NEW s, MarkCall(poll[n].call.id, s),
           \/ poll'[n].at = "next" /\ s \in {"rejected", "failed"}
           \/ poll'[n].at = "executing" /\ s = "running"
           \/ poll'[n].at = "submitting" /\ s \in {"completed", "failed"}
    PROVE  /\ RunsByStage' /\ poll[n].call.id \in DOMAIN runs' /\ runs'[poll[n].call.id] = s
           /\ \A i : i # poll[n].call.id => /\ i \in DOMAIN runs' <=> i \in DOMAIN runs
                                            /\ i \in DOMAIN runs => runs'[i] = runs[i]
<1> DEFINE c == poll[n].call.id
<1>1. runs' = [j \in DOMAIN runs \cup {c} |-> IF j = c THEN s ELSE runs[j]]
  BY DEF MarkCall
<1>2. /\ DOMAIN runs' = DOMAIN runs \cup {c} /\ c \in DOMAIN runs' /\ runs'[c] = s
      /\ \A i : i # c => /\ i \in DOMAIN runs' <=> i \in DOMAIN runs
                         /\ i \in DOMAIN runs => runs'[i] = runs[i]
  BY <1>1
<1>3. c \in processed
  BY DEF OneHolder
<1>4. \A m \in Polls \ {n} : poll[m].at \in Busy => poll[m].call.id # c
  BY DEF OneHolder
<1>5. runs' \in [DOMAIN runs' -> {"rejected", "running", "completed", "failed"}] /\ DOMAIN runs' \subseteq processed'
  <2>1. runs' = [j \in DOMAIN runs' |-> runs'[j]]
    BY <1>1
  <2>2. \A j \in DOMAIN runs' : runs'[j] \in {"rejected", "running", "completed", "failed"}
    BY <1>2 DEF RunsByStage
  <2> HIDE DEF c
  <2> QED BY <1>2, <1>3, <2>1, <2>2 DEF RunsByStage
<1> HIDE DEF c
<1>6. ASSUME NEW m \in Polls
      PROVE  LET i == poll'[m].call.id IN
               /\ poll'[m].at = "tier" => i \notin DOMAIN runs'
               /\ poll'[m].at = "executing" => i \in DOMAIN runs' /\ runs'[i] = "running"
               /\ poll'[m].at = "submitting" => i \in DOMAIN runs' /\ runs'[i] \in {"completed", "failed"}
  <2>1. CASE m = n
    BY <1>2, <2>1 DEF c
  <2>2. CASE m # n
    BY <1>2, <1>4, <2>2 DEF RunsByStage, Busy
  <2> QED BY <2>1, <2>2
<1>7. ASSUME NEW i \in DOMAIN runs', runs'[i] = "running"
      PROVE  \E m \in Polls : poll'[m].at = "executing" /\ poll'[m].call.id = i
  <2>1. CASE i = c
    BY <1>2, <1>7, <2>1 DEF c
  <2>2. CASE i # c
    <3>1. PICK m \in Polls : poll[m].at = "executing" /\ poll[m].call.id = i
      BY <1>2, <1>7, <2>2 DEF RunsByStage
    <3>2. m # n
      BY <2>2, <3>1 DEF c
    <3> QED BY <3>1, <3>2
  <2> QED BY <2>1, <2>2
<1>8. RunsByStage'
  BY <1>5, <1>6, <1>7 DEF RunsByStage
<1> QED BY <1>2, <1>8 DEF c

LEMMA WindowsKept ==
    ASSUME WindowsCover, UNCHANGED rates, seen'.window = seen.window
    PROVE  WindowsCover'
BY DEF WindowsCover, CallsCounted, MostCalls

-----------------------------------------------------------------------------
LEMMA PollStarts == ASSUME RunnerIInv, NEW n \in Polls, Poll(n) PROVE RunnerIInv'
<1> USE DEF RunnerIInv
<1>1. UNCHANGED <<log, programs, processed, runs, rates, concurrent, stats, seen>> /\ poll[n] = NoPoll
  BY DEF Poll
<1>2. InWindow \in Seq(CallEvents)
  <2>1. log \in Seq(CallEvents) /\ Len(log) \in Nat /\ PollLimit \in Nat
    BY RunnerAssumption DEF PollTypes
  <2>2. PICK k : k = IF Len(log) > PollLimit THEN Len(log) - PollLimit + 1 ELSE 1
    OBVIOUS
  <2>3. k \in 1..Len(log) + 1
    BY <2>1, <2>2
  <2>4. SubSeq(log, k, Len(log)) \in Seq(CallEvents)
    BY <2>1, <2>3, SubSeqProperties
  <2> QED BY <2>2, <2>4 DEF InWindow
<1>3. PICK r : r = [NoPoll EXCEPT !.at = "next", !.left = New(InWindow)]
  OBVIOUS
<1>4. r \in PollRecord /\ r.at = "next"
  BY <1>2, <1>3, NewCalls, NoPollTyped DEF PollRecord, PollStages
<1>5. /\ poll' \in [Polls -> PollRecord] /\ \A m \in Polls \ {n} : poll'[m] = poll[m]
      /\ poll'[n] = r /\ \A m \in Polls : poll'[m].at \in Busy => poll'[m].call \in CallEvents
  BY <1>3, <1>4, PollIsSet DEF Poll, Busy
<1>6. poll[n].at = "idle" /\ poll'[n].at = "next"
  BY <1>1, <1>4, <1>5, NoPollTyped
<1>7. PollTypes' /\ NumberTypes' /\ WindowsCover'
  BY <1>1, <1>5, WindowsKept DEF PollTypes, NumberTypes
<1>8. OneHolder'
  BY <1>1, <1>5, <1>6, HoldersStay DEF Busy
<1>9. \A m \in Polls : poll'[m].at \in Busy => m # n /\ poll'[m] = poll[m]
  BY <1>5, <1>6 DEF Busy
<1>10. RunsByStage'
  <2>1. \A m \in Polls : poll[m].at = "executing" => m # n
    BY <1>6
  <2> QED BY <1>1, <1>5, <1>9, <2>1 DEF RunsByStage, Busy
<1>11. HistoryOfRuns'
  BY <1>1, <1>9 DEF HistoryOfRuns
<1>12. CountsAreRunning'
  BY <1>1, <1>5, <1>6, CountsKept DEF Underway
<1>13. RequestsAddUp'
  BY <1>1, <1>5, <1>6, <1>7, RequestsKept
<1> QED BY <1>7, <1>8, <1>10, <1>11, <1>12, <1>13

LEMMA TakeStep == ASSUME RunnerIInv, NEW n \in Polls, Take(n) PROVE RunnerIInv'
<1> USE DEF RunnerIInv
<1> DEFINE todo == New(poll[n].left)
           e == Head(todo)
<1>1. UNCHANGED <<log, programs, rates, concurrent, seen>> /\ poll[n].at = "next" /\ poll[n] \in PollRecord
  BY DEF Take, PollTypes
<1>2. /\ todo \in Seq(CallEvents)
      /\ todo # <<>> => e \in CallEvents /\ e.id \notin processed /\ Tail(todo) \in Seq(CallEvents)
  BY <1>1, NewCalls DEF PollRecord
<1>3. CASE todo = <<>> /\ poll' = [poll EXCEPT ![n] = NoPoll] /\ UNCHANGED <<processed, runs, stats>>
  <2>1. /\ poll' \in [Polls -> PollRecord] /\ \A m \in Polls \ {n} : poll'[m] = poll[m]
        /\ poll'[n].at = "idle" /\ \A m \in Polls : poll'[m].at \in Busy => poll'[m].call \in CallEvents
    BY <1>3, NoPollTyped, PollIsSet DEF Busy
  <2>2. PollTypes' /\ NumberTypes' /\ WindowsCover'
    BY <1>1, <1>3, <2>1, WindowsKept DEF PollTypes, NumberTypes
  <2>3. OneHolder'
    BY <1>1, <1>3, <2>1, HoldersStay DEF Busy
  <2>4. \A m \in Polls : poll'[m].at \in Busy => m # n /\ poll'[m] = poll[m]
    BY <2>1 DEF Busy
  <2>5. RunsByStage'
    <3>1. \A m \in Polls : poll[m].at = "executing" => m # n
      BY <1>1
    <3> QED BY <1>3, <2>1, <2>4, <3>1 DEF RunsByStage, Busy
  <2>6. HistoryOfRuns'
    BY <1>1, <1>3, <2>4 DEF HistoryOfRuns
  <2>7. CountsAreRunning'
    BY <1>1, <2>1, CountsKept DEF Underway
  <2>8. RequestsAddUp'
    BY <1>1, <1>3, <2>1, <2>2, RequestsKept
  <2> QED BY <2>2, <2>3, <2>5, <2>6, <2>7, <2>8
<1>4. CASE /\ todo # <<>> /\ Mark(e) /\ MarkCall(e.id, "rejected")
           /\ poll' = [poll EXCEPT ![n].left = Tail(todo)] /\ UNCHANGED stats
  <2>1. PICK r : r = [poll[n] EXCEPT !.left = Tail(todo)]
    OBVIOUS
  <2>2. r \in PollRecord /\ r.at = "next" /\ poll' = [poll EXCEPT ![n] = r]
    BY <1>1, <1>2, <1>4, <2>1 DEF PollRecord
  <2>3. /\ poll' \in [Polls -> PollRecord] /\ \A m \in Polls \ {n} : poll'[m] = poll[m]
        /\ poll'[n].at = "next" /\ \A m \in Polls : poll'[m].at \in Busy => poll'[m].call \in CallEvents
    BY <2>2, PollIsSet DEF Busy
  <2>4. e \in CallEvents /\ e.id \notin processed /\ processed' = processed \cup {e.id} /\ e.id \in CallIds
    BY <1>2, <1>4, CallFacts DEF Mark
  <2>5. PollTypes' /\ NumberTypes' /\ WindowsCover'
    BY <1>1, <1>4, <2>3, <2>4, WindowsKept DEF PollTypes, NumberTypes
  <2>6. \A m \in Polls : poll'[m].at \in Busy => m # n /\ poll'[m] = poll[m] /\ poll[m].call.id # e.id
    BY <2>3, <2>4 DEF Busy, OneHolder
  <2>7. OneHolder'
    BY <2>3, <2>4, <2>6 DEF OneHolder
  <2>8. e.id \notin DOMAIN runs
    BY <2>4 DEF RunsByStage
  <2>9. /\ DOMAIN runs' = DOMAIN runs \cup {e.id} /\ runs'[e.id] = "rejected"
        /\ \A i \in DOMAIN runs : runs'[i] = runs[i]
        /\ runs' = [j \in DOMAIN runs' |-> runs'[j]]
    BY <1>4, <2>8 DEF MarkCall
  <2> HIDE DEF e, todo
  <2>10. RunsByStage'
    <3>1. runs' \in [DOMAIN runs' -> {"rejected", "running", "completed", "failed"}] /\ DOMAIN runs' \subseteq processed'
      <4>1. \A j \in DOMAIN runs' : runs'[j] \in {"rejected", "running", "completed", "failed"}
        BY <2>9 DEF RunsByStage
      <4> QED BY <2>4, <2>9, <4>1 DEF RunsByStage
    <3>2. ASSUME NEW m \in Polls
          PROVE  LET i == poll'[m].call.id IN
                   /\ poll'[m].at = "tier" => i \notin DOMAIN runs'
                   /\ poll'[m].at = "executing" => i \in DOMAIN runs' /\ runs'[i] = "running"
                   /\ poll'[m].at = "submitting" => i \in DOMAIN runs' /\ runs'[i] \in {"completed", "failed"}
      BY <2>6, <2>9 DEF RunsByStage, Busy
    <3>3. ASSUME NEW i \in DOMAIN runs', runs'[i] = "running"
          PROVE  \E m \in Polls : poll'[m].at = "executing" /\ poll'[m].call.id = i
      <4>1. PICK m \in Polls : poll[m].at = "executing" /\ poll[m].call.id = i
        BY <2>9, <3>3 DEF RunsByStage
      <4> QED BY <1>1, <2>3, <4>1
    <3> QED BY <3>1, <3>2, <3>3 DEF RunsByStage
  <2>11. HistoryOfRuns'
    <3>1. \A i \in CallIds : seen'.begun[i] = IF i \in DOMAIN runs' /\ runs'[i] # "rejected" THEN 1 ELSE 0
      BY <1>1, <2>8, <2>9 DEF HistoryOfRuns
    <3> QED BY <1>1, <2>6, <3>1 DEF HistoryOfRuns
  <2>12. CountsAreRunning'
    BY <1>1, <2>3, CountsKept DEF Underway
  <2>13. RequestsAddUp'
    BY <1>1, <1>4, <2>3, <2>5, RequestsKept
  <2> QED BY <2>5, <2>7, <2>10, <2>11, <2>12, <2>13
<1>5. CASE /\ todo # <<>> /\ e.program \in DOMAIN programs /\ Mark(e) /\ Count(e.program, "requests")
           /\ poll' = [poll EXCEPT ![n] = [at |-> "tier", left |-> Tail(todo), call |-> e, kind |-> programs[e.program].kind]]
           /\ UNCHANGED runs
  <2>1. PICK r : r = [at |-> "tier", left |-> Tail(todo), call |-> e, kind |-> programs[e.program].kind]
    OBVIOUS
  <2>2. programs[e.program].kind \in Kinds
    BY <1>5 DEF PollTypes, Kinds
  <2>3. r \in PollRecord /\ r.at = "tier" /\ r.call = e /\ poll' = [poll EXCEPT ![n] = r] /\ e \in CallEvents
    BY <1>2, <1>5, <2>1, <2>2 DEF PollRecord, PollStages
  <2>4. /\ poll' \in [Polls -> PollRecord] /\ \A m \in Polls \ {n} : poll'[m] = poll[m]
        /\ poll'[n].at = "tier" /\ poll'[n].call = e /\ \A m \in Polls : poll'[m].at \in Busy => poll'[m].call \in CallEvents
    BY <2>3, PollIsSet
  <2>5. e.id \notin processed /\ processed' = processed \cup {e.id} /\ e.id \in CallIds /\ e.program \in ProgramIds
    BY <1>2, <1>5, CallFacts DEF Mark
  <2>6. /\ stats' \in [ProgramIds -> [requests : Nat, success : Nat, failure : Nat, rejected : Nat]]
        /\ \A q \in ProgramIds :
              /\ stats'[q].requests = stats[q].requests + (IF q = e.program THEN 1 ELSE 0)
              /\ stats'[q].success = stats[q].success + 0
              /\ stats'[q].failure = stats[q].failure + 0
              /\ stats'[q].rejected = stats[q].rejected + 0
    BY <1>5, <2>5, CountedStat
  <2> HIDE DEF e, todo
  <2>7. PollTypes' /\ NumberTypes' /\ WindowsCover'
    BY <1>1, <2>4, <2>5, <2>6, WindowsKept DEF PollTypes, NumberTypes
  <2>8. \A m \in Polls : poll'[m].at \in Busy /\ m # n => poll'[m] = poll[m] /\ poll[m].call.id # e.id
    BY <2>4, <2>5 DEF OneHolder
  <2>9. OneHolder'
    BY <2>4, <2>5, <2>8 DEF OneHolder
  <2>10. e.id \notin DOMAIN runs
    BY <2>5 DEF RunsByStage
  <2>11. RunsByStage'
    <3>1. \A m \in Polls : poll[m].at = "executing" => m # n
      BY <1>1
    <3> QED BY <1>5, <2>4, <2>5, <2>8, <2>10, <3>1 DEF RunsByStage, Busy
  <2>12. HistoryOfRuns'
    <3>1. seen.begun[e.id] = 0 /\ seen.submitted[e.id] \in Nat /\ seen.submitted[e.id] <= seen.begun[e.id]
      BY <2>5, <2>10 DEF HistoryOfRuns, NumberTypes
    <3> QED BY <1>1, <1>5, <2>4, <2>8, <3>1 DEF HistoryOfRuns
  <2>13. CountsAreRunning'
    BY <1>1, <2>4, CountsKept DEF Underway
  <2>14. RequestsAddUp'
    <3>1. ASSUME NEW q \in ProgramIds
          PROVE  /\ stats'[q].requests = stats[q].requests + (IF q = e.program THEN 1 ELSE 0) /\ stats[q].requests \in Nat
                 /\ Ends'[q] = Ends[q] /\ Ends[q] \in Nat
      <4>1. /\ stats[q] \in [requests : Nat, success : Nat, failure : Nat, rejected : Nat]
            /\ stats'[q] \in [requests : Nat, success : Nat, failure : Nat, rejected : Nat]
            /\ seen.ended[q] \in Nat /\ seen'.ended[q] = seen.ended[q]
        BY <1>1, <2>6 DEF NumberTypes
      <4>2. /\ stats'[q].success = stats[q].success /\ stats'[q].failure = stats[q].failure
            /\ stats'[q].rejected = stats[q].rejected
        BY <2>6, <4>1
      <4> QED BY <2>6, <4>1, <4>2 DEF Ends
    <3>2. ASSUME NEW q \in ProgramIds
          PROVE  stats'[q].requests - stats[q].requests + (IF poll[n].at \in {"tier", "executing"} /\ poll[n].call.program = q THEN 1 ELSE 0)
                  = Ends'[q] - Ends[q] + (IF poll'[n].at \in {"tier", "executing"} /\ poll'[n].call.program = q THEN 1 ELSE 0)
      BY <1>1, <2>4, <3>1
    <3> QED BY <2>4, <2>7, <3>2, RequestsMove
  <2> QED BY <2>7, <2>9, <2>11, <2>12, <2>13, <2>14
<1> QED BY <1>3, <1>4, <1>5 DEF Take

LEMMA TierFailsStep == ASSUME RunnerIInv, NEW n \in Polls, TierFails(n) PROVE RunnerIInv'
<1> USE DEF RunnerIInv
<1>1. UNCHANGED <<log, programs, processed, runs, rates, concurrent, stats>> /\ poll[n].at = "tier" /\ poll[n].call \in CallEvents
  BY DEF TierFails, PollTypes, Busy
<1>2. PICK p : p = poll[n].call.program /\ p \in ProgramIds
  BY <1>1, CallFacts
<1>3. seen' = [seen EXCEPT !.ended[p] = @ + 1]
  BY <1>2 DEF TierFails
<1>4. /\ seen' \in [begun : [CallIds -> Nat], submitted : [CallIds -> Nat],
                    ended : [ProgramIds -> Nat], window : [Callers -> Nat]]
      /\ seen'.begun = seen.begun /\ seen'.submitted = seen.submitted /\ seen'.window = seen.window
      /\ \A q \in ProgramIds : seen'.ended[q] = seen.ended[q] + (IF q = p THEN 1 ELSE 0)
  <2>1. seen \in [begun : [CallIds -> Nat], submitted : [CallIds -> Nat], ended : [ProgramIds -> Nat], window : [Callers -> Nat]]
    BY DEF NumberTypes
  <2>2. seen'.ended = [seen.ended EXCEPT ![p] = @ + 1] /\ seen.ended \in [ProgramIds -> Nat]
    BY <1>3, <2>1
  <2>3. seen'.ended \in [ProgramIds -> Nat] /\ \A q \in ProgramIds : seen'.ended[q] = seen.ended[q] + (IF q = p THEN 1 ELSE 0)
    BY <1>2, <2>2
  <2>4. seen' = [seen EXCEPT !.ended = seen'.ended]
    BY <1>3, <2>1
  <2> QED BY <2>1, <2>3, <2>4
<1>5. /\ poll' \in [Polls -> PollRecord] /\ \A m \in Polls \ {n} : poll'[m] = poll[m]
      /\ poll'[n].at = "idle" /\ \A m \in Polls : poll'[m].at \in Busy => poll'[m].call \in CallEvents
  BY NoPollTyped, PollIsSet DEF Busy, TierFails
<1>6. PollTypes' /\ NumberTypes' /\ WindowsCover'
  BY <1>1, <1>4, <1>5, WindowsKept DEF PollTypes, NumberTypes
<1>7. OneHolder'
  BY <1>1, <1>5, HoldersStay DEF Busy
<1>8. \A m \in Polls : poll'[m].at \in Busy => m # n /\ poll'[m] = poll[m]
  BY <1>5 DEF Busy
<1>9. RunsByStage'
  <2>1. \A m \in Polls : poll[m].at = "executing" => m # n
    BY <1>1
  <2> QED BY <1>1, <1>5, <1>8, <2>1 DEF RunsByStage, Busy
<1>10. HistoryOfRuns'
  BY <1>1, <1>4, <1>8 DEF HistoryOfRuns
<1>11. CountsAreRunning'
  BY <1>1, <1>5, CountsKept DEF Underway
<1>12. RequestsAddUp'
  <2>1. ASSUME NEW q \in ProgramIds
        PROVE  /\ stats'[q].requests = stats[q].requests /\ stats[q].requests \in Nat
               /\ Ends'[q] = Ends[q] + (IF q = p THEN 1 ELSE 0) /\ Ends[q] \in Nat
    <3>1. /\ stats[q] \in [requests : Nat, success : Nat, failure : Nat, rejected : Nat]
          /\ stats'[q] = stats[q] /\ seen.ended[q] \in Nat /\ seen'.ended[q] = seen.ended[q] + (IF q = p THEN 1 ELSE 0)
      BY <1>1, <1>4 DEF NumberTypes
    <3> QED BY <3>1 DEF Ends
  <2>2. ASSUME NEW q \in ProgramIds
        PROVE  stats'[q].requests - stats[q].requests + (IF poll[n].at \in {"tier", "executing"} /\ poll[n].call.program = q THEN 1 ELSE 0)
                = Ends'[q] - Ends[q] + (IF poll'[n].at \in {"tier", "executing"} /\ poll'[n].call.program = q THEN 1 ELSE 0)
    BY <1>1, <1>2, <1>5, <2>1
  <2> QED BY <1>5, <1>6, <2>2, RequestsMove
<1> QED BY <1>6, <1>7, <1>9, <1>10, <1>11, <1>12

LEMMA RejectStep == ASSUME RunnerIInv, NEW n \in Polls, Reject(n) PROVE RunnerIInv'
<1> USE DEF RunnerIInv
<1>1. PICK e : e = poll[n].call
  OBVIOUS
<1>2. UNCHANGED <<log, programs, processed, concurrent, seen>> /\ poll[n].at = "tier" /\ e \in CallEvents
  BY <1>1 DEF Reject, PollTypes, Busy
<1>3. e.program \in ProgramIds /\ e.id \in CallIds
  BY <1>2, CallFacts
<1>4. /\ poll' \in [Polls -> PollRecord] /\ \A m \in Polls \ {n} : poll'[m] = poll[m]
      /\ poll'[n].at = "next" /\ poll'[n].call = e /\ \A m \in Polls : poll'[m].at \in Busy => poll'[m].call \in CallEvents
  BY <1>1, PollMoves DEF Reject, PollStages, Busy
<1>5. /\ rates' \in [Windows -> Nat]
      /\ \A c \in Callers : CallsCounted[c] \in Nat /\ CallsCounted[c] <= CallsCounted'[c] /\ CallsCounted'[c] <= MostCalls
  <2>1. CASE Admits(e)
    <3>1. ASSUME NEW c \in Callers PROVE CallsCounted[c] \in Nat /\ CallsCounted[c] <= CallsCounted'[c] /\ CallsCounted'[c] <= MostCalls
      <4>1. CallsCounted[c] \in Nat /\ CallsCounted'[c] <= MostCalls /\ CallsCounted'[c] = CallsCounted[c] + (IF c = e.caller THEN 1 ELSE 0)
        BY <1>2, <2>1, RatesAdmitted
      <4> QED BY <4>1
    <3> QED BY <1>2, <2>1, <3>1, RatesAdmitted
  <2>2. CASE Refuses(e)
    <3>1. rates' \in [Windows -> Nat] /\ CallsCounted' = CallsCounted
      BY <1>2, <2>2, RatesRefused
    <3>2. \A c \in Callers : CallsCounted[c] \in Nat
      BY DEF Windows, NumberTypes, CallsCounted
    <3> QED BY <3>1, <3>2 DEF WindowsCover
  <2> QED BY <1>1, <2>1, <2>2 DEF Reject
<1>6. /\ stats' \in [ProgramIds -> [requests : Nat, success : Nat, failure : Nat, rejected : Nat]]
      /\ \A q \in ProgramIds :
            /\ stats'[q].requests = stats[q].requests + 0
            /\ stats'[q].success = stats[q].success + 0
            /\ stats'[q].failure = stats[q].failure + 0
            /\ stats'[q].rejected = stats[q].rejected + (IF q = e.program THEN 1 ELSE 0)
  <2>1. Count(e.program, "rejected")
    BY <1>1 DEF Reject
  <2> QED BY <1>3, <2>1, CountedStat
<1>7. PollTypes' /\ NumberTypes'
  BY <1>2, <1>4, <1>5, <1>6 DEF PollTypes, NumberTypes
<1>8. WindowsCover'
  <2> SUFFICES ASSUME NEW c \in Callers PROVE seen'.window[c] <= CallsCounted'[c] /\ CallsCounted'[c] <= MostCalls
    BY DEF WindowsCover, MostCalls
  <2>1. seen'.window[c] = seen.window[c] /\ seen.window[c] \in Nat /\ seen.window[c] <= CallsCounted[c]
    BY <1>2 DEF WindowsCover, NumberTypes
  <2>2. CallsCounted[c] \in Nat /\ CallsCounted'[c] \in Nat
    BY <1>5 DEF Windows, CallsCounted
  <2> QED BY <1>5, <2>1, <2>2
<1>9. OneHolder'
  BY <1>2, <1>4, HoldersStay DEF Busy
<1>10. /\ RunsByStage' /\ e.id \in DOMAIN runs' /\ runs'[e.id] = "rejected"
       /\ \A i : i # e.id => /\ i \in DOMAIN runs' <=> i \in DOMAIN runs
                             /\ i \in DOMAIN runs => runs'[i] = runs[i]
  <2>1. MarkCall(poll[n].call.id, "rejected")
    BY DEF Reject
  <2> QED BY <1>1, <1>2, <1>4, <2>1, RunMarked DEF Busy
<1>11. HistoryOfRuns'
  <2>1. e.id \notin DOMAIN runs
    BY <1>1, <1>2 DEF RunsByStage
  <2>2. \A i \in CallIds : seen'.begun[i] = IF i \in DOMAIN runs' /\ runs'[i] # "rejected" THEN 1 ELSE 0
    BY <1>2, <1>10, <2>1 DEF HistoryOfRuns
  <2>3. \A m \in Polls : poll'[m].at \in Busy => poll[m].at \in Busy /\ poll'[m] = poll[m]
    BY <1>4 DEF Busy
  <2> QED BY <1>2, <2>2, <2>3 DEF HistoryOfRuns
<1>12. CountsAreRunning'
  BY <1>2, <1>4, CountsKept DEF Underway
<1>13. RequestsAddUp'
  BY <1>1, <1>2, <1>3, <1>4, <1>6, <1>7, RequestsMove DEF Ends, NumberTypes
<1> QED BY <1>7, <1>8, <1>9, <1>10, <1>11, <1>12, <1>13

LEMMA ExecuteStep == ASSUME RunnerIInv, NEW n \in Polls, Execute(n) PROVE RunnerIInv'
<1> USE DEF RunnerIInv
<1>1. PICK e : e = poll[n].call
  OBVIOUS
<1>2. UNCHANGED <<log, programs, processed, stats>> /\ poll[n].at = "tier" /\ e \in CallEvents
  BY <1>1 DEF Execute, PollTypes, Busy
<1>3. e.program \in ProgramIds /\ e.id \in CallIds /\ e.caller \in Callers
  BY <1>2, CallFacts
<1>4. /\ poll' \in [Polls -> PollRecord] /\ \A m \in Polls \ {n} : poll'[m] = poll[m]
      /\ poll'[n].at = "executing" /\ poll'[n].call = e /\ \A m \in Polls : poll'[m].at \in Busy => poll'[m].call \in CallEvents
  BY <1>1, <1>2, PollMoves DEF Execute, PollStages
<1>5. /\ rates' \in [Windows -> Nat]
      /\ \A c \in Callers : /\ CallsCounted[c] \in Nat
                            /\ CallsCounted'[c] = CallsCounted[c] + (IF c = e.caller THEN 1 ELSE 0)
                            /\ CallsCounted'[c] <= MostCalls
  BY <1>1, <1>2, RatesAdmitted DEF Execute
<1>6. CountsAreRunning' /\ concurrent' \in [ProgramIds \cup {"total"} -> Nat]
  BY <1>1, <1>2, <1>3, <1>4, CountsUp DEF Execute, Underway, HasRoom
<1>7. /\ seen' \in [begun : [CallIds -> Nat], submitted : [CallIds -> Nat],
                    ended : [ProgramIds -> Nat], window : [Callers -> Nat]]
      /\ seen'.submitted = seen.submitted /\ seen'.ended = seen.ended
      /\ \A i \in CallIds : seen'.begun[i] = seen.begun[i] + (IF i = e.id THEN 1 ELSE 0)
      /\ \A c \in Callers : seen'.window[c] = seen.window[c] + (IF c = e.caller THEN 1 ELSE 0)
  <2>1. seen \in [begun : [CallIds -> Nat], submitted : [CallIds -> Nat], ended : [ProgramIds -> Nat], window : [Callers -> Nat]]
    BY DEF NumberTypes
  <2>2. seen' = [seen EXCEPT !.begun[e.id] = @ + 1, !.window[e.caller] = @ + 1]
    BY <1>1 DEF Execute
  <2>3. /\ seen'.begun = [seen.begun EXCEPT ![e.id] = @ + 1] /\ seen.begun \in [CallIds -> Nat]
        /\ seen'.window = [seen.window EXCEPT ![e.caller] = @ + 1] /\ seen.window \in [Callers -> Nat]
        /\ seen'.submitted = seen.submitted /\ seen'.ended = seen.ended
    BY <2>1, <2>2
  <2>4. seen'.begun \in [CallIds -> Nat] /\ \A i \in CallIds : seen'.begun[i] = seen.begun[i] + (IF i = e.id THEN 1 ELSE 0)
    BY <1>3, <2>3
  <2>5. seen'.window \in [Callers -> Nat] /\ \A c \in Callers : seen'.window[c] = seen.window[c] + (IF c = e.caller THEN 1 ELSE 0)
    BY <1>3, <2>3
  <2>6. seen' = [begun |-> seen'.begun, submitted |-> seen.submitted, ended |-> seen.ended, window |-> seen'.window]
    BY <2>1, <2>2
  <2> QED BY <2>1, <2>3, <2>4, <2>5, <2>6
<1>8. PollTypes' /\ NumberTypes'
  BY <1>2, <1>4, <1>5, <1>6, <1>7 DEF PollTypes, NumberTypes
<1>9. WindowsCover'
  <2> SUFFICES ASSUME NEW c \in Callers PROVE seen'.window[c] <= CallsCounted'[c] /\ CallsCounted'[c] <= MostCalls
    BY DEF WindowsCover, MostCalls
  <2>1. seen'.window[c] = seen.window[c] + (IF c = e.caller THEN 1 ELSE 0) /\ seen.window[c] \in Nat /\ seen.window[c] <= CallsCounted[c]
    BY <1>7 DEF WindowsCover, NumberTypes
  <2> QED BY <1>5, <2>1
<1>10. OneHolder'
  BY <1>1, <1>2, <1>4, HoldersStay DEF Busy
<1>11. /\ RunsByStage' /\ e.id \in DOMAIN runs' /\ runs'[e.id] = "running"
       /\ \A i : i # e.id => /\ i \in DOMAIN runs' <=> i \in DOMAIN runs
                             /\ i \in DOMAIN runs => runs'[i] = runs[i]
  <2>1. MarkCall(poll[n].call.id, "running")
    BY DEF Execute
  <2> QED BY <1>1, <1>2, <1>4, <2>1, RunMarked DEF Busy
<1>12. HistoryOfRuns'
  <2>1. e.id \notin DOMAIN runs /\ seen.begun[e.id] = 0
    BY <1>1, <1>2, <1>3 DEF RunsByStage, HistoryOfRuns
  <2>2. \A i \in CallIds : seen'.begun[i] = IF i \in DOMAIN runs' /\ runs'[i] # "rejected" THEN 1 ELSE 0
    <3> SUFFICES ASSUME NEW i \in CallIds PROVE seen'.begun[i] = IF i \in DOMAIN runs' /\ runs'[i] # "rejected" THEN 1 ELSE 0
      OBVIOUS
    <3>1. seen'.begun[i] = seen.begun[i] + (IF i = e.id THEN 1 ELSE 0) /\ seen.begun[i] \in Nat
      BY <1>7 DEF NumberTypes
    <3>2. seen.begun[i] = IF i \in DOMAIN runs /\ runs[i] # "rejected" THEN 1 ELSE 0
      BY DEF HistoryOfRuns
    <3>3. CASE i = e.id
      BY <1>11, <2>1, <3>1, <3>3
    <3>4. CASE i # e.id
      BY <1>11, <3>1, <3>2, <3>4
    <3> QED BY <3>3, <3>4
  <2>3. \A i \in CallIds : seen'.submitted[i] <= seen'.begun[i]
    <3> SUFFICES ASSUME NEW i \in CallIds PROVE seen'.submitted[i] <= seen'.begun[i]
      OBVIOUS
    <3>1. seen.begun[i] \in Nat /\ seen.submitted[i] \in Nat /\ seen.submitted[i] <= seen.begun[i]
      BY DEF NumberTypes, HistoryOfRuns
    <3> QED BY <1>7, <3>1
  <2>4. \A m \in Polls : poll'[m].at \in Busy => poll[m].at \in Busy /\ poll'[m].call = poll[m].call
    BY <1>1, <1>2, <1>4 DEF Busy
  <2> QED BY <1>7, <2>2, <2>3, <2>4 DEF HistoryOfRuns
<1>13. RequestsAddUp'
  <2>1. ASSUME NEW q \in ProgramIds
        PROVE  /\ stats'[q].requests = stats[q].requests /\ stats[q].requests \in Nat
               /\ Ends'[q] = Ends[q] /\ Ends[q] \in Nat
    <3>1. /\ stats[q] \in [requests : Nat, success : Nat, failure : Nat, rejected : Nat]
          /\ stats'[q] = stats[q] /\ seen.ended[q] \in Nat /\ seen'.ended[q] = seen.ended[q]
      BY <1>2, <1>7 DEF NumberTypes
    <3> QED BY <3>1 DEF Ends
  <2>2. ASSUME NEW q \in ProgramIds
        PROVE  stats'[q].requests - stats[q].requests + (IF poll[n].at \in {"tier", "executing"} /\ poll[n].call.program = q THEN 1 ELSE 0)
                = Ends'[q] - Ends[q] + (IF poll'[n].at \in {"tier", "executing"} /\ poll'[n].call.program = q THEN 1 ELSE 0)
    BY <1>1, <1>2, <1>4, <2>1
  <2> QED BY <1>4, <1>8, <2>2, RequestsMove
<1> QED BY <1>6, <1>8, <1>9, <1>10, <1>11, <1>12, <1>13

(* A run ends, whether its result is to be submitted or not.                      *)
LEMMA RunEnds ==
    ASSUME RunnerIInv, NEW n \in Polls, poll[n].at = "executing", NEW to \in {"submitting", "next"}, MovesTo(n, to),
           \/ MarkCall(poll[n].call.id, "completed") /\ Count(poll[n].call.program, "success") /\ to = "submitting"
           \/ MarkCall(poll[n].call.id, "failed") /\ Count(poll[n].call.program, "failure"),
           UNCHANGED <<log, programs, processed, rates, seen>>,
           CountsAreRunning', concurrent' \in [ProgramIds \cup {"total"} -> Nat]
    PROVE  RunnerIInv'
<1> USE DEF RunnerIInv
<1>1. PICK e : e = poll[n].call
  OBVIOUS
<1>2. e \in CallEvents
  BY <1>1 DEF PollTypes, Busy
<1>3. e.program \in ProgramIds /\ e.id \in CallIds
  BY <1>2, CallFacts
<1>4. /\ poll' \in [Polls -> PollRecord] /\ \A m \in Polls \ {n} : poll'[m] = poll[m]
      /\ poll'[n].at = to /\ poll'[n].call = e /\ \A m \in Polls : poll'[m].at \in Busy => poll'[m].call \in CallEvents
  BY <1>1, <1>2, PollMoves DEF PollStages
<1>5. PICK s \in {"success", "failure"}, r \in {"completed", "failed"} :
         MarkCall(e.id, r) /\ Count(e.program, s) /\ (to = "next" => r = "failed")
  BY <1>1
<1>6. /\ stats' \in [ProgramIds -> [requests : Nat, success : Nat, failure : Nat, rejected : Nat]]
      /\ \A q \in ProgramIds :
            /\ stats'[q].requests = stats[q].requests + 0
            /\ stats'[q].success = stats[q].success + (IF q = e.program /\ s = "success" THEN 1 ELSE 0)
            /\ stats'[q].failure = stats[q].failure + (IF q = e.program /\ s = "failure" THEN 1 ELSE 0)
            /\ stats'[q].rejected = stats[q].rejected + 0
  BY <1>3, <1>5, CountedStat
<1>7. PollTypes' /\ NumberTypes' /\ WindowsCover'
  BY <1>4, <1>6, WindowsKept DEF PollTypes, NumberTypes
<1>8. OneHolder'
  BY <1>1, <1>4, HoldersStay DEF Busy
<1>9. /\ RunsByStage' /\ e.id \in DOMAIN runs' /\ runs'[e.id] = r
      /\ \A i : i # e.id => /\ i \in DOMAIN runs' <=> i \in DOMAIN runs
                            /\ i \in DOMAIN runs => runs'[i] = runs[i]
  <2>1. \/ poll'[n].at = "next" /\ r \in {"rejected", "failed"}
        \/ poll'[n].at = "submitting" /\ r \in {"completed", "failed"}
    BY <1>4, <1>5
  <2>2. poll'[n].call = poll[n].call /\ MarkCall(poll[n].call.id, r)
    BY <1>1, <1>4, <1>5
  <2> QED BY <1>1, <1>4, <2>1, <2>2, RunMarked DEF Busy
<1>10. HistoryOfRuns'
  <2>1. e.id \in DOMAIN runs /\ runs[e.id] = "running" /\ seen.begun[e.id] = 1
    BY <1>1, <1>3 DEF RunsByStage, HistoryOfRuns
  <2>2. \A i \in CallIds : seen'.begun[i] = IF i \in DOMAIN runs' /\ runs'[i] # "rejected" THEN 1 ELSE 0
    <3> SUFFICES ASSUME NEW i \in CallIds PROVE seen'.begun[i] = IF i \in DOMAIN runs' /\ runs'[i] # "rejected" THEN 1 ELSE 0
      OBVIOUS
    <3>1. seen.begun[i] = IF i \in DOMAIN runs /\ runs[i] # "rejected" THEN 1 ELSE 0
      BY DEF HistoryOfRuns
    <3>2. CASE i = e.id
      BY <1>5, <1>9, <2>1, <3>2
    <3>3. CASE i # e.id
      BY <1>9, <3>1, <3>3
    <3> QED BY <3>2, <3>3
  <2>3. \A m \in Polls : poll'[m].at \in Busy => poll[m].at \in Busy /\ poll'[m].call = poll[m].call
    BY <1>1, <1>4 DEF Busy
  <2> QED BY <2>2, <2>3 DEF HistoryOfRuns
<1>11. RequestsAddUp'
  <2>1. ASSUME NEW q \in ProgramIds
        PROVE  /\ stats'[q].requests = stats[q].requests /\ stats[q].requests \in Nat
               /\ Ends'[q] = Ends[q] + (IF q = e.program THEN 1 ELSE 0) /\ Ends[q] \in Nat
    <3>1. /\ stats[q] \in [requests : Nat, success : Nat, failure : Nat, rejected : Nat]
          /\ stats'[q] \in [requests : Nat, success : Nat, failure : Nat, rejected : Nat]
          /\ seen.ended[q] \in Nat /\ seen'.ended[q] = seen.ended[q]
      BY <1>6 DEF NumberTypes
    <3>2. CASE s = "success"
      BY <1>6, <3>1, <3>2 DEF Ends
    <3>3. CASE s = "failure"
      BY <1>6, <3>1, <3>3 DEF Ends
    <3> QED BY <3>2, <3>3
  <2>2. ASSUME NEW q \in ProgramIds
        PROVE  stats'[q].requests - stats[q].requests + (IF poll[n].at \in {"tier", "executing"} /\ poll[n].call.program = q THEN 1 ELSE 0)
                = Ends'[q] - Ends[q] + (IF poll'[n].at \in {"tier", "executing"} /\ poll'[n].call.program = q THEN 1 ELSE 0)
    BY <1>1, <1>4, <2>1
  <2> QED BY <1>4, <1>7, <2>2, RequestsMove
<1> QED BY <1>7, <1>8, <1>9, <1>10, <1>11

LEMMA ExecutedStep == ASSUME RunnerIInv, NEW n \in Polls, Executed(n) PROVE RunnerIInv'
<1>1. /\ poll[n].at = "executing" /\ MovesTo(n, "submitting") /\ UNCHANGED <<log, programs, processed, rates, concurrent, seen>>
      /\ \/ MarkCall(poll[n].call.id, "completed") /\ Count(poll[n].call.program, "success")
         \/ MarkCall(poll[n].call.id, "failed") /\ Count(poll[n].call.program, "failure")
  BY DEF Executed
<1>2. PollTypes /\ CountsAreRunning /\ NumberTypes
  BY DEF RunnerIInv
<1>3. /\ \A m \in Polls \ {n} : poll'[m] = poll[m]
      /\ poll'[n].at = "submitting" /\ poll'[n].call = poll[n].call
  BY <1>1, <1>2, PollMoves DEF PollTypes, PollStages, Busy
<1>4. CountsAreRunning'
  BY <1>1, <1>2, <1>3, CountsKept DEF Underway
<1>5. concurrent' \in [ProgramIds \cup {"total"} -> Nat]
  BY <1>1, <1>2 DEF NumberTypes
<1> QED BY <1>1, <1>4, <1>5, RunEnds

LEMMA ExecutionThrowsStep == ASSUME RunnerIInv, NEW n \in Polls, ExecutionThrows(n) PROVE RunnerIInv'
<1>1. /\ poll[n].at = "executing" /\ MovesTo(n, "next") /\ UNCHANGED <<log, programs, processed, rates, seen>>
      /\ MarkCall(poll[n].call.id, "failed") /\ Count(poll[n].call.program, "failure")
      /\ concurrent' = [concurrent EXCEPT ![poll[n].call.program] = @ - 1, !["total"] = @ - 1]
  BY DEF ExecutionThrows, GivenBack
<1>2. PollTypes /\ CountsAreRunning /\ NumberTypes
  BY DEF RunnerIInv
<1>3. /\ \A m \in Polls \ {n} : poll'[m] = poll[m]
      /\ poll'[n].at = "next"
      /\ poll[n].call.program \in ProgramIds
  BY <1>1, <1>2, PollMoves, CallFacts DEF PollTypes, PollStages, Busy
<1>4. CountsAreRunning' /\ concurrent' \in [ProgramIds \cup {"total"} -> Nat]
  BY <1>1, <1>2, <1>3, CountsDown DEF Underway
<1> QED BY <1>1, <1>4, RunEnds

LEMMA SubmittedStep == ASSUME RunnerIInv, NEW n \in Polls, Submitted(n) PROVE RunnerIInv'
<1> USE DEF RunnerIInv
<1>1. PICK e : e = poll[n].call
  OBVIOUS
<1>2. /\ UNCHANGED <<log, programs, processed, runs, rates, stats>> /\ poll[n].at = "submitting" /\ e \in CallEvents
      /\ concurrent' = [concurrent EXCEPT ![e.program] = @ - 1, !["total"] = @ - 1]
      /\ seen' = seen \/ seen' = [seen EXCEPT !.submitted[e.id] = @ + 1]
  BY <1>1 DEF Submitted, GivenBack, PollTypes, Busy
<1>3. e.program \in ProgramIds /\ e.id \in CallIds
  BY <1>2, CallFacts
<1>4. /\ poll' \in [Polls -> PollRecord] /\ \A m \in Polls \ {n} : poll'[m] = poll[m]
      /\ poll'[n].at = "next" /\ \A m \in Polls : poll'[m].at \in Busy => poll'[m].call \in CallEvents
  BY <1>1, <1>2, PollMoves DEF Submitted, PollStages, Busy
<1>5. CountsAreRunning' /\ concurrent' \in [ProgramIds \cup {"total"} -> Nat]
  BY <1>1, <1>2, <1>3, <1>4, CountsDown DEF Underway
<1>6. /\ seen' \in [begun : [CallIds -> Nat], submitted : [CallIds -> Nat],
                    ended : [ProgramIds -> Nat], window : [Callers -> Nat]]
      /\ seen'.begun = seen.begun /\ seen'.ended = seen.ended /\ seen'.window = seen.window
      /\ \A i \in CallIds : seen'.submitted[i] \in {seen.submitted[i]} \cup (IF i = e.id THEN {seen.submitted[i] + 1} ELSE {})
  <2>1. seen \in [begun : [CallIds -> Nat], submitted : [CallIds -> Nat], ended : [ProgramIds -> Nat], window : [Callers -> Nat]]
    BY DEF NumberTypes
  <2>2. CASE seen' = seen
    BY <2>1, <2>2
  <2>3. CASE seen' = [seen EXCEPT !.submitted[e.id] = @ + 1]
    <3>1. /\ seen'.submitted = [seen.submitted EXCEPT ![e.id] = @ + 1] /\ seen.submitted \in [CallIds -> Nat]
          /\ seen'.begun = seen.begun /\ seen'.ended = seen.ended /\ seen'.window = seen.window
          /\ seen' = [begun |-> seen.begun, submitted |-> seen'.submitted, ended |-> seen.ended, window |-> seen.window]
      BY <2>1, <2>3
    <3>2. /\ seen'.submitted \in [CallIds -> Nat] /\ seen'.submitted[e.id] = seen.submitted[e.id] + 1
          /\ \A i \in CallIds : i # e.id => seen'.submitted[i] = seen.submitted[i]
      BY <1>3, <3>1
    <3> QED BY <2>1, <3>1, <3>2
  <2> QED BY <1>2, <2>2, <2>3
<1>7. PollTypes' /\ NumberTypes' /\ WindowsCover'
  BY <1>2, <1>4, <1>5, <1>6, WindowsKept DEF PollTypes, NumberTypes
<1>8. \A m \in Polls : poll'[m].at \in Busy => m # n /\ poll'[m] = poll[m]
  BY <1>4 DEF Busy
<1>9. OneHolder'
  BY <1>2, <1>4, HoldersStay DEF Busy
<1>10. RunsByStage'
  <2>1. \A m \in Polls : poll[m].at = "executing" => m # n
    BY <1>2
  <2> QED BY <1>2, <1>4, <1>8, <2>1 DEF RunsByStage, Busy
<1>11. HistoryOfRuns'
  <2>1. /\ e.id \in DOMAIN runs /\ runs[e.id] # "rejected" /\ seen.begun[e.id] = 1 /\ seen.submitted[e.id] = 0
    BY <1>1, <1>2, <1>3 DEF RunsByStage, HistoryOfRuns, Busy
  <2>2. \A i \in CallIds : seen'.submitted[i] <= seen'.begun[i]
    <3> SUFFICES ASSUME NEW i \in CallIds PROVE seen'.submitted[i] <= seen'.begun[i]
      OBVIOUS
    <3>1. seen.submitted[i] <= seen.begun[i] /\ seen'.begun[i] = seen.begun[i]
      BY <1>6 DEF HistoryOfRuns
    <3>2. CASE i = e.id
      <4>1. seen'.submitted[i] \in {0, 1}
        BY <1>6, <2>1, <3>2
      <4> QED BY <2>1, <3>1, <3>2, <4>1
    <3>3. CASE i # e.id
      BY <1>6, <3>1, <3>3
    <3> QED BY <3>2, <3>3
  <2>3. ASSUME NEW m \in Polls, poll'[m].at \in Busy PROVE seen'.submitted[poll'[m].call.id] = 0
    <3>1. m # n /\ poll'[m] = poll[m] /\ poll[m].call \in CallEvents
      BY <1>8, <2>3 DEF PollTypes
    <3>2. poll[m].call.id # e.id /\ poll[m].call.id \in CallIds
      BY <1>1, <1>2, <2>3, <3>1, CallFacts DEF OneHolder, Busy
    <3> QED BY <1>6, <2>3, <3>1, <3>2 DEF HistoryOfRuns
  <2> QED BY <1>2, <1>6, <2>2, <2>3 DEF HistoryOfRuns
<1>12. RequestsAddUp'
  <2>1. ASSUME NEW q \in ProgramIds
        PROVE  /\ stats'[q].requests = stats[q].requests /\ stats[q].requests \in Nat
               /\ Ends'[q] = Ends[q] /\ Ends[q] \in Nat
    <3>1. /\ stats[q] \in [requests : Nat, success : Nat, failure : Nat, rejected : Nat]
          /\ stats'[q] = stats[q] /\ seen.ended[q] \in Nat /\ seen'.ended[q] = seen.ended[q]
      BY <1>2, <1>6 DEF NumberTypes
    <3> QED BY <3>1 DEF Ends
  <2>2. ASSUME NEW q \in ProgramIds
        PROVE  stats'[q].requests - stats[q].requests + (IF poll[n].at \in {"tier", "executing"} /\ poll[n].call.program = q THEN 1 ELSE 0)
                = Ends'[q] - Ends[q] + (IF poll'[n].at \in {"tier", "executing"} /\ poll'[n].call.program = q THEN 1 ELSE 0)
    BY <1>2, <1>4, <2>1
  <2> QED BY <1>4, <1>7, <2>2, RequestsMove
<1> QED BY <1>5, <1>7, <1>9, <1>10, <1>11, <1>12

-----------------------------------------------------------------------------
LEMMA RunnerStep == RunnerIInv /\ [RunnerNext]_runner => RunnerIInv'
<1> SUFFICES ASSUME RunnerIInv, [RunnerNext]_runner PROVE RunnerIInv'
  OBVIOUS
<1>1. CASE UNCHANGED runner
  <2>1. UNCHANGED <<log, on, programs, poll, processed, runs, rates, concurrent, stats, seen>>
    BY <1>1 DEF runner
  <2>2. PollTypes' /\ NumberTypes' /\ WindowsCover'
    BY <2>1 DEF RunnerIInv, PollTypes, NumberTypes, WindowsCover, CallsCounted, MostCalls
  <2> QED BY <2>1, <2>2, RunsUntouched DEF RunnerIInv
<1>2. ASSUME NEW e \in CallEvents, LogCall(e) PROVE RunnerIInv'
  BY <1>2, LogSteps
<1>3. ASSUME NEW e \in CallEvents, DryRun(e) PROVE RunnerIInv'
  BY <1>3, DryRunStep
<1>4. ASSUME UnlogCall \/ StartRunner \/ StopRunner PROVE RunnerIInv'
  BY <1>4, LogSteps
<1>5. ASSUME UpdateConfig \/ \E c \in Changed : SetProgram(c) PROVE RunnerIInv'
  BY <1>5, ProgramSteps
<1>6. ASSUME NEW w \in Windows, HourPasses(w) PROVE RunnerIInv'
  BY <1>6, HourPassesStep
<1>7. ASSUME NEW n \in Polls, Poll(n) PROVE RunnerIInv'
  BY <1>7, PollStarts
<1>8. ASSUME NEW n \in Polls, PollStep(n) PROVE RunnerIInv'
  BY <1>8, TakeStep, TierFailsStep, RejectStep, ExecuteStep, ExecutedStep, ExecutionThrowsStep, SubmittedStep DEF PollStep
<1> QED BY <1>1, <1>2, <1>3, <1>4, <1>5, <1>6, <1>7, <1>8 DEF RunnerNext

LEMMA RunnerImplies == RunnerIInv => RunsAddUp
<1> SUFFICES ASSUME RunnerIInv PROVE RunsAddUp
  OBVIOUS
<1> USE DEF RunnerIInv
<1>1. ASSUME NEW i \in CallIds
      PROVE  /\ seen.begun[i] <= 1 /\ seen.submitted[i] <= seen.begun[i]
             /\ seen.begun[i] = 1 <=> i \in DOMAIN runs /\ runs[i] # "rejected"
             /\ i \in DOMAIN runs /\ runs[i] = "running" <=> \E n \in Polls : poll[n].at = "executing" /\ poll[n].call.id = i
  <2>1. seen.begun[i] <= 1 /\ (seen.begun[i] = 1 <=> i \in DOMAIN runs /\ runs[i] # "rejected")
    BY DEF HistoryOfRuns
  <2>2. seen.submitted[i] <= seen.begun[i]
    BY DEF HistoryOfRuns
  <2>3. i \in DOMAIN runs /\ runs[i] = "running" <=> \E n \in Polls : poll[n].at = "executing" /\ poll[n].call.id = i
    BY DEF RunsByStage
  <2> QED BY <2>1, <2>2, <2>3
<1>2. ASSUME NEW c \in Callers PROVE seen.window[c] <= MostCalls
  <2>1. seen.window[c] \in Nat /\ CallsCounted[c] \in Nat /\ MostCalls \in Nat
    BY RunnerNumbers DEF NumberTypes, Windows, CallsCounted, MostCalls
  <2> QED BY <2>1 DEF WindowsCover
<1> QED BY <1>1, <1>2 DEF RunsAddUp, RunsOnce, MostCalls

(* However polls overlap, calls are logged twice and programs change (processedCallIds, *)
(* executions, PolicyEngine): a call runs at most once and its result is submitted at    *)
(* most once, the executions under way are those counted and within both limits, every   *)
(* request has ended in one way or is under way, and no window of a caller sees more      *)
(* runs than its limit.                                                             *)
THEOREM RunsAreCounted == RunnerSpec => []RunsAddUp
<1>1. RunnerSpec => []RunnerIInv
  BY RunnerStarts, RunnerStep, PTL DEF RunnerSpec
<1> QED BY <1>1, RunnerImplies, PTL

-----------------------------------------------------------------------------
(* The copy of a store.                                                         *)

Pairs == [key : Keys, value : Nat]
Arrivals == [key : Keys, value : Nat \cup {Damaged}]
UniqueKeys(d) == \A m, n \in DOMAIN d : d[m].key = d[n].key => m = n

DataTypes ==
    /\ data \in Seq(Pairs) /\ UniqueKeys(data) /\ height \in Nat
    /\ batch \in Seq([type : {"put", "delete"}, key : Keys])

\* The copies are of the store as it was; the number of chunks is told of the first.
OutTypes ==
    /\ out \in [pc : {"idle", "counted", "cut"}, first : Seq(Pairs), second : Seq(Pairs), total : Nat]
    /\ UniqueKeys(out.second)
    /\ out.pc # "idle" => out.total = Ceil(Len(out.first))

ImportTypes ==
    /\ target \in Seq(Arrivals)
    /\ import \in [before : Seq(Pairs), got : Seq(Nat), left : Seq(Arrivals), verified : BOOLEAN]
    /\ out.pc # "cut" => import.got = <<>>
    /\ import.got = <<>> => target = import.before /\ import.left = <<>>
    /\ ToSet(import.got) \subseteq Indexes

\* Where chunk i ends, and what it holds.
End(i) == IF i * ChunkSize + ChunkSize <= Len(out.second) THEN i * ChunkSize + ChunkSize ELSE Len(out.second)
Slice(i) == i * ChunkSize + 1..End(i)

\* What arrived is in the target or about to be written; chunks in order are a prefix.
Arrived ==
    /\ ToSet(import.left) \subseteq ToSet(out.second)
    /\ ToSet(target) \subseteq ToSet(out.second) \cup ToSet(import.before)
    /\ \A i \in ToSet(import.got) : \A j \in Slice(i) :
          out.second[j] \in ToSet(target) \cup ToSet(import.left)
    /\ InOrder /\ import.before = <<>> /\ import.got # <<>> =>
          target \o import.left = SubSeq(out.second, 1, End(Len(import.got) - 1))

StorageIInv == DataTypes /\ OutTypes /\ ImportTypes /\ (out.pc = "cut" /\ import.verified => Arrived)

-----------------------------------------------------------------------------
(* Chunks.                                                                 *)

LEMMA Multiples ==
    ASSUME NEW i \in Nat, NEW k \in Nat, i <= k
    PROVE  /\ ChunkSize \in Nat \ {0} /\ i * ChunkSize \in Nat /\ k * ChunkSize \in Nat
           /\ (i + 1) * ChunkSize = i * ChunkSize + ChunkSize
           /\ i * ChunkSize <= k * ChunkSize
<1>1. PICK c \in Nat \ {0} : c = ChunkSize
  BY StorageAssumption
<1>2. i * c \in Nat /\ k * c \in Nat /\ (i + 1) * c = i * c + c
  BY ONLY i \in Nat, k \in Nat, c \in Nat, SMTT(20)
<1>3. i * c <= k * c
  BY ONLY i \in Nat, k \in Nat, c \in Nat, i <= k, SMTT(20)
<1> QED BY <1>1, <1>2, <1>3

LEMMA CeilBounds ==
    ASSUME NEW n \in Nat
    PROVE  /\ Ceil(n) \in Nat /\ n <= Ceil(n) * ChunkSize
           /\ \A i \in 0..Ceil(n) - 1 : i * ChunkSize < n
<1>1. PICK c \in Nat \ {0} : c = ChunkSize
  BY StorageAssumption
<1>2. PICK q, r : q = (n + c - 1) \div c /\ r = (n + c - 1) % c
  OBVIOUS
<1>3. q \in Nat /\ r \in 0..c - 1 /\ n + c - 1 = c * q + r
  BY ONLY n \in Nat, c \in Nat \ {0}, <1>2, SMTT(20)
<1>4. c * q = q * c
  BY ONLY <1>3, c \in Nat, SMTT(20)
<1>5. n <= q * c /\ q * c - c < n
  BY ONLY <1>3, <1>4, n \in Nat, c \in Nat \ {0}, SMTT(20)
<1>6. ASSUME NEW i \in 0..q - 1 PROVE i * c < n
  <2>1. i \in Nat /\ q - 1 \in Nat /\ i <= q - 1
    BY <1>3
  <2>2. i * c <= (q - 1) * c /\ (q - 1 + 1) * c = (q - 1) * c + c
    BY <1>1, <2>1, Multiples
  <2>3. (q - 1) * c \in Nat /\ i * c \in Nat /\ q * c \in Nat /\ q - 1 + 1 = q
    BY <1>1, <1>3, <2>1, Multiples
  <2> QED BY ONLY <1>5, <2>2, <2>3, n \in Nat, c \in Nat \ {0}
<1> QED BY <1>1, <1>2, <1>3, <1>5, <1>6 DEF Ceil

\* Every place is in a chunk.
LEMMA InSomeChunk ==
    ASSUME out.second \in Seq(Pairs), NEW j \in 1..Len(out.second)
    PROVE  \E i \in Indexes : j \in Slice(i)
<1>1. PICK c \in Nat \ {0} : c = ChunkSize
  BY StorageAssumption
<1>2. PICK n \in Nat : n = Len(out.second)
  BY LenProperties
<1>3. PICK q, r : q = (j - 1) \div c /\ r = (j - 1) % c
  OBVIOUS
<1>4. j - 1 \in Nat
  OBVIOUS
<1>5. q \in Nat /\ r \in 0..c - 1 /\ j - 1 = c * q + r
  BY ONLY <1>3, <1>4, c \in Nat \ {0}, SMTT(20)
<1>6. c * q = q * c /\ q * c \in Nat
  BY ONLY <1>5, c \in Nat, SMTT(20)
<1>7. q * c + 1 <= j /\ j <= q * c + c
  BY ONLY <1>5, <1>6, <1>4, c \in Nat \ {0}, j \in Int, SMTT(20)
<1>8. Ceil(n) \in Nat /\ n <= Ceil(n) * c
  BY <1>1, CeilBounds
<1>9. q < Ceil(n)
  <2> SUFFICES ASSUME Ceil(n) <= q PROVE FALSE
    BY <1>5, <1>8
  <2>1. Ceil(n) * c <= q * c
    BY <1>1, <1>5, <1>8, Multiples
  <2>2. Ceil(n) * c \in Nat
    BY <1>1, <1>8, Multiples
  <2> QED BY <1>2, <1>6, <1>7, <1>8, <2>1, <2>2
<1>10. q \in Indexes
  BY <1>2, <1>5, <1>8, <1>9 DEF Indexes
<1>11. j \in Slice(q)
  BY <1>1, <1>2, <1>6, <1>7 DEF Slice, End
<1> QED BY <1>10, <1>11

\* The part of a sequence after b and up to e.
LEMMA PartOf ==
    ASSUME NEW S, NEW s, NEW b \in Nat, NEW e \in Nat, b <= e, \A k \in b + 1..e : s[k] \in S
    PROVE  /\ SubSeq(s, b + 1, e) \in Seq(S) /\ Len(SubSeq(s, b + 1, e)) = e - b
           /\ \A m \in 1..e - b : SubSeq(s, b + 1, e)[m] = s[b + m]
<1>1. PICK a \in Int : a = b + 1
  OBVIOUS
<1>2. e \in Int /\ \A k \in a..e : s[k] \in S
  BY <1>1
<1>3. /\ SubSeq(s, a, e) \in Seq(S)
      /\ Len(SubSeq(s, a, e)) = IF a <= e THEN e - a + 1 ELSE 0
      /\ \A m \in 1..e - a + 1 : SubSeq(s, a, e)[m] = s[a + m - 1]
  BY <1>2, SubSeqProperties
<1>4. e - a + 1 = e - b /\ \A m \in 1..e - b : a + m - 1 = b + m
  BY <1>1
<1>5. Len(SubSeq(s, a, e)) = e - b
  <2>1. a <= e \/ e = b
    BY <1>1
  <2> QED BY <1>3, <1>4, <2>1
<1> QED BY <1>1, <1>3, <1>4, <1>5

\* A chunk is a part of the copy.
LEMMA ChunkIsPart ==
    ASSUME out.second \in Seq(Pairs), NEW i \in Indexes
    PROVE  /\ i \in Nat /\ Chunk(i).index = i /\ Chunk(i).hash = Chunk(i).entries
           /\ i * ChunkSize \in Nat /\ i * ChunkSize < End(i) /\ End(i) \in 1..Len(out.second)
           /\ Chunk(i).entries = SubSeq(out.second, i * ChunkSize + 1, End(i))
           /\ Chunk(i).entries \in Seq(Pairs) /\ Len(Chunk(i).entries) = End(i) - i * ChunkSize
           /\ \A m \in 1..End(i) - i * ChunkSize : Chunk(i).entries[m] = out.second[i * ChunkSize + m]
<1>1. PICK c \in Nat \ {0} : c = ChunkSize
  BY StorageAssumption
<1>2. PICK s \in Seq(Pairs) : s = out.second
  OBVIOUS
<1>3. PICK n \in Nat : n = Len(s)
  BY LenProperties
<1>4. i \in Nat /\ i * c < n
  <2>1. Ceil(n) \in Nat /\ \A k \in 0..Ceil(n) - 1 : k * c < n
    BY <1>1, CeilBounds
  <2> QED BY <1>2, <1>3, <2>1 DEF Indexes
<1>5. PICK b \in Nat : b = i * c
  BY <1>1, <1>4, Multiples
<1>6. PICK r : r = Rest(i)
  OBVIOUS
<1>7. \A k \in 1..n : s[k] \in Pairs
  BY <1>3, ElementOfSeq
<1>8. r = SubSeq(s, b + 1, n)
  BY <1>1, <1>2, <1>3, <1>5, <1>6 DEF Rest
<1>9. r \in Seq(Pairs) /\ Len(r) = n - b /\ \A m \in 1..n - b : r[m] = s[b + m]
  <2>1. b <= n /\ \A k \in b + 1..n : s[k] \in Pairs
    BY <1>4, <1>5, <1>7
  <2>2. /\ SubSeq(s, b + 1, n) \in Seq(Pairs) /\ Len(SubSeq(s, b + 1, n)) = n - b
        /\ \A m \in 1..n - b : SubSeq(s, b + 1, n)[m] = s[b + m]
    BY <2>1, PartOf
  <2> QED BY <1>8, <2>2
<1>10. PICK e : e = End(i)
  OBVIOUS
<1>11. e \in 1..n /\ b < e /\ e - b = IF n - b < c THEN n - b ELSE c
  <2>1. e = IF b + c <= n THEN b + c ELSE n
    BY <1>1, <1>2, <1>3, <1>5, <1>10 DEF End
  <2>2. b < n
    BY <1>4, <1>5
  <2> QED BY ONLY <2>1, <2>2, b \in Nat, n \in Nat, c \in Nat \ {0}
<1>12. PICK l \in 1..n - b : l = e - b
  BY <1>11
<1>13. Chunk(i).entries = SubSeq(r, 1, l)
  BY <1>1, <1>6, <1>9, <1>11, <1>12 DEF Chunk
<1>14. /\ SubSeq(r, 1, l) \in Seq(Pairs) /\ Len(SubSeq(r, 1, l)) = l
       /\ \A m \in 1..l : SubSeq(r, 1, l)[m] = s[b + m]
  <2>1. 0 <= l /\ \A m \in 0 + 1..l : r[m] \in Pairs
    BY <1>9, ElementOfSeq
  <2>2. /\ SubSeq(r, 0 + 1, l) \in Seq(Pairs) /\ Len(SubSeq(r, 0 + 1, l)) = l - 0
        /\ \A m \in 1..l - 0 : SubSeq(r, 0 + 1, l)[m] = r[0 + m]
    BY <2>1, PartOf
  <2>3. 0 + 1 = 1 /\ l - 0 = l /\ \A m \in 1..l : 0 + m = m /\ m \in 1..n - b
    OBVIOUS
  <2> QED BY <1>9, <2>2, <2>3
<1>15. SubSeq(r, 1, l) = SubSeq(s, b + 1, e)
  <2>1. b <= e /\ e \in Nat /\ \A k \in b + 1..e : s[k] \in Pairs
    BY <1>7, <1>11
  <2>2. /\ SubSeq(s, b + 1, e) \in Seq(Pairs) /\ Len(SubSeq(s, b + 1, e)) = e - b
        /\ \A m \in 1..e - b : SubSeq(s, b + 1, e)[m] = s[b + m]
    BY <2>1, PartOf
  <2>3. PICK x \in Seq(Pairs), y \in Seq(Pairs) : x = SubSeq(r, 1, l) /\ y = SubSeq(s, b + 1, e)
    BY <1>14, <2>2
  <2>4. Len(x) = Len(y) /\ \A m \in 1..Len(x) : x[m] = y[m]
    BY <1>12, <1>14, <2>2, <2>3
  <2>5. x = y
    BY <2>4, SeqEqual
  <2> QED BY <2>3, <2>5
<1>16. Chunk(i).index = i /\ Chunk(i).hash = Chunk(i).entries
  BY DEF Chunk
<1> QED BY <1>1, <1>2, <1>3, <1>4, <1>5, <1>10, <1>11, <1>12, <1>13, <1>14, <1>15, <1>16

-----------------------------------------------------------------------------
(* The map.                                                                *)

LEMMA PutProperties ==
    ASSUME NEW R, NEW d \in Seq(R), NEW k, NEW v, Entry(k, v) \in R
    PROVE  /\ Put(d, k, v) \in Seq(R)
           /\ UniqueKeys(d) => UniqueKeys(Put(d, k, v))
           /\ Entry(k, v) \in ToSet(Put(d, k, v))
           /\ \A x \in ToSet(d) : x.key # k => x \in ToSet(Put(d, k, v))
           /\ \A x \in ToSet(Put(d, k, v)) : x = Entry(k, v) \/ (x \in ToSet(d) /\ x.key # k)
           /\ k \notin KeysOf(d) => Put(d, k, v) = Append(d, Entry(k, v))
<1>1. PICK e \in R : e = Entry(k, v)
  OBVIOUS
<1>2. e.key = k
  BY <1>1 DEF Entry
<1>3. PICK n \in Nat : n = Len(d) /\ DOMAIN d = 1..n /\ d \in [1..n -> R]
  BY LenProperties
<1>4. PICK p : p = Put(d, k, v)
  OBVIOUS
<1>5. CASE k \in KeysOf(d)
  <2>1. p = [m \in 1..n |-> IF d[m].key = k THEN e ELSE d[m]]
    BY <1>1, <1>3, <1>4, <1>5 DEF Put
  <2>2. p \in [1..n -> R]
    BY <1>3, <2>1
  <2>3. p \in Seq(R)
    BY <1>3, <2>2, SeqDef
  <2>4. \A m \in 1..n : p[m].key = d[m].key
    BY <1>2, <2>1
  <2>5. DOMAIN p = 1..n
    BY <2>1
  <2>6. PICK m \in 1..n : d[m].key = k
    BY <1>3, <1>5 DEF KeysOf
  <2>7. p[m] = e
    BY <2>1, <2>6
  <2>8. e \in ToSet(p)
    BY <2>5, <2>7 DEF ToSet
  <2>9. ASSUME NEW x \in ToSet(d), x.key # k PROVE x \in ToSet(p)
    BY <1>3, <2>1, <2>5, <2>9 DEF ToSet
  <2>10. ASSUME NEW x \in ToSet(p) PROVE x = e \/ (x \in ToSet(d) /\ x.key # k)
    BY <1>3, <2>1, <2>5 DEF ToSet
  <2>11. UniqueKeys(d) => UniqueKeys(p)
    BY <1>3, <2>4, <2>5 DEF UniqueKeys
  <2> QED BY <1>1, <1>4, <1>5, <2>3, <2>8, <2>9, <2>10, <2>11
<1>6. CASE k \notin KeysOf(d)
  <2>1. p = Append(d, e)
    BY <1>1, <1>4, <1>6 DEF Put
  <2>2. /\ p \in Seq(R) /\ Len(p) = n + 1
        /\ \A m \in 1..n : p[m] = d[m]
        /\ p[n + 1] = e
    BY <1>3, <2>1, AppendProperties
  <2>3. DOMAIN p = 1..(n + 1)
    BY <2>2, LenProperties
  <2>4. \A m \in 1..n : d[m].key # k
    BY <1>3, <1>6 DEF KeysOf
  <2>5. e \in ToSet(p)
    BY <1>3, <2>2, <2>3 DEF ToSet
  <2>6. ASSUME NEW x \in ToSet(d) PROVE x \in ToSet(p)
    <3>1. PICK m \in 1..n : x = d[m]
      BY <1>3 DEF ToSet
    <3>2. m \in 1..(n + 1) /\ x = p[m]
      BY <1>3, <2>2, <3>1
    <3> QED BY <2>3, <3>2 DEF ToSet
  <2>7. ASSUME NEW x \in ToSet(p) PROVE x = e \/ (x \in ToSet(d) /\ x.key # k)
    <3>1. PICK m \in 1..(n + 1) : x = p[m]
      BY <2>3 DEF ToSet
    <3>2. m \in 1..n \/ m = n + 1
      BY <1>3
    <3> QED BY <1>3, <2>2, <2>4, <3>1, <3>2 DEF ToSet
  <2>8. ASSUME UniqueKeys(d) PROVE UniqueKeys(p)
    <3>1. ASSUME NEW a \in 1..(n + 1), NEW b \in 1..(n + 1), p[a].key = p[b].key PROVE a = b
      <4>1. (a \in 1..n \/ a = n + 1) /\ (b \in 1..n \/ b = n + 1)
        BY <1>3
      <4>2. CASE a \in 1..n /\ b \in 1..n
        BY <1>3, <2>2, <2>8, <3>1, <4>2 DEF UniqueKeys
      <4>3. CASE a = n + 1 /\ b \in 1..n
        BY <1>2, <2>2, <2>4, <3>1, <4>3
      <4>4. CASE a \in 1..n /\ b = n + 1
        BY <1>2, <2>2, <2>4, <3>1, <4>4
      <4> QED BY <4>1, <4>2, <4>3, <4>4
    <3> QED BY <2>3, <3>1 DEF UniqueKeys
  <2> QED BY <1>1, <1>4, <2>1, <2>2, <2>5, <2>6, <2>7, <2>8
<1> QED BY <1>5, <1>6

LEMMA DeleteProperties ==
    ASSUME NEW d \in Seq(Pairs), UniqueKeys(d), NEW k
    PROVE  /\ Delete(d, k) \in Seq(Pairs) /\ UniqueKeys(Delete(d, k))
           /\ \A x \in ToSet(Delete(d, k)) : x \in ToSet(d) /\ x.key # k
<1> DEFINE S == {e \in ToSet(d) : e.key # k}
           n == Cardinality(KeptIn(d, S))
<1>1. PICK t : t = Filtered(d, S)
  OBVIOUS
<1>2. t \in Seq(Pairs)
  <2> HIDE DEF S
  <2> QED BY <1>1, FilteredProperties
<1>3. n \in Nat /\ DOMAIN t = 1..n
  <2> HIDE DEF S
  <2>1. n \in 0..Len(d) /\ DOMAIN t = 1..n
    BY <1>1, FilteredEnumerates
  <2> QED BY <2>1, LenProperties
<1>4. PICK f \in [1..n -> KeptIn(d, S)] :
         /\ \A i \in DOMAIN t : t[i] = d[f[i]]
         /\ \A i, j \in DOMAIN t : i < j => f[i] < f[j]
  <2> HIDE DEF S
  <2> QED BY <1>1, FilteredEnumerates
<1>5. UniqueKeys(t)
  <2> SUFFICES ASSUME NEW i \in 1..n, NEW j \in 1..n, t[i].key = t[j].key PROVE i = j
    BY <1>3 DEF UniqueKeys
  <2>1. f[i] \in DOMAIN d /\ f[j] \in DOMAIN d
    BY <1>4 DEF KeptIn
  <2>2. f[i] = f[j]
    BY <1>3, <1>4, <2>1 DEF UniqueKeys
  <2>3. f[i] \in Nat
    BY <2>1, LenProperties
  <2>4. i < j => f[i] < f[j]
    BY <1>3, <1>4
  <2>5. j < i => f[j] < f[i]
    BY <1>3, <1>4
  <2> HIDE DEF n
  <2> QED BY <1>3, <2>2, <2>3, <2>4, <2>5
<1>6. \A x \in ToSet(t) : x \in ToSet(d) /\ x.key # k
  <2>1. \A i \in DOMAIN t : t[i] \in S
    <3> HIDE DEF S
    <3>1. \A i \in DOMAIN t : \E j \in DOMAIN d : t[i] = d[j] /\ d[j] \in S
      BY <1>1, FilteredProperties
    <3> QED BY <3>1
  <2> QED BY <2>1 DEF ToSet
<1> QED BY <1>1, <1>2, <1>5, <1>6 DEF Delete

-----------------------------------------------------------------------------
(* The invariant.                                                          *)

LEMMA StorageStart == StorageInit => StorageIInv
<1> SUFFICES ASSUME StorageInit PROVE StorageIInv
  OBVIOUS
<1>1. Genesis \in Seq(Pairs) /\ UniqueKeys(Genesis) /\ Imports \subseteq Seq(Pairs)
  BY StorageAssumption DEF Pairs, UniqueKeys
<1>2. \A S : <<>> \in Seq(S)
  OBVIOUS
<1>3. DataTypes
  BY <1>1, <1>2 DEF StorageInit, DataTypes
<1>4. OutTypes
  BY <1>2 DEF StorageInit, OutTypes, NoExport, UniqueKeys
<1>5. target \in Seq(Pairs)
  BY <1>1, <1>2 DEF StorageInit
<1>6. target \in Seq(Arrivals)
  <2>1. Pairs \subseteq Arrivals
    BY DEF Pairs, Arrivals
  <2> QED BY <1>5, <2>1, SeqMonotonic
<1>7. ImportTypes
  BY <1>2, <1>5, <1>6 DEF StorageInit, ImportTypes, ToSet
<1>8. out.pc # "cut"
  BY DEF StorageInit, NoExport
<1> QED BY <1>3, <1>4, <1>7, <1>8 DEF StorageIInv

LEMMA WritesKeep ==
    ASSUME StorageIInv, Write
    PROVE  StorageIInv'
<1> USE DEF StorageIInv
<1>1. out' = out /\ target' = target /\ import' = import
  BY DEF Write, StartBatch, BatchOp, copy
<1>2. DataTypes'
  <2>1. ASSUME NEW b \in Batches, StartBatch(b) PROVE DataTypes'
    <3>1. b \in Seq([type : {"put", "delete"}, key : Keys])
      BY StorageAssumption
    <3> QED BY <2>1, <3>1 DEF StartBatch, DataTypes, UniqueKeys
  <2>2. CASE BatchOp
    <3>1. PICK op \in [type : {"put", "delete"}, key : Keys] : op = Head(batch)
      <4>1. batch # <<>>
        BY <2>2 DEF BatchOp
      <4> QED BY <4>1, HeadTailProperties DEF DataTypes
    <3>2. PICK d : d = data'
      OBVIOUS
    <3>3. d = IF op.type = "put" THEN Put(data, op.key, height + 1) ELSE Delete(data, op.key)
      BY <2>2, <3>1, <3>2 DEF BatchOp
    <3>4. d \in Seq(Pairs) /\ UniqueKeys(d)
      <4>1. op.key \in Keys /\ height + 1 \in Nat
        BY <3>1 DEF DataTypes
      <4>2. Put(data, op.key, height + 1) \in Seq(Pairs) /\ UniqueKeys(Put(data, op.key, height + 1))
        <5>1. Entry(op.key, height + 1) \in Pairs
          BY <4>1 DEF Entry, Pairs
        <5> QED BY <5>1, PutProperties DEF DataTypes
      <4>3. Delete(data, op.key) \in Seq(Pairs) /\ UniqueKeys(Delete(data, op.key))
        BY DeleteProperties DEF DataTypes
      <4> QED BY <3>3, <4>2, <4>3
    <3>5. height' \in Nat /\ batch' \in Seq([type : {"put", "delete"}, key : Keys])
      <4>1. batch # <<>> /\ batch' = Tail(batch) /\ (height' = height + 1 \/ height' = height)
        BY <2>2 DEF BatchOp
      <4>2. Tail(batch) \in Seq([type : {"put", "delete"}, key : Keys])
        BY <4>1, HeadTailProperties DEF DataTypes
      <4> QED BY <4>1, <4>2 DEF DataTypes
    <3> QED BY <3>2, <3>4, <3>5 DEF DataTypes, UniqueKeys
  <2> QED BY <2>1, <2>2 DEF Write
<1>3. OutTypes'
  BY <1>1 DEF OutTypes, UniqueKeys
<1>4. ImportTypes'
  BY <1>1 DEF ImportTypes, Indexes
<1>5. (out.pc = "cut" /\ import.verified => Arrived)'
  BY <1>1 DEF Arrived, Slice, End, InOrder
<1> QED BY <1>2, <1>3, <1>4, <1>5

LEMMA CountKeeps ==
    ASSUME StorageIInv, ExportCount
    PROVE  StorageIInv'
<1> USE DEF StorageIInv
<1>1. PICK o : o = out
  OBVIOUS
<1>2. /\ o.pc = "idle" /\ UNCHANGED <<data, batch, height, target, import>>
      /\ out' = [o EXCEPT !.pc = "counted", !.first = data, !.total = Ceil(Len(data))]
  BY <1>1 DEF ExportCount, store
<1>3. DataTypes'
  BY <1>2 DEF DataTypes, UniqueKeys
<1>4. o \in [pc : {"idle", "counted", "cut"}, first : Seq(Pairs), second : Seq(Pairs), total : Nat]
      /\ UniqueKeys(o.second)
  BY <1>1 DEF OutTypes
<1>5. data \in Seq(Pairs) /\ Ceil(Len(data)) \in Nat
  BY LenProperties, CeilBounds DEF DataTypes
<1>6. /\ out' \in [pc : {"idle", "counted", "cut"}, first : Seq(Pairs), second : Seq(Pairs), total : Nat]
      /\ out'.pc = "counted" /\ out'.first = data /\ out'.total = Ceil(Len(data)) /\ out'.second = o.second
  BY <1>2, <1>4, <1>5
<1>7. OutTypes'
  BY <1>4, <1>6 DEF OutTypes, UniqueKeys, Ceil
<1>8. ImportTypes'
  BY <1>1, <1>2, <1>6 DEF ImportTypes, Indexes
<1> QED BY <1>3, <1>6, <1>7, <1>8

LEMMA CutKeeps ==
    ASSUME StorageIInv, ExportCut
    PROVE  StorageIInv'
<1> USE DEF StorageIInv
<1>1. PICK o : o = out
  OBVIOUS
<1>2. /\ o.pc = "counted" /\ UNCHANGED <<data, batch, height, target, import>>
      /\ out' = [o EXCEPT !.pc = "cut", !.second = data]
  BY <1>1 DEF ExportCut, store
<1>3. DataTypes'
  BY <1>2 DEF DataTypes, UniqueKeys
<1>4. o \in [pc : {"idle", "counted", "cut"}, first : Seq(Pairs), second : Seq(Pairs), total : Nat]
      /\ o.total = Ceil(Len(o.first))
  BY <1>1, <1>2 DEF OutTypes
<1>5. data \in Seq(Pairs) /\ UniqueKeys(data)
  BY DEF DataTypes
<1>6. /\ out' \in [pc : {"idle", "counted", "cut"}, first : Seq(Pairs), second : Seq(Pairs), total : Nat]
      /\ out'.pc = "cut" /\ out'.first = o.first /\ out'.total = o.total /\ out'.second = data
  BY <1>2, <1>4, <1>5
<1>7. OutTypes'
  BY <1>4, <1>5, <1>6 DEF OutTypes, UniqueKeys, Ceil
<1>8. target = import.before /\ import.got = <<>> /\ import.left = <<>>
  BY <1>1, <1>2 DEF ImportTypes
<1>9. ImportTypes'
  BY <1>2, <1>6, <1>8 DEF ImportTypes, ToSet
<1>10. Arrived'
  BY <1>2, <1>8 DEF Arrived, ToSet
<1> QED BY <1>3, <1>7, <1>9, <1>10

LEMMA ReceiveKeeps ==
    ASSUME StorageIInv, Receive
    PROVE  StorageIInv'
<1> USE DEF StorageIInv
<1>1. /\ UNCHANGED <<data, batch, height, out, target>>
      /\ out.pc = "cut" /\ import.left = <<>>
  BY DEF Receive, store
<1>2. PICK i \in Indexes : Accept(Chunk(i)) \/ Accept([Chunk(i) EXCEPT !.entries[1].value = Damaged])
  BY DEF Receive
<1>3. PICK s \in Seq(Pairs) : s = out.second
  BY DEF OutTypes
<1>4. PICK b, e : b = i * ChunkSize /\ e = End(i)
  OBVIOUS
<1>5. PICK c : c = Chunk(i).entries
  OBVIOUS
<1>6. /\ i \in Nat /\ Chunk(i).index = i /\ Chunk(i).hash = c
      /\ b \in Nat /\ b < e /\ e \in 1..Len(s)
      /\ c = SubSeq(s, b + 1, e) /\ c \in Seq(Pairs) /\ Len(c) = e - b
      /\ \A m \in 1..e - b : c[m] = s[b + m]
  BY <1>3, <1>4, <1>5, ChunkIsPart
<1>7. PICK im : im = import
  OBVIOUS
<1>8. im \in [before : Seq(Pairs), got : Seq(Nat), left : Seq(Arrivals), verified : BOOLEAN]
  BY <1>7 DEF ImportTypes
<1>9. DataTypes' /\ OutTypes'
  BY <1>1 DEF DataTypes, OutTypes, UniqueKeys
<1>10. PICK g \in Seq(Nat) : g = Append(im.got, i)
  BY <1>6, <1>8, AppendProperties
<1>11. /\ Len(im.got) \in Nat /\ DOMAIN im.got = 1..Len(im.got) /\ DOMAIN g = 1..(Len(im.got) + 1)
       /\ Len(g) = Len(im.got) + 1
       /\ \A m \in 1..Len(im.got) : g[m] = im.got[m]
       /\ g[Len(im.got) + 1] = i
  BY <1>6, <1>8, <1>10, AppendProperties, LenProperties
<1>12. ToSet(g) = ToSet(im.got) \cup {i}
  <2>1. ASSUME NEW x \in ToSet(g) PROVE x \in ToSet(im.got) \cup {i}
    <3>1. PICK m \in 1..(Len(im.got) + 1) : x = g[m]
      BY <1>11 DEF ToSet
    <3>2. m \in 1..Len(im.got) \/ m = Len(im.got) + 1
      BY <1>11
    <3> QED BY <1>11, <3>1, <3>2 DEF ToSet
  <2>2. ASSUME NEW x \in ToSet(im.got) \cup {i} PROVE x \in ToSet(g)
    <3>1. CASE x = i
      BY <1>11, <3>1 DEF ToSet
    <3>2. CASE x \in ToSet(im.got)
      <4>1. PICK m \in 1..Len(im.got) : x = im.got[m]
        BY <1>11, <3>2 DEF ToSet
      <4>2. m \in 1..(Len(im.got) + 1) /\ x = g[m]
        BY <1>11, <4>1
      <4> QED BY <1>11, <4>2 DEF ToSet
    <3> QED BY <2>2, <3>1, <3>2
  <2> QED BY <2>1, <2>2
<1>13. ToSet(g) \subseteq Indexes
  BY <1>7, <1>12 DEF ImportTypes
<1>14. Pairs \subseteq Arrivals /\ g # <<>>
  BY <1>10, <1>6, <1>8, AppendProperties DEF Pairs, Arrivals
<1>15. CASE Accept([Chunk(i) EXCEPT !.entries[1].value = Damaged])
  <2>1. PICK d : d = [c EXCEPT ![1].value = Damaged]
    OBVIOUS
  <2>2. c[1] \in Pairs /\ 1 \in 1..Len(c) /\ DOMAIN c = 1..Len(c)
    BY <1>6, ElementOfSeq, LenProperties
  <2>3. [c[1] EXCEPT !.value = Damaged] \in Arrivals
    BY <2>2 DEF Pairs, Arrivals
  <2>4. c \in Seq(Arrivals)
    BY <1>6, <1>14, SeqMonotonic
  <2>5. d = [c EXCEPT ![1] = [c[1] EXCEPT !.value = Damaged]]
    BY <2>1, <2>2
  <2>6. d \in Seq(Arrivals)
    BY <2>2, <2>3, <2>4, <2>5, ExceptSeq
  <2>7. d # c
    <3>1. d[1].value = Damaged
      BY <2>2, <2>5 DEF Pairs
    <3>2. c[1].value # Damaged
      BY <2>2, StorageAssumption DEF Pairs
    <3> QED BY <3>1, <3>2
  <2>8. PICK ch : ch = [Chunk(i) EXCEPT !.entries[1].value = Damaged]
    OBVIOUS
  <2>9. ch.index = i /\ ch.entries = d /\ ch.hash = c
    BY <1>5, <1>6, <2>1, <2>8 DEF Chunk
  <2>10. import' = [im EXCEPT !.got = g, !.left = d, !.verified = FALSE]
    BY <1>7, <1>10, <1>15, <2>7, <2>8, <2>9 DEF Accept, Verified
  <2>11. /\ import' \in [before : Seq(Pairs), got : Seq(Nat), left : Seq(Arrivals), verified : BOOLEAN]
         /\ import'.got = g /\ import'.verified = FALSE
    BY <1>8, <1>10, <2>6, <2>10
  <2>12. ImportTypes'
    BY <1>1, <1>13, <1>14, <2>11 DEF ImportTypes, Indexes
  <2> QED BY <1>9, <2>11, <2>12
<1>16. CASE Accept(Chunk(i))
  <2>1. import' = [im EXCEPT !.got = g, !.left = c, !.verified = import.verified]
    <3>1. Verified(Chunk(i)) = import.verified
      BY <1>5, <1>6, <1>7, <1>8 DEF Verified
    <3> QED BY <1>5, <1>6, <1>7, <1>10, <1>16, <3>1 DEF Accept
  <2>2. c \in Seq(Arrivals)
    BY <1>6, <1>14, SeqMonotonic
  <2>3. /\ import' \in [before : Seq(Pairs), got : Seq(Nat), left : Seq(Arrivals), verified : BOOLEAN]
        /\ import'.got = g /\ import'.left = c /\ import'.before = im.before
        /\ import'.verified = im.verified
    BY <1>7, <1>8, <1>10, <2>1, <2>2
  <2>4. ImportTypes'
    BY <1>1, <1>13, <1>14, <2>3 DEF ImportTypes, Indexes
  <2>5. ASSUME import.verified PROVE Arrived'
    <3>1. Arrived
      BY <1>1, <2>5
    <3>2. DOMAIN s = 1..Len(s) /\ Len(s) \in Nat /\ DOMAIN c = 1..Len(c)
      BY <1>6, LenProperties
    <3>3. ToSet(c) \subseteq ToSet(s)
      <4>1. ASSUME NEW m \in 1..e - b PROVE s[b + m] \in ToSet(s)
        <5>1. b + m \in 1..Len(s)
          BY <1>6
        <5> QED BY <3>2, <5>1 DEF ToSet
      <4> QED BY <1>6, <3>2, <4>1 DEF ToSet
    <3>4. ToSet(target) \subseteq ToSet(s) \cup ToSet(im.before)
      BY <1>3, <1>7, <3>1 DEF Arrived
    <3>5. ASSUME NEW k \in ToSet(g), NEW j \in Slice(k) PROVE s[j] \in ToSet(target) \cup ToSet(c)
      <4>1. CASE k \in ToSet(im.got)
        <5>1. ToSet(import.left) = {}
          BY <1>1 DEF ToSet
        <5> QED BY <1>3, <1>7, <3>1, <3>5, <4>1, <5>1 DEF Arrived
      <4>2. CASE k = i
        <5>1. j \in b + 1..e
          BY <1>4, <3>5, <4>2 DEF Slice
        <5>2. j - b \in 1..e - b /\ b + (j - b) = j
          BY <1>6, <5>1
        <5>3. s[j] = c[j - b]
          BY <1>6, <5>2
        <5> QED BY <1>6, <3>2, <5>2, <5>3 DEF ToSet
      <4> QED BY <1>12, <4>1, <4>2
    <3>6. ASSUME \A n \in DOMAIN g : g[n] = n - 1, im.before = <<>>
          PROVE  target \o c = SubSeq(s, 1, End(Len(g) - 1))
      <4>1. PICK l \in Nat : l = Len(im.got)
        BY <1>11
      <4>2. i = l /\ Len(g) - 1 = l
        <5>1. l + 1 \in DOMAIN g /\ g[l + 1] = i /\ Len(g) = l + 1
          BY <1>11, <4>1
        <5>2. g[l + 1] = l + 1 - 1
          BY <3>6, <5>1
        <5> QED BY ONLY <5>1, <5>2, l \in Nat
      <4>3. CASE l = 0
        <5>1. im.got = <<>>
          BY <1>8, <4>1, <4>3, EmptySeq
        <5>2. target = <<>>
          BY <1>7, <3>6, <5>1 DEF ImportTypes
        <5>3. b = 0
          <6>1. ChunkSize \in Nat
            BY StorageAssumption
          <6> QED BY <1>4, <4>2, <4>3, <6>1
        <5>4. b + 1 = 1 /\ End(Len(g) - 1) = e
          BY <1>4, <4>2, <5>3
        <5>5. target \o c = c
          BY <1>6, <5>2, ConcatEmptySeq
        <5> QED BY <1>6, <5>4, <5>5
      <4>4. CASE l # 0
        <5>1. im.got # <<>>
          BY <4>1, <4>4, EmptySeq
        <5>2. InOrder
          <6>1. ASSUME NEW m \in 1..l PROVE im.got[m] = m - 1
            <7>1. m \in DOMAIN g /\ g[m] = im.got[m]
              BY <1>11, <4>1
            <7> QED BY <3>6, <7>1
          <6> QED BY <1>7, <1>11, <4>1, <6>1 DEF InOrder
        <5>3. target \o import.left = SubSeq(s, 1, End(l - 1))
          BY <1>3, <1>7, <3>1, <3>6, <4>1, <5>1, <5>2 DEF Arrived
        <5>4. target \o import.left = target
          <6>1. target \in Seq(Arrivals)
            BY DEF ImportTypes
          <6> QED BY <1>1, <6>1, ConcatEmptySeq
        <5>5. End(l - 1) = b
          <6>1. l - 1 \in Nat /\ l - 1 + 1 = l
            BY <4>4
          <6>2. (l - 1) * ChunkSize + ChunkSize = l * ChunkSize
            BY <6>1, Multiples
          <6>3. b <= Len(s)
            BY <1>6, <3>2
          <6> QED BY <1>3, <1>4, <4>2, <6>2, <6>3 DEF End
        <5>6. SubSeq(s, 1, b) \o SubSeq(s, b + 1, e) = SubSeq(s, 1, e)
          <6>1. 1 \in 1..Len(s) + 1 /\ b \in 1 - 1..Len(s) /\ e \in b..Len(s)
            BY <1>6, <3>2
          <6> QED BY <6>1, ConcatAdjacentSubSeq
        <5> QED BY <1>4, <1>6, <4>2, <5>3, <5>4, <5>5, <5>6
      <4> QED BY <4>3, <4>4
    <3>8. target' = target /\ out' = out /\ import'.got = g /\ import'.left = c /\ import'.before = im.before
      BY <1>1, <2>3
    <3> QED BY <1>3, <3>3, <3>4, <3>5, <3>6, <3>8 DEF Arrived, InOrder, Slice, End
  <2> QED BY <1>7, <1>9, <2>3, <2>4, <2>5
<1> QED BY <1>2, <1>15, <1>16

LEMMA PutKeeps ==
    ASSUME StorageIInv, ImportPut
    PROVE  StorageIInv'
<1> USE DEF StorageIInv
<1>1. /\ UNCHANGED <<data, batch, height, out>> /\ import.left # <<>>
      /\ target' = Put(target, Head(import.left).key, Head(import.left).value)
      /\ import' = [import EXCEPT !.left = Tail(@)]
  BY DEF ImportPut, store
<1>2. PICK im : im = import
  OBVIOUS
<1>3. im \in [before : Seq(Pairs), got : Seq(Nat), left : Seq(Arrivals), verified : BOOLEAN]
      /\ im.got # <<>> /\ out.pc = "cut" /\ ToSet(im.got) \subseteq Indexes
  BY <1>1, <1>2 DEF ImportTypes
<1>4. PICK t \in Seq(Arrivals) : t = im.left /\ t # <<>>
  BY <1>1, <1>2, <1>3
<1>5. PICK d \in Seq(Arrivals) : d = target
  BY DEF ImportTypes
<1>6. PICK e \in Arrivals, u \in Seq(Arrivals) : e = Head(t) /\ u = Tail(t)
  BY <1>4, HeadTailProperties
<1>7. Entry(e.key, e.value) = e /\ e.key \in Keys /\ e.value \in Nat \cup {Damaged}
  BY DEF Entry, Arrivals
<1>8. PICK q : q = Put(d, e.key, e.value)
  OBVIOUS
<1>9. /\ q \in Seq(Arrivals) /\ e \in ToSet(q)
      /\ \A x \in ToSet(d) : x.key # e.key => x \in ToSet(q)
      /\ \A x \in ToSet(q) : x = e \/ x \in ToSet(d)
      /\ e.key \notin KeysOf(d) => q = Append(d, e)
  <2>1. /\ Put(d, e.key, e.value) \in Seq(Arrivals)
        /\ Entry(e.key, e.value) \in ToSet(Put(d, e.key, e.value))
        /\ \A x \in ToSet(d) : x.key # e.key => x \in ToSet(Put(d, e.key, e.value))
        /\ \A x \in ToSet(Put(d, e.key, e.value)) : x = Entry(e.key, e.value) \/ (x \in ToSet(d) /\ x.key # e.key)
        /\ e.key \notin KeysOf(d) => Put(d, e.key, e.value) = Append(d, Entry(e.key, e.value))
    BY <1>7, PutProperties
  <2> QED BY <1>7, <1>8, <2>1
<1>10. /\ target' = q /\ out' = out
       /\ import' \in [before : Seq(Pairs), got : Seq(Nat), left : Seq(Arrivals), verified : BOOLEAN]
       /\ import'.before = im.before /\ import'.got = im.got /\ import'.left = u
       /\ import'.verified = im.verified
  <2>1. import' = [im EXCEPT !.left = u]
    BY <1>1, <1>2, <1>4, <1>6
  <2> QED BY <1>1, <1>2, <1>3, <1>4, <1>5, <1>6, <1>8, <2>1
<1>11. DataTypes' /\ OutTypes' /\ ImportTypes'
  BY <1>1, <1>3, <1>9, <1>10 DEF DataTypes, OutTypes, ImportTypes, UniqueKeys, Indexes
<1>12. PICK l \in Nat : l = Len(t) /\ DOMAIN t = 1..l /\ l > 0
  BY <1>4, LenProperties, EmptySeq
<1>13. t[1] = e /\ Len(u) = l - 1 /\ DOMAIN u = 1..l - 1 /\ \A m \in 1..l - 1 : u[m] = t[m + 1]
  <2>1. Len(u) = l - 1 /\ \A m \in 1..Len(u) : u[m] = t[m + 1]
    BY <1>4, <1>6, <1>12, HeadTailProperties
  <2>2. t[1] = e
    BY <1>6
  <2> QED BY <1>6, <2>1, <2>2, LenProperties
<1>14. e \in ToSet(t) /\ ToSet(u) \subseteq ToSet(t) /\ ToSet(t) \subseteq ToSet(u) \cup {e}
  <2>1. e \in ToSet(t)
    BY <1>12, <1>13 DEF ToSet
  <2>2. ASSUME NEW x \in ToSet(u) PROVE x \in ToSet(t)
    <3>1. PICK m \in 1..l - 1 : x = u[m]
      BY <1>13 DEF ToSet
    <3>2. m + 1 \in 1..l /\ x = t[m + 1]
      BY <1>13, <3>1
    <3> QED BY <1>12, <3>2 DEF ToSet
  <2>3. ASSUME NEW x \in ToSet(t), x # e PROVE x \in ToSet(u)
    <3>1. PICK m \in 1..l : x = t[m]
      BY <1>12, <2>3 DEF ToSet
    <3>2. m # 1
      BY <1>13, <2>3, <3>1
    <3>3. m - 1 \in 1..l - 1 /\ m - 1 + 1 = m
      BY <3>2
    <3>4. x = u[m - 1]
      BY <1>13, <3>1, <3>3
    <3> QED BY <1>13, <3>3, <3>4 DEF ToSet
  <2> QED BY <2>1, <2>2, <2>3
<1>15. PICK s \in Seq(Pairs) : s = out.second /\ UniqueKeys(s)
  BY DEF OutTypes
<1>16. PICK n \in Nat : n = Len(s) /\ DOMAIN s = 1..n
  BY LenProperties
<1>17. ASSUME import.verified PROVE Arrived'
  <2>1. Arrived
    BY <1>3, <1>17
  <2>2. /\ ToSet(t) \subseteq ToSet(s) /\ ToSet(d) \subseteq ToSet(s) \cup ToSet(im.before)
        /\ \A i \in ToSet(im.got) : \A j \in Slice(i) : s[j] \in ToSet(d) \cup ToSet(t)
    BY <1>2, <1>4, <1>5, <1>15, <2>1 DEF Arrived
  <2>3. ToSet(u) \subseteq ToSet(s) /\ ToSet(q) \subseteq ToSet(s) \cup ToSet(im.before)
    BY <1>9, <1>14, <2>2
  <2>4. ASSUME NEW i \in ToSet(im.got), NEW j \in Slice(i) PROVE s[j] \in ToSet(q) \cup ToSet(u)
    <3>1. CASE s[j] \in ToSet(t)
      BY <1>9, <1>14, <3>1
    <3>2. CASE s[j] \in ToSet(d)
      <4>1. i \in Indexes
        BY <1>3
      <4>2. PICK b, z : b = i * ChunkSize /\ z = End(i)
        OBVIOUS
      <4>3. b \in Nat /\ z \in 1..n
        BY <1>15, <1>16, <4>1, <4>2, ChunkIsPart
      <4>4. j \in b + 1..z
        BY <4>2 DEF Slice
      <4>5. j \in 1..n
        BY <4>3, <4>4
      <4>6. PICK m \in 1..n : e = s[m]
        BY <1>14, <1>16, <2>2 DEF ToSet
      <4>7. s[j].key = e.key => j = m
        BY <1>15, <1>16, <4>5, <4>6 DEF UniqueKeys
      <4> QED BY <1>9, <3>2, <4>6, <4>7
    <3> QED BY <2>2, <3>1, <3>2
  <2>5. ASSUME InOrder, im.before = <<>>
        PROVE  q \o u = SubSeq(s, 1, End(Len(im.got) - 1))
    <3>1. PICK z : z = End(Len(im.got) - 1)
      OBVIOUS
    <3>2. d \o t = SubSeq(s, 1, z)
      BY <1>2, <1>3, <1>4, <1>5, <1>15, <2>1, <2>5, <3>1 DEF Arrived
    <3>3. z \in 1..n
      <4>1. PICK g \in Nat : g = Len(im.got) /\ g > 0 /\ DOMAIN im.got = 1..g
        BY <1>3, LenProperties, EmptySeq
      <4>2. g \in DOMAIN im.got
        BY <4>1
      <4>3. im.got[g] = g - 1
        BY <1>2, <2>5, <4>2 DEF InOrder
      <4>4. g - 1 \in Indexes
        BY <1>3, <4>2, <4>3 DEF ToSet
      <4> QED BY <1>15, <1>16, <3>1, <4>1, <4>4, ChunkIsPart
    <3>4. Len(SubSeq(s, 1, z)) = z /\ \A m \in 1..z : SubSeq(s, 1, z)[m] = s[m]
      <4>1. 0 <= z /\ z \in Nat /\ \A k \in 0 + 1..z : s[k] \in Pairs
        BY <1>16, <3>3, ElementOfSeq
      <4>2. /\ Len(SubSeq(s, 0 + 1, z)) = z - 0
            /\ \A m \in 1..z - 0 : SubSeq(s, 0 + 1, z)[m] = s[0 + m]
        BY <4>1, PartOf
      <4>3. 0 + 1 = 1 /\ z - 0 = z /\ \A m \in 1..z : 0 + m = m
        BY <3>3
      <4> QED BY <3>3, <4>2, <4>3
    <3>5. PICK a \in Nat : a = Len(d) /\ DOMAIN d = 1..a
      BY LenProperties
    <3>6. PICK v : v = d \o t
      OBVIOUS
    <3>7. /\ v \in Seq(Arrivals) /\ Len(v) = a + l
          /\ \A m \in 1..a + l : v[m] = IF m <= a THEN d[m] ELSE t[m - a]
      BY <1>12, <3>5, <3>6, ConcatProperties
    <3>8. a + l = z /\ \A m \in 1..a + l : v[m] = s[m]
      BY <3>2, <3>4, <3>6, <3>7
    <3>9. a + 1 \in 1..a + l /\ a + 1 \in 1..n /\ s[a + 1] = e
      <4>1. a + 1 \in 1..a + l /\ a + 1 - a = 1 /\ ~(a + 1 <= a)
        BY <1>12
      <4>2. v[a + 1] = e
        BY <1>13, <3>7, <4>1
      <4> QED BY <3>3, <3>8, <4>1, <4>2
    <3>10. e.key \notin KeysOf(d)
      <4> SUFFICES ASSUME NEW m \in 1..a, d[m].key = e.key PROVE FALSE
        BY <3>5 DEF KeysOf
      <4>1. m \in 1..a + l /\ m \in 1..n
        BY <1>12, <3>3, <3>8
      <4>2. d[m] = s[m]
        BY <3>7, <3>8, <4>1
      <4>3. m = a + 1
        BY <1>15, <1>16, <3>9, <4>1, <4>2 DEF UniqueKeys
      <4> QED BY <4>3
    <3>11. q = Append(d, e)
      BY <1>9, <3>10
    <3>12. Len(q) = a + 1 /\ (\A m \in 1..a : q[m] = d[m]) /\ q[a + 1] = e
      BY <3>5, <3>11, AppendProperties
    <3>13. /\ q \o u \in Seq(Arrivals) /\ Len(q \o u) = a + 1 + (l - 1)
           /\ \A m \in 1..a + 1 + (l - 1) : (q \o u)[m] = IF m <= a + 1 THEN q[m] ELSE u[m - (a + 1)]
      <4>1. Len(u) = l - 1
        BY <1>13
      <4>2. /\ q \o u \in Seq(Arrivals) /\ Len(q \o u) = Len(q) + Len(u)
            /\ \A m \in 1..Len(q) + Len(u) : (q \o u)[m] = IF m <= Len(q) THEN q[m] ELSE u[m - Len(q)]
        BY <1>9, ConcatProperties
      <4> QED BY <3>12, <4>1, <4>2
    <3>14. a + 1 + (l - 1) = a + l
      BY <1>12
    <3>15. ASSUME NEW m \in 1..a + l PROVE (q \o u)[m] = v[m]
      <4>1. CASE m <= a
        <5>1. m \in 1..a /\ m <= a + 1
          BY <4>1
        <5> QED BY <3>7, <3>12, <3>13, <3>14, <3>15, <5>1, <4>1
      <4>2. CASE m = a + 1
        <5>1. m - a = 1 /\ ~(m <= a) /\ m <= a + 1
          BY <4>2
        <5> QED BY <1>13, <3>7, <3>12, <3>13, <3>14, <3>15, <5>1, <4>2
      <4>3. CASE m > a + 1
        <5>1. m - (a + 1) \in 1..l - 1 /\ m - (a + 1) + 1 = m - a /\ ~(m <= a) /\ ~(m <= a + 1)
          BY <4>3
        <5>2. u[m - (a + 1)] = t[m - a]
          BY <1>13, <5>1
        <5> QED BY <3>7, <3>13, <3>14, <3>15, <5>1, <5>2
      <4>4. m <= a \/ m = a + 1 \/ m > a + 1
        OBVIOUS
      <4> QED BY <4>1, <4>2, <4>3, <4>4
    <3>16. q \o u = v
      BY <3>7, <3>13, <3>14, <3>15, SeqEqual
    <3> QED BY <3>1, <3>2, <3>6, <3>16
  <2>6. InOrder' = InOrder
    BY <1>2, <1>10 DEF InOrder
  <2> QED BY <1>3, <1>10, <1>15, <2>3, <2>4, <2>5, <2>6 DEF Arrived, Slice, End
<1> QED BY <1>2, <1>10, <1>11, <1>17

-----------------------------------------------------------------------------
(* The promise.                                                            *)

LEMMA ImportAgrees == StorageIInv => ImportIsTheExport
<1> SUFFICES ASSUME StorageIInv, out.pc = "cut", import.verified
             PROVE  /\ ToSet(target) \subseteq ToSet(out.second) \cup ToSet(import.before)
                    /\ AllArrived => ToSet(out.second) \subseteq ToSet(target)
                    /\ AllArrived /\ InOrder /\ import.before = <<>> => target = out.second
                    /\ Len(out.first) = Len(out.second) => out.total = Cardinality(Indexes)
  BY DEF ImportIsTheExport
<1>1. Arrived /\ OutTypes /\ ImportTypes
  BY DEF StorageIInv
<1>2. PICK s \in Seq(Pairs) : s = out.second
  BY <1>1 DEF OutTypes
<1>3. PICK n \in Nat : n = Len(s) /\ DOMAIN s = 1..n
  BY LenProperties
<1>4. Ceil(n) \in Nat
  BY CeilBounds
<1>5. ToSet(target) \subseteq ToSet(s) \cup ToSet(import.before)
  BY <1>1, <1>2 DEF Arrived
<1>6. ASSUME AllArrived PROVE ToSet(s) \subseteq ToSet(target)
  <2>1. ToSet(import.left) = {} /\ ToSet(import.got) = Indexes
    BY <1>6 DEF AllArrived, Indexes, ToSet
  <2>2. ASSUME NEW j \in 1..n PROVE s[j] \in ToSet(target)
    <3>1. PICK i \in Indexes : j \in Slice(i)
      BY <1>2, <1>3, InSomeChunk
    <3> QED BY <1>1, <1>2, <2>1, <3>1 DEF Arrived
  <2> QED BY <1>3, <2>2 DEF ToSet
<1>7. ASSUME AllArrived, InOrder, import.before = <<>> PROVE target = s
  <2>1. PICK g \in Seq(Nat) : g = import.got
    BY <1>1 DEF ImportTypes
  <2>2. PICK l \in Nat : l = Len(g) /\ DOMAIN g = 1..l
    BY LenProperties
  <2>3. import.left = <<>> /\ ToSet(g) = 0..Ceil(n) - 1 /\ \A m \in 1..l : g[m] = m - 1
    BY <1>2, <1>3, <1>7, <2>1, <2>2 DEF AllArrived, InOrder
  <2>4. CASE g = <<>>
    <3>1. target = <<>>
      BY <1>1, <1>7, <2>1, <2>4 DEF ImportTypes
    <3>2. n = 0
      <4>1. 0..Ceil(n) - 1 = {}
        BY <2>3, <2>4 DEF ToSet
      <4>2. Ceil(n) = 0
        <5>1. Ceil(n) # 0 => 0 \in 0..Ceil(n) - 1
          BY <1>4
        <5> QED BY <4>1, <5>1
      <4>3. n <= Ceil(n) * ChunkSize /\ ChunkSize \in Nat
        BY CeilBounds, StorageAssumption
      <4> QED BY <4>2, <4>3
    <3> QED BY <1>3, <3>1, <3>2, EmptySeq
  <2>5. CASE g # <<>>
    <3>1. l > 0
      BY <2>2, <2>5, EmptySeq
    <3>2. l - 1 \in 0..Ceil(n) - 1
      <4>1. l \in DOMAIN g /\ g[l] = l - 1
        BY <2>2, <2>3, <3>1
      <4> QED BY <2>3, <4>1 DEF ToSet
    <3>3. Ceil(n) - 1 \in ToSet(g)
      BY <1>4, <2>3, <3>2
    <3>4. PICK m \in 1..l : Ceil(n) - 1 = g[m]
      BY <2>2, <3>3 DEF ToSet
    <3>5. l = Ceil(n)
      BY <1>4, <2>3, <3>2, <3>4
    <3>6. target \o import.left = SubSeq(s, 1, End(l - 1))
      BY <1>1, <1>2, <1>7, <2>1, <2>2, <2>5 DEF Arrived
    <3>7. target \o import.left = target
      <4>1. target \in Seq(Arrivals)
        BY <1>1 DEF ImportTypes
      <4> QED BY <2>3, <4>1, ConcatEmptySeq
    <3>8. End(l - 1) = n
      <4>1. n <= l * ChunkSize
        BY <3>5, CeilBounds
      <4>2. l - 1 \in Nat /\ l - 1 + 1 = l
        BY <3>1
      <4>3. (l - 1) * ChunkSize + ChunkSize = l * ChunkSize /\ l * ChunkSize \in Nat
        <5>1. (l - 1 + 1) * ChunkSize = (l - 1) * ChunkSize + ChunkSize
          BY <4>2, Multiples
        <5>2. l * ChunkSize \in Nat
          <6>1. l <= l
            OBVIOUS
          <6> QED BY <6>1, Multiples
        <5> QED BY <4>2, <5>1, <5>2
      <4> QED BY <1>2, <1>3, <4>1, <4>3 DEF End
    <3> QED BY <1>3, <3>6, <3>7, <3>8, SubSeqFull
  <2> QED BY <2>4, <2>5
<1>8. ASSUME Len(out.first) = Len(out.second) PROVE out.total = Cardinality(Indexes)
  <2>1. out.total = Ceil(n)
    BY <1>1, <1>2, <1>3, <1>8 DEF OutTypes
  <2>2. PICK c \in Nat : c = Ceil(n)
    BY <1>4
  <2>3. Cardinality(0..c - 1) = IF 0 > c - 1 THEN 0 ELSE c - 1 - 0 + 1
    BY FS_Interval
  <2>4. Cardinality(0..c - 1) = c
    BY <2>3
  <2> QED BY <1>2, <1>3, <2>1, <2>2, <2>4 DEF Indexes
<1> QED BY <1>2, <1>5, <1>6, <1>7, <1>8

LEMMA StorageKeeps ==
    ASSUME StorageIInv, [StorageNext]_<<store, reader, copy>>
    PROVE  StorageIInv'
<1>1. CASE UNCHANGED <<store, reader, copy>>
  BY <1>1 DEF store, copy, StorageIInv, DataTypes, OutTypes, ImportTypes, Arrived, UniqueKeys,
              Indexes, Slice, End, InOrder
<1> QED BY <1>1, WritesKeep, CountKeeps, CutKeeps, ReceiveKeeps, PutKeeps DEF StorageNext

\* A verified import is the snapshot (ImportIsTheExport), however blocks, passes and
\* chunks interleave, and for any store, batches, targets and size of the chunks.
THEOREM ImportsAreExports == StorageSpec => []ImportIsTheExport
<1>1. StorageIInv /\ [StorageNext]_<<store, reader, copy>> => StorageIInv'
  BY StorageKeeps
<1> QED BY <1>1, StorageStart, ImportAgrees, PTL DEF StorageSpec

-----------------------------------------------------------------------------
(* The cache in front of it.                                                    *)

Cached == [value : Nat, height : Nat, age : Nat]
Caches == [entries : UNION {[D -> Cached] : D \in SUBSET Keys}, lru : Seq(Keys), mapped : SUBSET Keys,
           pending : Seq(Keys), active : Nat, hung : BOOLEAN, again : BOOLEAN]

\* No block up to height h wrote k after the one v is from.
NoneSince(k, v, h) == \A g \in written[k] : g <= h => g <= v

CacheOK(c) ==
    /\ c.mapped = DOMAIN c.entries /\ IsFiniteSet(c.mapped) /\ Cardinality(c.mapped) <= MaxEntries
    /\ c.mapped \subseteq ToSet(c.lru)
    /\ ~ c.again => ~ c.hung /\ IsInjective(c.lru) /\ ToSet(c.lru) = c.mapped
    /\ \A k \in c.mapped : c.entries[k].height <= height /\ NoneSince(k, c.entries[k].value, c.entries[k].height)

\* Blocks that wrote a key are noted up to the one under way, and the store holds
\* what the last of them wrote.
Stamped ==
    /\ written \in [Keys -> SUBSET Nat] /\ \A k \in Keys : \A g \in written[k] : g <= height + 1
    /\ \A e \in ToSet(data) : \A g \in written[e.key] : g <= e.value

\* What a fetch has read was no older than its height either.
Flights == [kind : {"none", "prefetch", "refresh"}, keys : Seq(Keys), height : Nat, left : Seq(Keys), got : Seq(SUBSET Nat)]
FetchOK(r) ==
    /\ r.height <= height /\ Len(r.got) + Len(r.left) = Len(r.keys)
    /\ \A n \in 1..Len(r.left) : r.left[n] = r.keys[Len(r.got) + n]
    /\ \A n \in 1..Len(r.got) : \A v \in r.got[n] : NoneSince(r.keys[n], v, r.height)

FetchesOK == fetch \in [Fetches -> Flights] /\ \A f \in Fetches : FetchOK(fetch[f])
FlightsCounted == cache.active = SumFunctionOnSet(InFlight, Fetches) /\ cache.active <= MaxConcurrentFetches

MirrorIInv == StorageIInv /\ Stamped /\ cache \in Caches /\ CacheOK(cache) /\ FetchesOK /\ FlightsCounted

-----------------------------------------------------------------------------
(* The list.                                                               *)

LEMMA FirstRemoved ==
    ASSUME NEW K, NEW q \in Seq(K), NEW k \in ToSet(q)
    PROVE  /\ RemoveFirst(q, k) \in Seq(K)
           /\ ToSet(RemoveFirst(q, k)) \subseteq ToSet(q)
           /\ \A x \in ToSet(q) : x # k => x \in ToSet(RemoveFirst(q, k))
           /\ IsInjective(q) => IsInjective(RemoveFirst(q, k)) /\ k \notin ToSet(RemoveFirst(q, k))
<1>1. PICK l \in Nat : l = Len(q) /\ DOMAIN q = 1..l
  BY LenProperties
<1> DEFINE I == {i \in 1..l : q[i] = k}
<1>2. I \in SUBSET Nat /\ I # {}
  BY <1>1 DEF ToSet
<1>3. PICK m \in I : \A j \in I : m <= j
  <2> HIDE DEF I
  <2> QED BY <1>2, LeastElement
<1>4. PICK i \in 1..l : i = Min(I) /\ q[i] = k
  BY <1>3 DEF Min
<1>5. RemoveFirst(q, k) = SubSeq(q, 1, i - 1) \o SubSeq(q, i + 1, l)
  <2>1. \E j \in 1..Len(q) : q[j] = k
    BY <1>1, <1>4
  <2>2. SelectInSeq(q, LAMBDA v : v = k) = i
    BY <1>1, <1>2, <1>4 DEF SelectInSeq
  <2> QED BY <1>1, <2>1, <2>2 DEF RemoveFirst, RemoveAt
<1>6. PICK a \in Nat : a = i - 1 /\ a + 1 = i /\ a + 1 <= l
  <2>1. i - 1 \in Nat /\ i - 1 + 1 = i /\ i - 1 + 1 <= l
    OBVIOUS
  <2> QED BY <2>1
<1>7. \A j \in 1..l : q[j] \in K
  BY <1>1, ElementOfSeq
<1>8. PICK u : u = SubSeq(q, 1, i - 1)
  OBVIOUS
<1>9. u \in Seq(K) /\ Len(u) = a /\ \A j \in 1..a : u[j] = q[j]
  <2>1. 0 <= a /\ \A j \in 0 + 1..a : q[j] \in K
    BY <1>6, <1>7
  <2>2. /\ SubSeq(q, 0 + 1, a) \in Seq(K) /\ Len(SubSeq(q, 0 + 1, a)) = a - 0
        /\ \A j \in 1..a - 0 : SubSeq(q, 0 + 1, a)[j] = q[0 + j]
    BY <2>1, PartOf
  <2>3. 0 + 1 = 1 /\ a - 0 = a /\ \A j \in 1..a : 0 + j = j
    OBVIOUS
  <2> QED BY <1>6, <1>8, <2>2, <2>3
<1>10. PICK w : w = SubSeq(q, i + 1, l)
  OBVIOUS
<1>11. w \in Seq(K) /\ Len(w) = l - i /\ \A j \in 1..l - i : w[j] = q[i + j]
  <2>1. i \in Nat /\ i <= l /\ \A j \in i + 1..l : q[j] \in K
    BY <1>7
  <2> QED BY <1>10, <2>1, PartOf
<1>12. PICK r : r = RemoveFirst(q, k)
  OBVIOUS
<1>13. r \in Seq(K) /\ Len(r) = l - 1 /\ \A j \in 1..l - 1 : r[j] = IF j <= a THEN q[j] ELSE q[j + 1]
  <2>1. r = u \o w
    BY <1>5, <1>8, <1>10, <1>12
  <2>2. u \o w \in Seq(K) /\ Len(u \o w) = Len(u) + Len(w)
        /\ \A j \in 1..Len(u) + Len(w) : (u \o w)[j] = IF j <= Len(u) THEN u[j] ELSE w[j - Len(u)]
    BY <1>9, <1>11, ConcatProperties
  <2>3. Len(u) + Len(w) = l - 1
    BY <1>6, <1>9, <1>11
  <2>4. ASSUME NEW j \in 1..l - 1 PROVE r[j] = IF j <= a THEN q[j] ELSE q[j + 1]
    <3>1. r[j] = IF j <= a THEN u[j] ELSE w[j - a]
      BY <1>9, <2>1, <2>2, <2>3
    <3>2. CASE j <= a
      BY <1>9, <3>1, <3>2
    <3>3. CASE ~(j <= a)
      <4>1. j - a \in 1..l - i /\ i + (j - a) = j + 1
        BY <1>6, <3>3
      <4> QED BY <1>11, <3>1, <3>3, <4>1
    <3> QED BY <3>2, <3>3
  <2> QED BY <2>1, <2>2, <2>3, <2>4
<1>14. DOMAIN r = 1..l - 1
  BY <1>13, LenProperties
<1>15. ASSUME NEW j \in 1..l - 1
       PROVE  \E n \in 1..l : r[j] = q[n] /\ n # i /\ n = IF j <= a THEN j ELSE j + 1
  <2>1. CASE j <= a
    <3>1. j \in 1..l /\ j # i
      BY <1>6, <2>1
    <3> QED BY <1>13, <2>1, <3>1
  <2>2. CASE ~(j <= a)
    <3>1. j + 1 \in 1..l /\ j + 1 # i
      BY <1>6, <2>2
    <3> QED BY <1>13, <2>2, <3>1
  <2> QED BY <2>1, <2>2
<1>16. ToSet(r) \subseteq ToSet(q)
  BY <1>1, <1>14, <1>15 DEF ToSet
<1>17. ASSUME NEW x \in ToSet(q), x # k PROVE x \in ToSet(r)
  <2>1. PICK n \in 1..l : x = q[n]
    BY <1>1 DEF ToSet
  <2>2. n # i
    BY <1>4, <1>17, <2>1
  <2>3. CASE n <= a
    <3>1. n \in 1..l - 1
      BY <1>6, <2>3
    <3> QED BY <1>13, <1>14, <2>1, <2>3, <3>1 DEF ToSet
  <2>4. CASE ~(n <= a)
    <3>1. n - 1 \in 1..l - 1 /\ ~(n - 1 <= a) /\ n - 1 + 1 = n
      BY <1>6, <2>2, <2>4
    <3>2. r[n - 1] = x
      BY <1>13, <2>1, <3>1
    <3> QED BY <1>14, <3>1, <3>2 DEF ToSet
  <2> QED BY <2>3, <2>4
<1>18. ASSUME IsInjective(q) PROVE IsInjective(r) /\ k \notin ToSet(r)
  <2>1. ASSUME NEW b \in 1..l, NEW c \in 1..l, q[b] = q[c] PROVE b = c
    BY <1>1, <1>18, <2>1 DEF IsInjective
  <2>2. ASSUME NEW b \in 1..l - 1, NEW c \in 1..l - 1, r[b] = r[c] PROVE b = c
    <3>1. PICK n \in 1..l : r[b] = q[n] /\ n = IF b <= a THEN b ELSE b + 1
      BY <1>15
    <3>2. PICK o \in 1..l : r[c] = q[o] /\ o = IF c <= a THEN c ELSE c + 1
      BY <1>15
    <3>3. n = o
      BY <2>1, <2>2, <3>1, <3>2
    <3> QED BY ONLY <3>1, <3>2, <3>3, a \in Nat, b \in Nat, c \in Nat, b \in 1..l - 1, c \in 1..l - 1, l \in Nat
  <2>3. ASSUME k \in ToSet(r) PROVE FALSE
    <3>1. PICK j \in 1..l - 1 : k = r[j]
      BY <1>14, <2>3 DEF ToSet
    <3>2. PICK n \in 1..l : r[j] = q[n] /\ n # i
      BY <1>15
    <3> QED BY <1>4, <2>1, <3>1, <3>2
  <2> QED BY <1>14, <2>2, <2>3 DEF IsInjective
<1> QED BY <1>12, <1>13, <1>16, <1>17, <1>18

LEMMA HeadAdded ==
    ASSUME NEW K, NEW q \in Seq(K), NEW k \in K
    PROVE  /\ <<k>> \o q \in Seq(K) /\ ToSet(<<k>> \o q) = ToSet(q) \cup {k}
           /\ IsInjective(q) /\ k \notin ToSet(q) => IsInjective(<<k>> \o q)
<1>1. PICK l \in Nat : l = Len(q) /\ DOMAIN q = 1..l
  BY LenProperties
<1>2. PICK r : r = <<k>> \o q
  OBVIOUS
<1>3. r \in Seq(K) /\ Len(r) = l + 1 /\ r[1] = k /\ \A j \in 1..l : r[j + 1] = q[j]
  <2>1. <<k>> \in Seq(K) /\ Len(<<k>>) = 1 /\ <<k>>[1] = k
    OBVIOUS
  <2>2. /\ <<k>> \o q \in Seq(K) /\ Len(<<k>> \o q) = Len(<<k>>) + Len(q)
        /\ \A j \in 1..Len(<<k>>) + Len(q) : (<<k>> \o q)[j] = IF j <= Len(<<k>>) THEN <<k>>[j] ELSE q[j - Len(<<k>>)]
    BY <2>1, ConcatProperties
  <2>3. /\ r \in Seq(K) /\ Len(r) = 1 + l
        /\ \A j \in 1..1 + l : r[j] = IF j <= 1 THEN <<k>>[j] ELSE q[j - 1]
    BY <1>1, <1>2, <2>1, <2>2
  <2>4. r[1] = k
    BY <2>1, <2>3
  <2>5. ASSUME NEW j \in 1..l PROVE r[j + 1] = q[j]
    <3>1. j + 1 \in 1..1 + l /\ ~(j + 1 <= 1) /\ j + 1 - 1 = j
      OBVIOUS
    <3> QED BY <2>3, <3>1
  <2> QED BY <2>3, <2>4, <2>5
<1>4. DOMAIN r = 1..l + 1
  BY <1>3, LenProperties
<1>5. ASSUME NEW j \in 1..l + 1, j # 1 PROVE j - 1 \in 1..l /\ r[j] = q[j - 1]
  <2>1. j - 1 \in 1..l /\ j - 1 + 1 = j
    BY <1>5
  <2> QED BY <1>3, <2>1
<1>6. ToSet(r) = ToSet(q) \cup {k}
  <2>1. ASSUME NEW x \in ToSet(r), x # k PROVE x \in ToSet(q)
    <3>1. PICK j \in 1..l + 1 : x = r[j]
      BY <1>4 DEF ToSet
    <3>2. j # 1
      BY <1>3, <2>1, <3>1
    <3> QED BY <1>1, <1>5, <3>1, <3>2 DEF ToSet
  <2>2. ASSUME NEW x \in ToSet(q) PROVE x \in ToSet(r)
    <3>1. PICK j \in 1..l : x = q[j]
      BY <1>1 DEF ToSet
    <3>2. j + 1 \in 1..l + 1 /\ r[j + 1] = x
      BY <1>3, <3>1
    <3> QED BY <1>4, <3>2 DEF ToSet
  <2>3. k \in ToSet(r)
    <3>1. 1 \in 1..l + 1
      OBVIOUS
    <3> QED BY <1>3, <1>4, <3>1 DEF ToSet
  <2> QED BY <2>1, <2>2, <2>3
<1>7. ASSUME IsInjective(q), k \notin ToSet(q) PROVE IsInjective(r)
  <2>1. \A j \in 1..l : q[j] # k
    BY <1>1, <1>7 DEF ToSet
  <2>2. ASSUME NEW a \in 1..l + 1, NEW b \in 1..l + 1, r[a] = r[b] PROVE a = b
    <3>1. CASE a = 1
      <4>1. b = 1
        BY <1>3, <1>5, <2>1, <2>2, <3>1
      <4> QED BY <3>1, <4>1
    <3>2. CASE b = 1
      <4>1. a = 1
        BY <1>3, <1>5, <2>1, <2>2, <3>2
      <4> QED BY <3>2, <4>1
    <3>3. CASE a # 1 /\ b # 1
      <4>1. /\ a - 1 \in 1..l /\ r[a] = q[a - 1]
            /\ b - 1 \in 1..l /\ r[b] = q[b - 1]
        BY <1>5, <3>3
      <4>2. a - 1 = b - 1
        BY <1>1, <1>7, <2>2, <4>1 DEF IsInjective
      <4> QED BY <4>2
    <3> QED BY <3>1, <3>2, <3>3
  <2> QED BY <1>4, <2>2 DEF IsInjective
<1> QED BY <1>2, <1>3, <1>6, <1>7

-----------------------------------------------------------------------------
(* One call on the cache.                                                  *)

LEMMA ForgetKeeps ==
    ASSUME NEW c \in Caches, CacheOK(c), NEW k
    PROVE  /\ Forget(c, k) \in Caches /\ CacheOK(Forget(c, k))
           /\ Forget(c, k).active = c.active /\ Forget(c, k).again = c.again
           /\ Forget(c, k).mapped = c.mapped \ {k} /\ Forget(c, k).hung = c.hung
<1>1. PICK e : e = [j \in DOMAIN c.entries \ {k} |-> c.entries[j]]
  OBVIOUS
<1>2. PICK M \in SUBSET Keys : M = c.mapped /\ M = DOMAIN c.entries /\ IsFiniteSet(M) /\ Cardinality(M) <= MaxEntries
  BY DEF CacheOK, Caches
<1>3. c.entries \in [M -> Cached]
  <2>1. PICK D \in SUBSET Keys : c.entries \in [D -> Cached]
    BY DEF Caches
  <2> QED BY <1>2, <2>1
<1>4. e \in [M \ {k} -> Cached] /\ \A j \in M \ {k} : e[j] = c.entries[j]
  BY <1>1, <1>2, <1>3
<1>5. PICK w : w = Without(c, k)
  OBVIOUS
<1>6. w = [c EXCEPT !.entries = e]
  BY <1>1, <1>5 DEF Without
<1>7. e \in UNION {[D -> Cached] : D \in SUBSET Keys}
  <2>1. M \ {k} \in SUBSET Keys
    BY <1>2
  <2> QED BY <1>4, <2>1
<1>8. /\ w \in Caches /\ w.entries = e /\ w.lru = c.lru /\ w.mapped = M /\ w.active = c.active
      /\ w.again = c.again /\ w.hung = c.hung
  BY <1>2, <1>6, <1>7 DEF Caches
<1>9. PICK d : d = Forget(c, k)
  OBVIOUS
<1>10. d = IF k \notin M THEN w ELSE [w EXCEPT !.lru = RemoveFirst(@, k), !.mapped = @ \ {k}]
  BY <1>5, <1>8, <1>9 DEF Forget, RemoveLRU
<1>11. c.lru \in Seq(Keys) /\ M \subseteq ToSet(c.lru)
  BY <1>2 DEF Caches, CacheOK
<1>12. CASE k \notin M
  <2>1. M \ {k} = M
    BY <1>12
  <2>2. CacheOK(d)
    <3>1. d.mapped = DOMAIN d.entries /\ d.mapped = M /\ d.lru = c.lru /\ d.again = c.again /\ d.hung = c.hung
      BY <1>4, <1>8, <1>10, <1>12, <2>1
    <3>2. \A j \in M : d.entries[j] = c.entries[j]
      BY <1>4, <1>8, <1>10, <1>12, <2>1
    <3> QED BY <1>2, <3>1, <3>2 DEF CacheOK
  <2> QED BY <1>2, <1>8, <1>9, <1>10, <1>12, <2>1, <2>2
<1>13. CASE k \in M
  <2>1. PICK q \in Seq(Keys) : /\ q = RemoveFirst(c.lru, k) /\ ToSet(q) \subseteq ToSet(c.lru)
                               /\ \A x \in ToSet(c.lru) : x # k => x \in ToSet(q)
                               /\ IsInjective(c.lru) => IsInjective(q) /\ k \notin ToSet(q)
    BY <1>11, <1>13, FirstRemoved
  <2>2. d = [w EXCEPT !.lru = q, !.mapped = M \ {k}]
    BY <1>8, <1>10, <1>13, <2>1
  <2>3. /\ d \in Caches /\ d.entries = e /\ d.lru = q /\ d.mapped = M \ {k} /\ d.active = c.active
        /\ d.again = c.again /\ d.hung = c.hung
    <3>1. M \ {k} \in SUBSET Keys
      BY <1>2
    <3> QED BY <1>8, <2>2, <3>1 DEF Caches
  <2>4. IsFiniteSet(M \ {k}) /\ Cardinality(M \ {k}) <= MaxEntries
    <3>1. IsFiniteSet(M \ {k}) /\ Cardinality(M \ {k}) <= Cardinality(M)
      BY <1>2, FS_Subset
    <3>2. Cardinality(M) \in Nat /\ Cardinality(M \ {k}) \in Nat /\ MaxEntries \in Nat
      BY <1>2, <3>1, FS_CardinalityType, MirrorAssumption
    <3> QED BY <1>2, <3>1, <3>2
  <2>5. M \ {k} \subseteq ToSet(q)
    BY <1>11, <2>1
  <2>6. ~ c.again => ToSet(q) = M \ {k} /\ IsInjective(q) /\ ~ c.hung
    BY <1>2, <1>11, <2>1 DEF CacheOK
  <2>7. \A j \in M \ {k} : e[j].height <= height /\ NoneSince(j, e[j].value, e[j].height)
    BY <1>2, <1>4 DEF CacheOK
  <2>8. DOMAIN e = M \ {k}
    BY <1>4
  <2>9. CacheOK(d)
    BY <2>3, <2>4, <2>5, <2>6, <2>7, <2>8 DEF CacheOK
  <2> QED BY <1>2, <1>9, <2>3, <2>9
<1> QED BY <1>12, <1>13

LEMMA TouchKeeps ==
    ASSUME NEW c \in Caches, CacheOK(c), NEW k \in c.mapped
    PROVE  /\ TouchLRU(c, k) \in Caches /\ CacheOK(TouchLRU(c, k))
           /\ TouchLRU(c, k).active = c.active /\ TouchLRU(c, k).pending = c.pending
<1>1. k \in Keys /\ c.lru \in Seq(Keys) /\ c.mapped \in SUBSET Keys /\ k \in ToSet(c.lru)
  BY DEF Caches, CacheOK
<1>2. PICK q \in Seq(Keys) : /\ q = RemoveFirst(c.lru, k) /\ ToSet(q) \subseteq ToSet(c.lru)
                             /\ \A x \in ToSet(c.lru) : x # k => x \in ToSet(q)
                             /\ IsInjective(c.lru) => IsInjective(q) /\ k \notin ToSet(q)
  BY <1>1, FirstRemoved
<1>3. PICK p \in Seq(Keys) : /\ p = <<k>> \o q /\ ToSet(p) = ToSet(q) \cup {k}
                             /\ IsInjective(q) /\ k \notin ToSet(q) => IsInjective(p)
  BY <1>1, HeadAdded
<1>4. PICK M : M = c.mapped \ {k} /\ M \cup {k} = c.mapped /\ M \in SUBSET Keys
  <2>1. (c.mapped \ {k}) \cup {k} = c.mapped /\ c.mapped \ {k} \in SUBSET Keys
    BY <1>1
  <2> QED BY <2>1
<1>5. PICK w : w = RemoveLRU(c, k)
  OBVIOUS
<1>6. w = [c EXCEPT !.lru = q, !.mapped = M]
  BY <1>2, <1>4, <1>5 DEF RemoveLRU
<1>7. w \in Caches /\ w.lru = q /\ w.mapped = M
  BY <1>4, <1>6 DEF Caches
<1>8. PICK d : d = TouchLRU(c, k)
  OBVIOUS
<1>9. d = [w EXCEPT !.lru = p, !.mapped = c.mapped]
  BY <1>3, <1>4, <1>5, <1>7, <1>8 DEF TouchLRU, AddLRU
<1>10. /\ d \in Caches /\ d.lru = p /\ d.mapped = c.mapped /\ d.entries = c.entries /\ d.active = c.active
       /\ d.again = c.again /\ d.hung = c.hung /\ d.pending = c.pending
  BY <1>1, <1>6, <1>7, <1>9 DEF Caches
<1>11. ToSet(p) = ToSet(c.lru)
  BY <1>1, <1>2, <1>3
<1>12. IsInjective(c.lru) => IsInjective(p)
  BY <1>2, <1>3
<1>13. CacheOK(d)
  BY <1>10, <1>11, <1>12 DEF CacheOK
<1> QED BY <1>8, <1>10, <1>13

LEMMA ReadKeeps ==
    ASSUME NEW c \in Caches, CacheOK(c), NEW k \in Keys
    PROVE  GetState(c, k) \in Caches /\ CacheOK(GetState(c, k)) /\ GetState(c, k).active = c.active
<1>1. CASE Hit(c, k)
  <2>1. k \in c.mapped
    BY <1>1 DEF Hit, CacheOK
  <2>2. PICK t \in Caches : t = TouchLRU(c, k) /\ CacheOK(t) /\ t.active = c.active
    BY <2>1, TouchKeeps
  <2>3. PICK d : d = ScheduleRefresh(t, k)
    OBVIOUS
  <2>4. d \in Caches /\ CacheOK(d) /\ d.active = c.active
    <3>1. PICK p \in Seq(Keys) : p = Append(t.pending, k)
      BY AppendProperties DEF Caches
    <3>2. d = t \/ d = [t EXCEPT !.pending = p]
      BY <2>3, <3>1 DEF ScheduleRefresh
    <3>3. CASE d = [t EXCEPT !.pending = p]
      <4>1. /\ d \in Caches /\ d.entries = t.entries /\ d.lru = t.lru /\ d.mapped = t.mapped
            /\ d.active = t.active /\ d.hung = t.hung /\ d.again = t.again
        BY <3>3 DEF Caches
      <4> QED BY <2>2, <4>1 DEF CacheOK
    <3> QED BY <2>2, <3>2, <3>3
  <2>5. GetState(c, k) = d \/ GetState(c, k) = t
    BY <1>1, <2>2, <2>3 DEF GetState
  <2> QED BY <2>2, <2>4, <2>5
<1>2. CASE ~ Hit(c, k)
  BY <1>2, ForgetKeeps DEF GetState
<1> QED BY <1>1, <1>2

LEMMA SetKeeps ==
    ASSUME NEW c \in Caches, CacheOK(c), NEW k \in Keys, NEW v \in Nat, NEW h \in Nat, h <= height, NoneSince(k, v, h)
    PROVE  Set(c, k, v, h) \in Caches /\ CacheOK(Set(c, k, v, h)) /\ Set(c, k, v, h).active = c.active
<1>1. PICK m \in Nat \ {0} : m = MaxEntries
  BY MirrorAssumption
<1>2. PICK z : z = Set(c, k, v, h)
  OBVIOUS
<1>3. PICK r : r = IF Full(c) THEN EvictOne(c) ELSE c
  OBVIOUS
<1>4. /\ r \in Caches /\ CacheOK(r) /\ r.active = c.active /\ r.again = c.again /\ r.hung = c.hung
      /\ Full(r) => c.again
  <2>1. CASE ~ Full(c) \/ c.lru = <<>>
    <3>1. r = c
      BY <1>3, <2>1 DEF EvictOne
    <3>2. Full(c) => c.again
      <4> SUFFICES ASSUME Full(c), ~ c.again PROVE FALSE
        OBVIOUS
      <4>1. c.mapped = {}
        BY <2>1 DEF CacheOK, ToSet
      <4>2. Cardinality(DOMAIN c.entries) = 0
        BY <4>1, FS_EmptySet DEF CacheOK
      <4> QED BY <1>1, <4>2 DEF Full
    <3> QED BY <3>1, <3>2
  <2>2. CASE Full(c) /\ c.lru # <<>>
    <3>1. PICK l \in Nat : l = Len(c.lru) /\ DOMAIN c.lru = 1..l /\ l # 0
      <4>1. c.lru \in Seq(Keys)
        BY DEF Caches
      <4> QED BY <2>2, <4>1, LenProperties, EmptySeq
    <3>2. PICK x : x = Last(c.lru) /\ x \in ToSet(c.lru)
      BY <3>1 DEF Last, ToSet
    <3>3. r = Forget(c, x)
      BY <1>3, <2>2, <3>2 DEF EvictOne
    <3>4. /\ r \in Caches /\ CacheOK(r) /\ r.active = c.active /\ r.again = c.again /\ r.hung = c.hung
          /\ r.mapped = c.mapped \ {x}
      BY <3>3, ForgetKeeps
    <3>5. ~ c.again => ~ Full(r)
      <4> SUFFICES ASSUME ~ c.again PROVE ~ Full(r)
        OBVIOUS
      <4>1. x \in c.mapped /\ IsFiniteSet(c.mapped) /\ Cardinality(c.mapped) <= m
        BY <1>1, <3>2 DEF CacheOK
      <4>2. Cardinality(c.mapped \ {x}) = Cardinality(c.mapped) - 1
        BY <4>1, FS_RemoveElement
      <4>3. Cardinality(c.mapped) \in Nat
        BY <4>1, FS_CardinalityType
      <4>4. DOMAIN r.entries = r.mapped
        BY <3>4 DEF CacheOK
      <4> QED BY <1>1, <3>4, <4>1, <4>2, <4>3, <4>4 DEF Full
    <3> QED BY <3>4, <3>5 DEF Caches
  <2> QED BY <2>1, <2>2
<1>5. CASE c.hung \/ Full(r)
  <2>1. z = [c EXCEPT !.hung = TRUE]
    BY <1>2, <1>3, <1>5 DEF Set
  <2>2. c.again
    BY <1>4, <1>5 DEF CacheOK
  <2>3. /\ z \in Caches /\ z.entries = c.entries /\ z.lru = c.lru /\ z.mapped = c.mapped
        /\ z.active = c.active /\ z.again = c.again
    BY <2>1 DEF Caches
  <2>4. CacheOK(z)
    BY <2>2, <2>3 DEF CacheOK
  <2> QED BY <1>2, <2>3, <2>4
<1>6. CASE ~(c.hung \/ Full(r))
  <2>1. PICK n \in Cached : n = [value |-> v, height |-> h, age |-> 0]
    BY DEF Cached
  <2>2. n.value = v /\ n.height = h
    BY <2>1
  <2>3. PICK M \in SUBSET Keys : M = r.mapped /\ M = DOMAIN r.entries /\ IsFiniteSet(M) /\ M \subseteq ToSet(r.lru)
    BY <1>4 DEF CacheOK, Caches
  <2>4. r.entries \in [M -> Cached]
    <3>1. PICK D \in SUBSET Keys : r.entries \in [D -> Cached]
      BY <1>4 DEF Caches
    <3> QED BY <2>3, <3>1
  <2>5. PICK e : e = [j \in M \cup {k} |-> IF j = k THEN n ELSE r.entries[j]]
    OBVIOUS
  <2>6. /\ e \in [M \cup {k} -> Cached] /\ DOMAIN e = M \cup {k} /\ e[k] = n
        /\ \A j \in M : j # k => e[j] = r.entries[j]
    BY <2>4, <2>5
  <2>7. e \in UNION {[D -> Cached] : D \in SUBSET Keys}
    <3>1. M \cup {k} \in SUBSET Keys
      OBVIOUS
    <3> QED BY <2>6, <3>1
  <2>8. PICK a \in BOOLEAN : a <=> (r.again \/ k \in M)
    OBVIOUS
  <2>9. PICK p \in Seq(Keys) : /\ p = <<k>> \o r.lru /\ ToSet(p) = ToSet(r.lru) \cup {k}
                               /\ IsInjective(r.lru) /\ k \notin ToSet(r.lru) => IsInjective(p)
    <3>1. r.lru \in Seq(Keys)
      BY <1>4 DEF Caches
    <3> QED BY <3>1, HeadAdded
  <2>10. PICK w : w = [r EXCEPT !.entries = [j \in DOMAIN @ \cup {k} |-> IF j = k THEN [value |-> v, height |-> h, age |-> 0] ELSE @[j]],
                                !.again = @ \/ k \in DOMAIN r.entries]
    OBVIOUS
  <2>11. w = [r EXCEPT !.entries = e, !.again = a]
    <3>1. (r.again \/ k \in DOMAIN r.entries) = a
      <4>1. r.again \in BOOLEAN
        BY <1>4 DEF Caches
      <4> QED BY <2>3, <2>8, <4>1
    <3> QED BY <2>1, <2>3, <2>5, <2>10, <3>1
  <2>12. /\ w \in Caches /\ w.entries = e /\ w.again = a /\ w.lru = r.lru /\ w.mapped = M
         /\ w.active = r.active /\ w.hung = r.hung
    BY <1>4, <2>3, <2>7, <2>11 DEF Caches
  <2>13. z = AddLRU(w, k)
    BY <1>2, <1>3, <1>6, <2>10 DEF Set
  <2>14. z = [w EXCEPT !.lru = p, !.mapped = M \cup {k}]
    BY <2>9, <2>12, <2>13 DEF AddLRU
  <2>15. /\ z \in Caches /\ z.entries = e /\ z.again = a /\ z.lru = p /\ z.mapped = M \cup {k}
         /\ z.active = c.active /\ z.hung = r.hung
    <3>1. M \cup {k} \in SUBSET Keys
      OBVIOUS
    <3> QED BY <1>4, <2>12, <2>14, <3>1 DEF Caches
  <2>16. IsFiniteSet(M \cup {k}) /\ Cardinality(M \cup {k}) <= MaxEntries
    <3>1. ~(Cardinality(M) >= m) /\ Cardinality(M) \in Nat
      BY <1>1, <1>6, <2>3, FS_CardinalityType DEF Full
    <3>2. IsFiniteSet(M \cup {k}) /\ Cardinality(M \cup {k}) = IF k \in M THEN Cardinality(M) ELSE Cardinality(M) + 1
      BY <2>3, FS_AddElement
    <3> QED BY <1>1, <3>1, <3>2
  <2>17. ~ a => ~ r.hung /\ IsInjective(p) /\ ToSet(p) = M \cup {k}
    <3> SUFFICES ASSUME ~ a PROVE ~ r.hung /\ IsInjective(p) /\ ToSet(p) = M \cup {k}
      OBVIOUS
    <3>1. ~ r.again /\ k \notin M
      BY <2>8
    <3>2. ~ r.hung /\ IsInjective(r.lru) /\ ToSet(r.lru) = M
      BY <1>4, <2>3, <3>1 DEF CacheOK
    <3> QED BY <2>9, <3>1, <3>2
  <2>18. ASSUME NEW j \in M \cup {k} PROVE e[j].height <= height /\ NoneSince(j, e[j].value, e[j].height)
    <3>1. CASE j = k
      BY <2>2, <2>6, <3>1
    <3>2. CASE j # k
      BY <1>4, <2>3, <2>6, <3>2 DEF CacheOK
    <3> QED BY <3>1, <3>2
  <2>19. CacheOK(z)
    BY <2>3, <2>6, <2>9, <2>15, <2>16, <2>17, <2>18 DEF CacheOK
  <2> QED BY <1>2, <2>15, <2>19
<1> QED BY <1>5, <1>6

-----------------------------------------------------------------------------
(* Several calls in a row.                                                 *)

\* Reading keys in turn.
LEMMA ReadsKeep ==
    ASSUME NEW c \in Caches, CacheOK(c), NEW keys \in Seq(Keys)
    PROVE  /\ FoldLeft(GetState, c, keys) \in Caches
           /\ CacheOK(FoldLeft(GetState, c, keys))
           /\ FoldLeft(GetState, c, keys).active = c.active
<1> DEFINE P == {d \in Caches : CacheOK(d) /\ d.active = c.active}
           F == [d \in P |-> [x \in Keys |-> GetState(d, x)]]
<1>1. ASSUME NEW d \in P, NEW x \in Keys PROVE GetState(d, x) \in P
  BY ReadKeeps
<1>2. Stepwise(F, P, Keys)
  BY <1>1 DEF Stepwise
<1>3. \A d \in P, x \in Keys : F[d][x] = GetState(d, x)
  OBVIOUS
<1>4. c \in P
  OBVIOUS
<1>5. PICK s \in Seq(Keys) : s = keys
  OBVIOUS
<1> DEFINE Unfolds(h) ==
        h = [D \in SUBSET DOMAIN s |-> IF D = {} THEN c
                                       ELSE GetState(h[D \ {LastIn(D)}], s[LastIn(D)])]
<1>6. PICK g : g = CHOOSE h : Unfolds(h)
  OBVIOUS
<1>7. FoldLeft(GetState, c, keys) = g[DOMAIN s]
  BY <1>5, <1>6 DEF FoldLeft, MapThenFoldSet, Max, LastIn
<1> HIDE DEF P, F
<1>8. PICK h : Folds(F, P, Keys, c, s, h)
  BY <1>2, <1>4, FoldsTyped
<1>9. Unfolds(h)
  <2>1. \A D \in SUBSET DOMAIN s : D # {} => h[D] = GetState(h[D \ {LastIn(D)}], s[LastIn(D)])
    BY <1>3, <1>8 DEF Folds, Leads
  <2>2. h \in [SUBSET DOMAIN s -> P] /\ h[{}] = c
    BY <1>8 DEF Folds, Leads
  <2> QED BY <2>1, <2>2
<1>10. Unfolds(g)
  BY <1>6, <1>9
<1>11. Unrolls(F, P, c, s, g)
  <2>1. ASSUME NEW D \in SUBSET DOMAIN s, D # {}, g[D \ {LastIn(D)}] \in P
        PROVE  g[D] = F[g[D \ {LastIn(D)}]][s[LastIn(D)]]
    <3>1. s[LastIn(D)] \in Keys
      BY <1>8, <2>1 DEF Folds
    <3>2. g[D] = GetState(g[D \ {LastIn(D)}], s[LastIn(D)])
      BY <1>10, <2>1
    <3> QED BY <1>3, <2>1, <3>1, <3>2
  <2>2. g[{}] = c
    BY <1>10
  <2> QED BY <2>1, <2>2 DEF Unrolls
<1>12. PICK r : Trace(F, P, Keys, c, s, r) /\ r[Len(s)] = g[DOMAIN s]
  BY <1>2, <1>4, <1>11, FoldsLead
<1>13. g[DOMAIN s] \in P
  <2>1. Len(s) \in 0..Len(s)
    BY LenProperties
  <2> QED BY <1>12, <2>1 DEF Trace
<1> QED BY <1>7, <1>13 DEF P

\* Forgetting keys in turn.
LEMMA ForgetsKeep ==
    ASSUME NEW c \in Caches, CacheOK(c), NEW old \in Seq(Keys)
    PROVE  /\ FoldLeft(Forget, c, old) \in Caches
           /\ CacheOK(FoldLeft(Forget, c, old))
           /\ FoldLeft(Forget, c, old).active = c.active
<1> DEFINE P == {d \in Caches : CacheOK(d) /\ d.active = c.active}
           F == [d \in P |-> [x \in Keys |-> Forget(d, x)]]
<1>1. ASSUME NEW d \in P, NEW x \in Keys PROVE Forget(d, x) \in P
  BY ForgetKeeps
<1>2. Stepwise(F, P, Keys)
  BY <1>1 DEF Stepwise
<1>3. \A d \in P, x \in Keys : F[d][x] = Forget(d, x)
  OBVIOUS
<1>4. c \in P
  OBVIOUS
<1>5. PICK s \in Seq(Keys) : s = old
  OBVIOUS
<1> DEFINE Unfolds(h) ==
        h = [D \in SUBSET DOMAIN s |-> IF D = {} THEN c
                                       ELSE Forget(h[D \ {LastIn(D)}], s[LastIn(D)])]
<1>6. PICK g : g = CHOOSE h : Unfolds(h)
  OBVIOUS
<1>7. FoldLeft(Forget, c, old) = g[DOMAIN s]
  BY <1>5, <1>6 DEF FoldLeft, MapThenFoldSet, Max, LastIn
<1> HIDE DEF P, F
<1>8. PICK h : Folds(F, P, Keys, c, s, h)
  BY <1>2, <1>4, FoldsTyped
<1>9. Unfolds(h)
  <2>1. \A D \in SUBSET DOMAIN s : D # {} => h[D] = Forget(h[D \ {LastIn(D)}], s[LastIn(D)])
    BY <1>3, <1>8 DEF Folds, Leads
  <2>2. h \in [SUBSET DOMAIN s -> P] /\ h[{}] = c
    BY <1>8 DEF Folds, Leads
  <2> QED BY <2>1, <2>2
<1>10. Unfolds(g)
  BY <1>6, <1>9
<1>11. Unrolls(F, P, c, s, g)
  <2>1. ASSUME NEW D \in SUBSET DOMAIN s, D # {}, g[D \ {LastIn(D)}] \in P
        PROVE  g[D] = F[g[D \ {LastIn(D)}]][s[LastIn(D)]]
    <3>1. s[LastIn(D)] \in Keys
      BY <1>8, <2>1 DEF Folds
    <3>2. g[D] = Forget(g[D \ {LastIn(D)}], s[LastIn(D)])
      BY <1>10, <2>1
    <3> QED BY <1>3, <2>1, <3>1, <3>2
  <2>2. g[{}] = c
    BY <1>10
  <2> QED BY <2>1, <2>2 DEF Unrolls
<1>12. PICK r : Trace(F, P, Keys, c, s, r) /\ r[Len(s)] = g[DOMAIN s]
  BY <1>2, <1>4, <1>11, FoldsLead
<1>13. g[DOMAIN s] \in P
  <2>1. Len(s) \in 0..Len(s)
    BY LenProperties
  <2> QED BY <1>12, <2>1 DEF Trace
<1> QED BY <1>7, <1>13 DEF P

\* Caching what was found, key by key.
LEMMA FindsKeep ==
    ASSUME NEW c \in Caches, CacheOK(c), NEW f, NEW K, K = DOMAIN fetch[f].keys, [n \in K |-> n] \in Seq(K),
           \A n \in K : /\ fetch[f].keys[n] \in Keys /\ fetch[f].got[n] \subseteq Nat
                        /\ fetch[f].height \in Nat /\ fetch[f].height <= height
                        /\ \A v \in fetch[f].got[n] : NoneSince(fetch[f].keys[n], v, fetch[f].height)
    PROVE  FoundAll(c, f) \in Caches /\ CacheOK(FoundAll(c, f)) /\ FoundAll(c, f).active = c.active
<1> DEFINE P == {d \in Caches : CacheOK(d) /\ d.active = c.active}
           F == [d \in P |-> [x \in K |-> Found(d, f, x)]]
<1>1. ASSUME NEW d \in P, NEW x \in K PROVE Found(d, f, x) \in P
  BY SetKeeps DEF Found, HeightOf
<1>2. Stepwise(F, P, K)
  BY <1>1 DEF Stepwise
<1>3. \A d \in P, x \in K : F[d][x] = Found(d, f, x)
  OBVIOUS
<1>4. c \in P
  OBVIOUS
<1>5. PICK s \in Seq(K) : s = [n \in K |-> n]
  OBVIOUS
<1> DEFINE Unfolds(h) ==
        h = [D \in SUBSET DOMAIN s |-> IF D = {} THEN c
                                       ELSE Found(h[D \ {LastIn(D)}], f, s[LastIn(D)])]
<1>6. PICK g : g = CHOOSE h : Unfolds(h)
  OBVIOUS
<1>7. FoundAll(c, f) = g[DOMAIN s]
  BY <1>5, <1>6 DEF FoundAll, FoldLeft, MapThenFoldSet, Max, LastIn
<1> HIDE DEF P, F
<1>8. PICK h : Folds(F, P, K, c, s, h)
  BY <1>2, <1>4, FoldsTyped
<1>9. Unfolds(h)
  <2>1. \A D \in SUBSET DOMAIN s : D # {} => h[D] = Found(h[D \ {LastIn(D)}], f, s[LastIn(D)])
    BY <1>3, <1>8 DEF Folds, Leads
  <2>2. h \in [SUBSET DOMAIN s -> P] /\ h[{}] = c
    BY <1>8 DEF Folds, Leads
  <2> QED BY <2>1, <2>2
<1>10. Unfolds(g)
  BY <1>6, <1>9
<1>11. Unrolls(F, P, c, s, g)
  <2>1. ASSUME NEW D \in SUBSET DOMAIN s, D # {}, g[D \ {LastIn(D)}] \in P
        PROVE  g[D] = F[g[D \ {LastIn(D)}]][s[LastIn(D)]]
    <3>1. s[LastIn(D)] \in K
      BY <1>8, <2>1 DEF Folds
    <3>2. g[D] = Found(g[D \ {LastIn(D)}], f, s[LastIn(D)])
      BY <1>10, <2>1
    <3> QED BY <1>3, <2>1, <3>1, <3>2
  <2>2. g[{}] = c
    BY <1>10
  <2> QED BY <2>1, <2>2 DEF Unrolls
<1>12. PICK r : Trace(F, P, K, c, s, r) /\ r[Len(s)] = g[DOMAIN s]
  BY <1>2, <1>4, <1>11, FoldsLead
<1>13. g[DOMAIN s] \in P
  <2>1. Len(s) \in 0..Len(s)
    BY LenProperties
  <2> QED BY <1>12, <2>1 DEF Trace
<1> QED BY <1>7, <1>13 DEF P


-----------------------------------------------------------------------------
(* The invariant.                                                          *)

LEMMA MirrorStart == MirrorInit => MirrorIInv
<1> SUFFICES ASSUME MirrorInit PROVE MirrorIInv
  OBVIOUS
<1>1. StorageIInv /\ StorageInit
  BY StorageStart DEF MirrorInit
<1>2. Stamped
  <2>1. written = [k \in Keys |-> {0}] /\ height = 0 /\ data \in Seq(Pairs)
    BY <1>1 DEF StorageInit, StorageIInv, DataTypes
  <2>2. ASSUME NEW e \in ToSet(data) PROVE e \in Pairs
    <3>1. PICK n \in DOMAIN data : e = data[n]
      BY DEF ToSet
    <3> QED BY <2>1, <3>1, ElementOfSeq, LenProperties
  <2> QED BY <2>1, <2>2 DEF Stamped, Pairs
<1>3. cache = NoCache /\ fetch = [f \in Fetches |-> NoFetch]
  BY DEF MirrorInit
<1>4. \A S : <<>> \in Seq(S)
  OBVIOUS
<1>5. [k \in {} |-> 0] \in UNION {[D -> Cached] : D \in SUBSET Keys}
  <2>1. [k \in {} |-> 0] \in [{} -> Cached] /\ {} \in SUBSET Keys
    OBVIOUS
  <2> QED BY <2>1
<1>6. cache \in Caches
  BY <1>3, <1>4, <1>5 DEF NoCache, Caches
<1>7. CacheOK(cache)
  <2>1. IsFiniteSet({}) /\ Cardinality({}) = 0
    BY FS_EmptySet
  <2>2. IsInjective(<<>>) /\ ToSet(<<>>) = {}
    BY DEF IsInjective, ToSet
  <2>3. /\ cache.mapped = {} /\ DOMAIN cache.entries = {} /\ cache.lru = <<>> /\ ~ cache.hung
        /\ MaxEntries \in Nat
    BY <1>3, MirrorAssumption DEF NoCache
  <2> QED BY <2>1, <2>2, <2>3 DEF CacheOK
<1>8. FetchesOK
  <2>1. NoFetch \in Flights
    BY <1>4 DEF NoFetch, Flights
  <2>2. FetchOK(NoFetch)
    BY <1>1 DEF FetchOK, NoFetch, StorageInit
  <2> QED BY <1>3, <2>1, <2>2 DEF FetchesOK
<1>9. FlightsCounted
  <2>1. \A f \in Fetches : InFlight[f] = 0
    BY <1>3 DEF InFlight, NoFetch
  <2>2. SumFunctionOnSet(InFlight, Fetches) = 0
    BY <2>1, MirrorAssumption, SumOfZeros
  <2> QED BY <1>3, <2>2, MirrorAssumption DEF FlightsCounted, NoCache
<1> QED BY <1>1, <1>2, <1>6, <1>7, <1>8, <1>9 DEF MirrorIInv

\* Blocks: what is written is newer than every height that was noted.
LEMMA StoreSteps ==
    ASSUME MirrorIInv, StorageNext, UNCHANGED mirror
    PROVE  MirrorIInv'
<1> USE DEF MirrorIInv
<1>1. cache' = cache /\ fetch' = fetch
  BY DEF mirror
<1>2. StorageIInv'
  BY StorageKeeps
<1>3. height \in Nat
  BY DEF StorageIInv, DataTypes
<1>4. /\ Stamped' /\ height <= height'
      /\ \A k \in Keys : \A g \in written'[k] : g \in written[k] \/ g = height + 1
  <2>1. CASE UNCHANGED <<data, height, written>>
    BY <1>3, <2>1 DEF Stamped
  <2>2. CASE BatchOp
    <3>1. PICK op \in [type : {"put", "delete"}, key : Keys] : op = Head(batch)
      <4>1. batch # <<>>
        BY <2>2 DEF BatchOp
      <4> QED BY <4>1, HeadTailProperties DEF StorageIInv, DataTypes
    <3>2. /\ written' = [written EXCEPT ![op.key] = @ \cup {height + 1}]
          /\ height' = height + 1 \/ height' = height
          /\ data' = IF op.type = "put" THEN Put(data, op.key, height + 1) ELSE Delete(data, op.key)
      BY <2>2, <3>1 DEF BatchOp
    <3>3. PICK w : w = written /\ w \in [Keys -> SUBSET Nat] /\ \A k \in Keys : \A g \in w[k] : g <= height + 1
      BY DEF Stamped
    <3>4. /\ written' \in [Keys -> SUBSET Nat]
          /\ \A k \in Keys : \A g \in written'[k] : g \in w[k] \/ (k = op.key /\ g = height + 1)
      <4>1. op.key \in Keys /\ w[op.key] \cup {height + 1} \in SUBSET Nat
        BY <1>3, <3>1, <3>3
      <4> QED BY <3>2, <3>3, <4>1
    <3>5. \A k \in Keys : \A g \in written'[k] : g <= height' + 1
      <4>1. ASSUME NEW k \in Keys, NEW g \in written'[k] PROVE g <= height' + 1
        <5>1. g \in Nat /\ g <= height + 1
          BY <1>3, <3>3, <3>4
        <5> QED BY <1>3, <3>2, <5>1
      <4> QED BY <4>1
    <3>6. data \in Seq(Pairs) /\ UniqueKeys(data) /\ op.key \in Keys
      BY <3>1 DEF StorageIInv, DataTypes
    <3>7. PICK d : d = data'
      OBVIOUS
    <3>8. ASSUME NEW e \in ToSet(d)
          PROVE  e = Entry(op.key, height + 1) \/ (e \in ToSet(data) /\ e.key # op.key /\ e.key \in Keys)
      <4>1. e = Entry(op.key, height + 1) \/ (e \in ToSet(data) /\ e.key # op.key)
        <5>1. CASE op.type = "put"
          <6>1. Entry(op.key, height + 1) \in Pairs
            BY <1>3, <3>6 DEF Entry, Pairs
          <6>2. \A x \in ToSet(Put(data, op.key, height + 1)) :
                   x = Entry(op.key, height + 1) \/ (x \in ToSet(data) /\ x.key # op.key)
            BY <3>6, <6>1, PutProperties
          <6> QED BY <3>2, <3>7, <3>8, <5>1, <6>2
        <5>2. CASE op.type # "put"
          <6>1. \A x \in ToSet(Delete(data, op.key)) : x \in ToSet(data) /\ x.key # op.key
            BY <3>6, DeleteProperties
          <6> QED BY <3>2, <3>7, <3>8, <5>2, <6>1
        <5> QED BY <5>1, <5>2
      <4>2. e \in ToSet(data) => e.key \in Keys
        <5>1. ASSUME e \in ToSet(data) PROVE e \in Pairs
          <6>1. PICK n \in DOMAIN data : e = data[n]
            BY <5>1 DEF ToSet
          <6> QED BY <3>6, <6>1, ElementOfSeq, LenProperties
        <5> QED BY <5>1 DEF Pairs
      <4> QED BY <4>1, <4>2
    <3>9. ASSUME NEW e \in ToSet(d), NEW g \in written'[e.key] PROVE g <= e.value
      <4>1. CASE e = Entry(op.key, height + 1)
        <5>1. e.key = op.key /\ e.value = height + 1
          BY <4>1 DEF Entry
        <5> QED BY <1>3, <3>3, <3>4, <3>6, <3>9, <5>1
      <4>2. CASE e \in ToSet(data) /\ e.key # op.key /\ e.key \in Keys
        <5>1. g \in written[e.key]
          BY <3>3, <3>4, <3>9, <4>2
        <5> QED BY <4>2, <5>1 DEF Stamped
      <4> QED BY <3>8, <4>1, <4>2
    <3>10. Stamped'
      BY <3>4, <3>5, <3>7, <3>9 DEF Stamped
    <3> QED BY <1>3, <3>2, <3>3, <3>4, <3>10
  <2> QED BY <2>1, <2>2 DEF StorageNext, Write, StartBatch, ExportCount, ExportCut, Receive, ImportPut, store
<1>5. height' \in Nat
  BY <1>2 DEF StorageIInv, DataTypes
<1>6. \A k \in Keys, v \in Nat, h \in Nat : h <= height /\ NoneSince(k, v, h) => NoneSince(k, v, h)'
  <2>1. ASSUME NEW k \in Keys, NEW v \in Nat, NEW h \in Nat, h <= height, NoneSince(k, v, h), NEW g \in written'[k], g <= h
        PROVE  g <= v
    <3>1. g # height + 1
      BY <1>3, <2>1
    <3> QED BY <1>4, <2>1, <3>1 DEF NoneSince
  <2> QED BY <2>1 DEF NoneSince
<1>7. CacheOK(cache)'
  <2>1. PICK c \in Caches : c = cache
    OBVIOUS
  <2>2. \A k \in c.mapped : c.entries[k].value \in Nat /\ c.entries[k].height \in Nat /\ k \in Keys
    <3>1. PICK D \in SUBSET Keys : c.entries \in [D -> Cached]
      BY DEF Caches
    <3> QED BY <2>1, <3>1 DEF CacheOK, Cached
  <2>3. ASSUME NEW k \in c.mapped
        PROVE  c.entries[k].height <= height' /\ NoneSince(k, c.entries[k].value, c.entries[k].height)'
    <3>1. PICK h \in Nat, v \in Nat : h = c.entries[k].height /\ v = c.entries[k].value
      BY <2>2
    <3>2. h <= height /\ NoneSince(k, v, h) /\ k \in Keys
      BY <2>1, <2>2, <3>1 DEF CacheOK
    <3>3. NoneSince(k, v, h)'
      BY <1>6, <3>2
    <3>4. h <= height'
      BY <1>3, <1>4, <1>5, <3>2
    <3> QED BY <3>1, <3>3, <3>4 DEF NoneSince
  <2>4. PICK w : w = written'
    OBVIOUS
  <2>5. PICK hh : hh = height'
    OBVIOUS
  <2>6. \A k \in c.mapped : /\ c.entries[k].height <= hh
                            /\ \A g \in w[k] : g <= c.entries[k].height => g <= c.entries[k].value
    BY <2>3, <2>4, <2>5 DEF NoneSince
  <2>7. cache' = c
    BY <1>1, <2>1
  <2> QED BY <2>1, <2>4, <2>5, <2>6, <2>7 DEF CacheOK, NoneSince
<1>8. FetchesOK'
  <2>1. ASSUME NEW f \in Fetches PROVE FetchOK(fetch[f])'
    <3>1. PICK r \in Flights : r = fetch[f] /\ FetchOK(r)
      BY DEF FetchesOK
    <3>2. PICK h \in Nat : h = r.height
      BY DEF Flights
    <3>3. h <= height /\ h <= height'
      BY <1>3, <1>4, <1>5, <3>1, <3>2 DEF FetchOK
    <3>4. ASSUME NEW n \in 1..Len(r.got), NEW v \in r.got[n] PROVE NoneSince(r.keys[n], v, h)'
      <4>1. r.got \in Seq(SUBSET Nat) /\ r.keys \in Seq(Keys) /\ r.left \in Seq(Keys)
        BY DEF Flights
      <4>2. v \in Nat
        BY <3>4, <4>1, ElementOfSeq
      <4>3. n \in 1..Len(r.keys)
        <5>1. PICK a \in Nat, b \in Nat : a = Len(r.got) /\ b = Len(r.left) /\ a + b = Len(r.keys)
          BY <3>1, <4>1, LenProperties DEF FetchOK
        <5>2. n \in 1..a
          BY <3>4, <5>1
        <5>3. n \in 1..a + b
          BY ONLY <5>2, a \in Nat, b \in Nat
        <5> QED BY <5>1, <5>3
      <4>4. r.keys[n] \in Keys
        BY <4>1, <4>3, ElementOfSeq
      <4>5. NoneSince(r.keys[n], v, h)
        BY <3>1, <3>2 DEF FetchOK
      <4> QED BY <1>6, <3>3, <4>2, <4>4, <4>5
    <3>5. fetch'[f] = r
      BY <1>1, <3>1
    <3> QED BY <3>1, <3>2, <3>3, <3>4, <3>5 DEF FetchOK, NoneSince
  <2> QED BY <1>1, <2>1 DEF FetchesOK
<1>9. FlightsCounted'
  BY <1>1 DEF FlightsCounted, InFlight
<1> QED BY <1>1, <1>2, <1>4, <1>7, <1>8, <1>9

\* The calls leave the store alone.
LEMMA CallsKeep ==
    ASSUME MirrorIInv, UNCHANGED <<store, reader, copy>>, NEW c \in Caches, NEW F, cache' = c, fetch' = F,
           CacheOK(c), F \in [Fetches -> Flights], \A f \in Fetches : FetchOK(F[f]), FlightsCounted'
    PROVE  MirrorIInv'
<1>1. UNCHANGED <<data, batch, height, written, reader, out, target, import>>
  BY DEF store, copy
<1>2. StorageIInv'
  BY StorageKeeps DEF MirrorIInv
<1>3. Stamped'
  BY <1>1 DEF MirrorIInv, Stamped
<1>4. CacheOK(cache)'
  BY <1>1 DEF CacheOK, NoneSince
<1>5. FetchesOK'
  BY <1>1 DEF FetchesOK, FetchOK, NoneSince
<1> QED BY <1>2, <1>3, <1>4, <1>5 DEF MirrorIInv

\* One fetch changes.
Weight(r) == IF r.kind = "refresh" THEN Len(r.keys) ELSE 0

LEMMA FlightChanges ==
    ASSUME MirrorIInv, UNCHANGED <<store, reader, copy>>, NEW c \in Caches, cache' = c, CacheOK(c),
           NEW f \in Fetches, NEW r \in Flights, fetch' = [fetch EXCEPT ![f] = r], FetchOK(r),
           c.active = cache.active - Weight(fetch[f]) + Weight(r), c.active <= MaxConcurrentFetches
    PROVE  MirrorIInv'
<1>1. FetchesOK /\ FlightsCounted
  BY DEF MirrorIInv
<1>2. PICK F : F = [fetch EXCEPT ![f] = r]
  OBVIOUS
<1>3. F \in [Fetches -> Flights] /\ F[f] = r /\ \A x \in Fetches \ {f} : F[x] = fetch[x]
  BY <1>1, <1>2 DEF FetchesOK
<1>4. \A x \in Fetches : FetchOK(F[x])
  BY <1>1, <1>3 DEF FetchesOK
<1>5. PICK v : v = InFlight
  OBVIOUS
<1>6. PICK w : w = InFlight'
  OBVIOUS
<1>7. \A x \in Fetches : v[x] \in Nat /\ v[x] = Weight(fetch[x]) /\ w[x] \in Nat /\ w[x] = Weight(F[x])
  <2>1. \A x \in Fetches : v[x] = Weight(fetch[x]) /\ w[x] = Weight(F[x])
    BY <1>2, <1>5, <1>6 DEF InFlight, Weight
  <2>2. \A y \in Flights : Weight(y) \in Nat
    BY LenProperties DEF Weight, Flights
  <2> QED BY <1>1, <1>3, <2>1, <2>2 DEF FetchesOK
<1>8. SumFunctionOnSet(w, Fetches) = SumFunctionOnSet(v, Fetches) - v[f] + w[f]
  <2>1. Summable(v, Fetches)
    BY <1>7, MirrorAssumption DEF Summable
  <2>2. w[f] \in Int /\ \A y \in Fetches \ {f} : w[y] = v[y]
    BY <1>3, <1>7
  <2> QED BY <2>1, <2>2, SumChange
<1>9. FlightsCounted'
  <2>1. cache.active = SumFunctionOnSet(v, Fetches)
    BY <1>1, <1>5 DEF FlightsCounted
  <2>2. c.active = SumFunctionOnSet(w, Fetches)
    BY <1>3, <1>7, <1>8, <2>1
  <2> QED BY <1>6, <2>2 DEF FlightsCounted
<1> QED BY <1>2, <1>3, <1>4, <1>9, CallsKeep

LEMMA CacheChanges ==
    ASSUME MirrorIInv, UNCHANGED <<store, reader, copy>>, NEW c \in Caches, cache' = c, CacheOK(c),
           c.active = cache.active, fetch' = fetch
    PROVE  MirrorIInv'
<1>1. FetchesOK /\ FlightsCounted
  BY DEF MirrorIInv
<1>2. FlightsCounted'
  BY <1>1 DEF FlightsCounted, InFlight
<1> QED BY <1>1, <1>2, CallsKeep DEF FetchesOK

LEMMA LookupKeeps ==
    ASSUME MirrorIInv, UNCHANGED <<store, reader, copy>>, NEW k \in Keys, Lookup(k)
    PROVE  MirrorIInv'
<1>1. cache \in Caches /\ CacheOK(cache) /\ cache' = GetState(cache, k) /\ fetch' = fetch
  BY DEF MirrorIInv, Lookup
<1>2. GetState(cache, k) \in Caches /\ CacheOK(GetState(cache, k)) /\ GetState(cache, k).active = cache.active
  BY <1>1, ReadKeeps
<1> QED BY <1>1, <1>2, CacheChanges

LEMMA InvalidateKeeps ==
    ASSUME MirrorIInv, UNCHANGED <<store, reader, copy>>, NEW k \in Keys, Invalidate(k)
    PROVE  MirrorIInv'
<1>1. cache \in Caches /\ CacheOK(cache) /\ cache' = Forget(cache, k) /\ fetch' = fetch
  BY DEF MirrorIInv, Invalidate
<1>2. Forget(cache, k) \in Caches /\ CacheOK(Forget(cache, k)) /\ Forget(cache, k).active = cache.active
  BY <1>1, ForgetKeeps
<1> QED BY <1>1, <1>2, CacheChanges

LEMMA BeforeHeightKeeps ==
    ASSUME MirrorIInv, UNCHANGED <<store, reader, copy>>, InvalidateBeforeHeight
    PROVE  MirrorIInv'
<1>1. cache \in Caches /\ CacheOK(cache)
  BY DEF MirrorIInv
<1>2. PICK old : /\ old = {k \in DOMAIN cache.entries : cache.entries[k].height < height}
                 /\ cache' = FoldLeft(Forget, cache, SetToSeq(old)) /\ fetch' = fetch
  BY DEF InvalidateBeforeHeight
<1>3. old \in SUBSET Keys /\ IsFiniteSet(old)
  <2>1. old \subseteq cache.mapped /\ IsFiniteSet(cache.mapped) /\ cache.mapped \subseteq Keys
    BY <1>1, <1>2 DEF CacheOK, Caches
  <2> QED BY <2>1, FS_Subset
<1>4. SetToSeq(old) \in Seq(Keys)
  <2>1. PICK n \in Nat : n = Cardinality(old) /\ ExistsBijection(1..n, old)
    BY <1>3, FS_CardinalityType
  <2>2. \E q \in [1..n -> old] : IsInjective(q)
    BY <2>1 DEF ExistsBijection, Bijection, Injection, IsInjective
  <2>3. SetToSeq(old) \in [1..n -> old]
    BY <2>1, <2>2 DEF SetToSeq
  <2>4. SetToSeq(old) \in [1..n -> Keys]
    BY <1>3, <2>3
  <2> QED BY <2>4, SeqDef
<1>5. PICK c : c = FoldLeft(Forget, cache, SetToSeq(old))
  OBVIOUS
<1>6. c \in Caches /\ CacheOK(c) /\ c.active = cache.active
  BY <1>1, <1>4, <1>5, ForgetsKeep
<1> QED BY <1>2, <1>5, <1>6, CacheChanges

LEMMA ClearKeeps ==
    ASSUME MirrorIInv, UNCHANGED <<store, reader, copy>>, Clear
    PROVE  MirrorIInv'
<1>1. cache \in Caches
  BY DEF MirrorIInv
<1>2. PICK c : c = [NoCache EXCEPT !.active = cache.active]
  OBVIOUS
<1>3. cache' = c /\ fetch' = fetch
  BY <1>2 DEF Clear
<1>4. [k \in {} |-> 0] \in UNION {[D -> Cached] : D \in SUBSET Keys}
  <2>1. [k \in {} |-> 0] \in [{} -> Cached] /\ {} \in SUBSET Keys
    OBVIOUS
  <2> QED BY <2>1
<1>5. /\ c \in Caches /\ c.active = cache.active /\ c.mapped = {} /\ DOMAIN c.entries = {} /\ c.lru = <<>>
      /\ ~ c.hung
  <2>1. cache.active \in Nat /\ <<>> \in Seq(Keys)
    BY <1>1 DEF Caches
  <2> QED BY <1>2, <1>4, <2>1 DEF NoCache, Caches
<1>6. CacheOK(c)
  <2>1. IsFiniteSet({}) /\ Cardinality({}) = 0
    BY FS_EmptySet
  <2>2. IsInjective(<<>>) /\ ToSet(<<>>) = {}
    BY DEF IsInjective, ToSet
  <2>3. MaxEntries \in Nat
    BY MirrorAssumption
  <2> QED BY <1>5, <2>1, <2>2, <2>3 DEF CacheOK
<1> QED BY <1>3, <1>5, <1>6, CacheChanges

LEMMA AgeKeeps ==
    ASSUME MirrorIInv, UNCHANGED <<store, reader, copy>>, Age
    PROVE  MirrorIInv'
<1>1. cache \in Caches /\ CacheOK(cache)
  BY DEF MirrorIInv
<1>2. PICK M \in SUBSET Keys : M = DOMAIN cache.entries /\ cache.entries \in [M -> Cached]
  BY <1>1 DEF Caches
<1>3. PICK e : e = [k \in M |-> IF cache.entries[k].age <= Ttl THEN Older(cache.entries[k])
                                ELSE cache.entries[k]]
  OBVIOUS
<1>4. ASSUME NEW k \in M
      PROVE  e[k] \in Cached /\ e[k].value = cache.entries[k].value /\ e[k].height = cache.entries[k].height
  <2>1. PICK x \in Cached : x = cache.entries[k]
    BY <1>2
  <2>2. e[k] = x \/ e[k] = [x EXCEPT !.age = @ + 1]
    BY <1>3, <2>1 DEF Older
  <2> QED BY <2>1, <2>2 DEF Cached
<1>5. e \in UNION {[D -> Cached] : D \in SUBSET Keys} /\ DOMAIN e = M
  <2>1. e \in [M -> Cached]
    BY <1>3, <1>4
  <2> QED BY <2>1
<1>6. PICK c : c = [cache EXCEPT !.entries = e]
  OBVIOUS
<1>7. cache' = c /\ fetch' = fetch
  <2>1. [k \in DOMAIN cache.entries |-> IF cache.entries[k].age <= Ttl THEN Older(cache.entries[k])
                                       ELSE cache.entries[k]] = e
    BY <1>2, <1>3
  <2> QED BY <1>6, <2>1 DEF Age
<1>8. /\ c \in Caches /\ c.entries = e /\ c.active = cache.active /\ c.mapped = cache.mapped /\ c.lru = cache.lru
      /\ c.hung = cache.hung /\ c.again = cache.again
  BY <1>1, <1>5, <1>6 DEF Caches
<1>9. CacheOK(c)
  BY <1>1, <1>2, <1>4, <1>5, <1>8 DEF CacheOK
<1> QED BY <1>7, <1>8, <1>9, CacheChanges

-----------------------------------------------------------------------------
(* The fetches.                                                            *)

\* A fetch that starts has read nothing.
LEMMA IssuedIsOK ==
    ASSUME MirrorIInv, NEW f \in Fetches, NEW kind \in {"prefetch", "refresh"}, NEW keys \in Seq(Keys), Issue(f, kind, keys)
    PROVE  \E r \in Flights : /\ fetch' = [fetch EXCEPT ![f] = r] /\ FetchOK(r)
                              /\ Weight(fetch[f]) = 0 /\ Weight(r) = IF kind = "refresh" THEN Len(keys) ELSE 0
<1>1. height \in Nat
  BY DEF MirrorIInv, StorageIInv, DataTypes
<1>2. PICK r : r = [kind |-> kind, keys |-> keys, height |-> height, left |-> keys, got |-> <<>>]
  OBVIOUS
<1>3. r \in Flights
  <2>1. <<>> \in Seq(SUBSET Nat)
    OBVIOUS
  <2> QED BY <1>1, <1>2, <2>1 DEF Flights
<1>4. FetchOK(r)
  <2>1. PICK l \in Nat : l = Len(keys)
    BY LenProperties
  <2>2. Len(<<>>) = 0 /\ 0 + l = l /\ \A n \in 1..l : 0 + n = n
    OBVIOUS
  <2>3. \A n \in 1..0 : FALSE
    BY ONLY SMT
  <2>4. height <= height
    BY <1>1
  <2> QED BY <1>2, <2>1, <2>2, <2>3, <2>4 DEF FetchOK
<1>5. fetch' = [fetch EXCEPT ![f] = r] /\ fetch[f] = NoFetch
  BY <1>2 DEF Issue
<1>6. Weight(fetch[f]) = 0 /\ Weight(r) = IF kind = "refresh" THEN Len(keys) ELSE 0
  BY <1>2, <1>5 DEF Weight, NoFetch
<1> QED BY <1>3, <1>4, <1>5, <1>6

LEMMA PrefetchKeeps ==
    ASSUME MirrorIInv, UNCHANGED <<store, reader, copy>>, NEW f \in Fetches, NEW keys \in Wanted, Prefetch(f, keys)
    PROVE  MirrorIInv'
<1>1. cache \in Caches /\ CacheOK(cache) /\ FlightsCounted /\ keys \in Seq(Keys)
  BY MirrorAssumption DEF MirrorIInv
<1>2. PICK missed \in Seq(Keys) : missed = Filtered(keys, {k \in ToSet(keys) : ~ Hit(cache, k)})
  BY <1>1, FilteredProperties
<1>3. PICK c \in Caches : c = FoldLeft(GetState, cache, keys) /\ CacheOK(c) /\ c.active = cache.active
  BY <1>1, ReadsKeep
<1>4. Issue(f, "prefetch", missed) /\ cache' = c
  BY <1>2, <1>3 DEF Prefetch
<1>5. PICK r \in Flights : /\ fetch' = [fetch EXCEPT ![f] = r] /\ FetchOK(r)
                           /\ Weight(fetch[f]) = 0 /\ Weight(r) = 0
  BY <1>4, IssuedIsOK
<1>6. c.active = cache.active - 0 + 0 /\ c.active <= MaxConcurrentFetches
  BY <1>1, <1>3 DEF FlightsCounted, Caches
<1> QED BY <1>3, <1>4, <1>5, <1>6, FlightChanges

LEMMA RefreshKeeps ==
    ASSUME MirrorIInv, UNCHANGED <<store, reader, copy>>, NEW f \in Fetches, CheckRefreshes(f)
    PROVE  MirrorIInv'
<1>1. cache \in Caches /\ CacheOK(cache) /\ FlightsCounted
  BY DEF MirrorIInv
<1>2. PICK a \in Nat, m \in Nat, n \in Nat :
        a = cache.active /\ m = MaxConcurrentFetches /\ a <= m /\ n = m - a
  <2>1. cache.active \in Nat /\ MaxConcurrentFetches \in Nat /\ cache.active <= MaxConcurrentFetches
    BY <1>1, MirrorAssumption DEF FlightsCounted, Caches
  <2>2. MaxConcurrentFetches - cache.active \in Nat
    BY <2>1
  <2> QED BY <2>1, <2>2
<1>3. PICK p \in Seq(Keys) : p = cache.pending
  BY <1>1 DEF Caches
<1>4. PICK l \in Nat : l = Len(p) /\ \A j \in 1..l : p[j] \in Keys
  BY LenProperties, ElementOfSeq
<1>5. PICK d \in Nat : d = (IF n < l THEN n ELSE l) /\ d <= n /\ d <= l
  OBVIOUS
<1>6. PICK due \in Seq(Keys) : due = SubSeq(p, 1, d) /\ Len(due) = d
  <2>1. 0 <= d /\ \A j \in 0 + 1..d : p[j] \in Keys
    BY <1>4, <1>5
  <2>2. SubSeq(p, 0 + 1, d) \in Seq(Keys) /\ Len(SubSeq(p, 0 + 1, d)) = d - 0
    BY <2>1, PartOf
  <2>3. 0 + 1 = 1 /\ d - 0 = d
    OBVIOUS
  <2> QED BY <2>2, <2>3
<1>7. PICK rest \in Seq(Keys) : rest = SubSeq(p, d + 1, l)
  <2>1. \A j \in d + 1..l : p[j] \in Keys
    BY <1>4
  <2> QED BY <1>5, <2>1, PartOf
<1>8. PICK s \in Nat : s = a + d
  OBVIOUS
<1>9. PICK c : c = [cache EXCEPT !.pending = rest, !.active = s]
  OBVIOUS
<1>10. Issue(f, "refresh", due) /\ cache' = c
  BY <1>2, <1>3, <1>4, <1>5, <1>6, <1>7, <1>8, <1>9 DEF CheckRefreshes
<1>11. /\ c \in Caches /\ c.active = a + d /\ c.entries = cache.entries /\ c.mapped = cache.mapped
       /\ c.lru = cache.lru /\ c.hung = cache.hung /\ c.again = cache.again
  BY <1>1, <1>8, <1>9 DEF Caches
<1>12. CacheOK(c)
  BY <1>1, <1>11 DEF CacheOK
<1>13. PICK r \in Flights : /\ fetch' = [fetch EXCEPT ![f] = r] /\ FetchOK(r)
                            /\ Weight(fetch[f]) = 0 /\ Weight(r) = d
  BY <1>6, <1>10, IssuedIsOK
<1>14. c.active = cache.active - 0 + d /\ c.active <= MaxConcurrentFetches
  BY <1>2, <1>5, <1>11
<1> QED BY <1>10, <1>11, <1>12, <1>13, <1>14, FlightChanges

\* What is read is what the last block that wrote the key wrote.
LEMMA FetchReadKeeps ==
    ASSUME MirrorIInv, UNCHANGED <<store, reader, copy>>, NEW f \in Fetches, FetchRead(f)
    PROVE  MirrorIInv'
<1>1. cache \in Caches /\ CacheOK(cache) /\ FlightsCounted /\ Stamped /\ FetchesOK
  BY DEF MirrorIInv
<1>2. PICK o \in Flights : o = fetch[f] /\ FetchOK(o)
  BY <1>1 DEF FetchesOK
<1>3. PICK keys \in Seq(Keys), left \in Seq(Keys), got \in Seq(SUBSET Nat), h \in Nat :
        keys = o.keys /\ left = o.left /\ got = o.got /\ h = o.height
  BY DEF Flights
<1>4. PICK a \in Nat, b \in Nat : a = Len(got) /\ b = Len(left)
  BY LenProperties
<1>5. /\ left # <<>> /\ fetch' = [fetch EXCEPT ![f] = [o EXCEPT !.left = Tail(left), !.got = Append(got, Get(data, Head(left)))]]
      /\ cache' = cache
  BY <1>2, <1>3 DEF FetchRead
<1>6. /\ h <= height /\ a + b = Len(keys) /\ \A n \in 1..b : left[n] = keys[a + n]
      /\ \A n \in 1..a : \A v \in got[n] : NoneSince(keys[n], v, h)
  BY <1>2, <1>3, <1>4 DEF FetchOK
<1>7. PICK k \in Keys : k = Head(left) /\ k = left[1]
  BY <1>5, HeadTailProperties
<1>8. b # 0 /\ k = keys[a + 1]
  <2>1. b # 0
    BY <1>4, <1>5, EmptySeq
  <2>2. 1 \in 1..b
    BY <2>1
  <2> QED BY <1>6, <1>7, <2>1, <2>2
<1>9. PICK t \in Seq(Keys) : t = Tail(left) /\ Len(t) = b - 1 /\ \A n \in 1..b - 1 : t[n] = left[n + 1]
  <2>1. /\ Tail(left) \in Seq(Keys) /\ Len(Tail(left)) = Len(left) - 1
        /\ \A n \in 1..Len(Tail(left)) : Tail(left)[n] = left[n + 1]
    BY <1>5, HeadTailProperties
  <2> QED BY <1>4, <2>1
<1>10. PICK x \in SUBSET Nat : x = Get(data, k) /\ \A v \in x : NoneSince(k, v, h)
  <2>1. data \in Seq(Pairs)
    BY DEF MirrorIInv, StorageIInv, DataTypes
  <2>2. ASSUME NEW v \in Get(data, k) PROVE v \in Nat /\ NoneSince(k, v, h)
    <3>1. PICK n \in DOMAIN data : data[n].key = k /\ v = data[n].value
      BY <2>2 DEF Get
    <3>2. data[n] \in Pairs
      BY <2>1, <3>1, ElementOfSeq, LenProperties
    <3>3. data[n] \in ToSet(data)
      BY DEF ToSet
    <3>4. \A g \in written[k] : g <= v
      BY <1>1, <3>1, <3>3 DEF Stamped
    <3> QED BY <3>1, <3>2, <3>4 DEF NoneSince, Pairs
  <2> QED BY <2>2
<1>11. PICK w \in Seq(SUBSET Nat) : /\ w = Append(got, x) /\ Len(w) = a + 1 /\ w[a + 1] = x
                                    /\ \A n \in 1..a : w[n] = got[n]
  <2>1. /\ Append(got, x) \in Seq(SUBSET Nat) /\ Len(Append(got, x)) = Len(got) + 1
        /\ \A i \in 1..Len(got) : Append(got, x)[i] = got[i]
        /\ Append(got, x)[Len(got) + 1] = x
    BY AppendProperties
  <2> QED BY <1>4, <2>1
<1>12. PICK r : r = [o EXCEPT !.left = t, !.got = w]
  OBVIOUS
<1>13. fetch' = [fetch EXCEPT ![f] = r]
  BY <1>5, <1>7, <1>9, <1>10, <1>11, <1>12
<1>14. r \in Flights /\ r.left = t /\ r.got = w /\ r.keys = keys /\ r.height = h /\ r.kind = o.kind
  BY <1>3, <1>12 DEF Flights
<1>15. FetchOK(r)
  <2>1. a + 1 + (b - 1) = Len(keys)
    BY <1>6
  <2>2. ASSUME NEW n \in 1..b - 1 PROVE t[n] = keys[a + 1 + n]
    <3>1. n + 1 \in 1..b /\ a + (n + 1) = a + 1 + n
      OBVIOUS
    <3> QED BY <1>6, <1>9, <3>1
  <2>3. ASSUME NEW n \in 1..a + 1, NEW v \in w[n] PROVE NoneSince(keys[n], v, h)
    <3>1. CASE n = a + 1
      BY <1>8, <1>10, <1>11, <2>3, <3>1
    <3>2. CASE n # a + 1
      <4>1. n \in 1..a
        BY <3>2
      <4> QED BY <1>6, <1>11, <2>3, <4>1
    <3> QED BY <3>1, <3>2
  <2>4. Len(r.got) = a + 1 /\ Len(r.left) = b - 1
    BY <1>9, <1>11, <1>14
  <2> QED BY <1>6, <1>14, <2>1, <2>2, <2>3, <2>4 DEF FetchOK
<1>16. Weight(r) = Weight(o) /\ Weight(o) \in Nat
  BY <1>3, <1>14, LenProperties DEF Weight
<1>17. cache.active = cache.active - Weight(o) + Weight(r) /\ cache.active <= MaxConcurrentFetches
  BY <1>1, <1>16 DEF FlightsCounted, Caches
<1> QED BY <1>1, <1>2, <1>5, <1>13, <1>14, <1>15, <1>17, FlightChanges

\* A fetch that ends, with what it found or without.
LEMMA EndKeeps ==
    ASSUME MirrorIInv, UNCHANGED <<store, reader, copy>>, NEW f \in Fetches, NEW c \in Caches, CacheOK(c), c.active = cache.active,
           cache' = Released(c, f), fetch' = [fetch EXCEPT ![f] = NoFetch]
    PROVE  MirrorIInv'
<1>1. cache \in Caches /\ FlightsCounted /\ FetchesOK
  BY DEF MirrorIInv
<1>2. PICK o \in Flights : o = fetch[f]
  BY <1>1 DEF FetchesOK
<1>3. PICK w \in Nat : w = Weight(o) /\ w <= cache.active
  <2>1. \A x \in Fetches : InFlight[x] \in Nat
    BY <1>1, LenProperties DEF FetchesOK, InFlight, Flights
  <2>2. InFlight[f] <= SumFunctionOnSet(InFlight, Fetches)
    BY <2>1, MirrorAssumption, SumPositive
  <2>3. InFlight[f] = Weight(o)
    BY <1>2 DEF InFlight, Weight
  <2> QED BY <1>1, <2>1, <2>2, <2>3 DEF FlightsCounted
<1>4. PICK a \in Nat : a = cache.active - w
  BY <1>1, <1>3 DEF Caches
<1>5. PICK d : d = [c EXCEPT !.active = a]
  OBVIOUS
<1>6. /\ d \in Caches /\ d.active = a /\ d.entries = c.entries /\ d.mapped = c.mapped /\ d.lru = c.lru
      /\ d.hung = c.hung /\ d.again = c.again
  BY <1>5 DEF Caches
<1>7. Released(c, f) = d
  <2>1. CASE o.kind = "refresh"
    <3>1. w = Len(o.keys)
      BY <1>3, <2>1 DEF Weight
    <3> QED BY <1>2, <1>4, <1>5, <2>1, <3>1 DEF Released
  <2>2. CASE o.kind # "refresh"
    <3>1. w = 0
      BY <1>3, <2>2 DEF Weight
    <3>2. a = c.active
      BY <1>1, <1>4, <3>1 DEF Caches
    <3>3. d = c
      BY <1>5, <3>2 DEF Caches
    <3> QED BY <1>2, <2>2, <3>3 DEF Released
  <2> QED BY <2>1, <2>2
<1>8. CacheOK(d)
  BY <1>6 DEF CacheOK
<1>9. NoFetch \in Flights /\ FetchOK(NoFetch) /\ Weight(NoFetch) = 0
  <2>1. height \in Nat /\ <<>> \in Seq(Keys) /\ <<>> \in Seq(SUBSET Nat)
    BY DEF MirrorIInv, StorageIInv, DataTypes
  <2> QED BY <2>1 DEF NoFetch, Flights, FetchOK, Weight
<1>10. d.active = cache.active - Weight(fetch[f]) + 0 /\ d.active <= MaxConcurrentFetches
  <2>1. cache.active \in Nat /\ cache.active <= MaxConcurrentFetches /\ MaxConcurrentFetches \in Nat
    BY <1>1, MirrorAssumption DEF FlightsCounted, Caches
  <2> QED BY <1>2, <1>3, <1>4, <1>6, <2>1
<1> QED BY <1>6, <1>7, <1>8, <1>9, <1>10, FlightChanges

LEMMA FetchReturnsKeeps ==
    ASSUME MirrorIInv, UNCHANGED <<store, reader, copy>>, NEW f \in Fetches, FetchReturns(f)
    PROVE  MirrorIInv'
<1>1. cache \in Caches /\ CacheOK(cache) /\ FetchesOK
  BY DEF MirrorIInv
<1>2. PICK o \in Flights : o = fetch[f] /\ FetchOK(o)
  BY <1>1 DEF FetchesOK
<1>3. PICK keys \in Seq(Keys), got \in Seq(SUBSET Nat), h \in Nat :
        keys = o.keys /\ got = o.got /\ h = o.height
  BY DEF Flights
<1>4. PICK K : K = DOMAIN keys
  OBVIOUS
<1>5. PICK l \in Nat : l = Len(keys) /\ K = 1..l /\ l = Len(got)
  <2>1. o.left = <<>> /\ Len(<<>>) = 0
    BY <1>2 DEF FetchReturns
  <2>2. Len(got) + 0 = Len(keys)
    BY <1>2, <1>3, <2>1 DEF FetchOK
  <2> QED BY <1>4, <2>2, LenProperties
<1>6. ASSUME NEW n \in K
      PROVE  /\ fetch[f].keys[n] \in Keys /\ fetch[f].got[n] \subseteq Nat
             /\ fetch[f].height \in Nat /\ fetch[f].height <= height
             /\ \A v \in fetch[f].got[n] : NoneSince(fetch[f].keys[n], v, fetch[f].height)
  <2>1. keys[n] \in Keys /\ got[n] \in SUBSET Nat
    BY <1>5, ElementOfSeq
  <2>2. h <= height /\ \A v \in got[n] : NoneSince(keys[n], v, h)
    BY <1>2, <1>3, <1>5 DEF FetchOK
  <2> QED BY <1>2, <1>3, <2>1, <2>2
<1>7. [n \in K |-> n] \in Seq(K)
  <2>1. [n \in K |-> n] \in [1..l -> K]
    BY <1>5
  <2> QED BY <2>1, SeqDef
<1>8. PICK c : c = FoundAll(cache, f)
  OBVIOUS
<1>9. K = DOMAIN fetch[f].keys
  BY <1>2, <1>3, <1>4
<1>10. c \in Caches /\ CacheOK(c) /\ c.active = cache.active
  BY <1>1, <1>6, <1>7, <1>8, <1>9, FindsKeep
<1>11. cache' = Released(c, f) /\ fetch' = [fetch EXCEPT ![f] = NoFetch]
  BY <1>8, <1>9 DEF FetchReturns
<1> QED BY <1>10, <1>11, EndKeeps

LEMMA FetchFailsKeeps ==
    ASSUME MirrorIInv, UNCHANGED <<store, reader, copy>>, NEW f \in Fetches, FetchFails(f)
    PROVE  MirrorIInv'
<1>1. cache \in Caches /\ CacheOK(cache) /\ cache' = Released(cache, f) /\ fetch' = [fetch EXCEPT ![f] = NoFetch]
  BY DEF MirrorIInv, FetchFails
<1> QED BY <1>1, EndKeeps

LEMMA MirrorKeeps ==
    ASSUME MirrorIInv, [MirrorNext]_<<store, reader, copy, mirror>>
    PROVE  MirrorIInv'
<1>1. CASE UNCHANGED <<store, reader, copy, mirror>>
  <2>1. UNCHANGED <<store, reader, copy>> /\ cache' = cache /\ fetch' = fetch /\ cache \in Caches /\ CacheOK(cache)
    BY <1>1 DEF mirror, MirrorIInv
  <2> QED BY <2>1, CacheChanges
<1>2. CASE StorageNext /\ UNCHANGED mirror
  BY <1>2, StoreSteps
<1>3. CASE Calls /\ UNCHANGED <<store, reader, copy>>
  BY <1>3, LookupKeeps, InvalidateKeeps, BeforeHeightKeeps, ClearKeeps, AgeKeeps, PrefetchKeeps, RefreshKeeps,
     FetchReadKeeps, FetchReturnsKeeps, FetchFailsKeeps DEF Calls
<1> QED BY <1>1, <1>2, <1>3 DEF MirrorNext

LEMMA CachesAgree == MirrorIInv => CacheIsSound
<1> SUFFICES ASSUME MirrorIInv PROVE CacheIsSound
  OBVIOUS
<1>1. cache \in Caches /\ CacheOK(cache) /\ FlightsCounted
  BY DEF MirrorIInv
<1>2. CountsHold
  BY <1>1 DEF CacheOK, FlightsCounted, CountsHold
<1>3. ListHolds
  BY <1>1 DEF CacheOK, ListHolds
<1>4. ValuesMatchHeights
  BY <1>1 DEF CacheOK, ValuesMatchHeights, NoneSince
<1> QED BY <1>2, <1>3, <1>4 DEF CacheIsSound

\* Whatever overlaps - fetches that start, read, return, fail or answer late, blocks
\* that write key by key, states that are invalidated or expire - the cache keeps its
\* limits, its list and its heights (WarmMirrorCache).
THEOREM CachesAreSound == MirrorSpec => []CacheIsSound
<1>1. MirrorInit => MirrorIInv
  BY MirrorStart
<1>2. MirrorIInv /\ [MirrorNext]_<<store, reader, copy, mirror>> => MirrorIInv'
  BY MirrorKeeps
<1> QED BY <1>1, <1>2, CachesAgree, PTL DEF MirrorSpec

-----------------------------------------------------------------------------
(* The stream of events.                                                        *)

Client == [ip : Ips, filter : EventFilters, buffer : Seq(Nat), due : Nat, got : Seq(Nat),
           again : BOOLEAN, refused : BOOLEAN, overflow : BOOLEAN, removed : BOOLEAN]

Rising(q) == \A i, j \in DOMAIN q : i < j => q[i] < q[j]

\* A client was told what it should have been: the events S.
Told(c, S) ==
    /\ Len(c.buffer) <= MaxBufferSize
    /\ ~ c.refused => Rising(c.got) /\ ToSet(c.got) = S /\ c.buffer = <<>> /\ ~ c.again
    /\ ~ c.overflow => S \subseteq Has(c)
    /\ Has(c) \subseteq S

\* What is owed, of the events t, to a client that has the first `due` and this filter.
OwedOf(t, due, f) == {n \in DOMAIN t : n > due /\ MatchesFilter(t[n], f)}

ClientSets == UNION {[D -> Client] : D \in SUBSET Clients}
TypesHold == /\ tape \in Seq(Events) /\ expired \in 0..Len(tape)
             /\ clients \in ClientSets /\ byIp \in [Ips -> SUBSET Clients]

\* What the listing of some clients by address says of them.
Agree(all, listed) ==
    \A ip \in Ips : /\ listed[ip] = {c \in DOMAIN all : all[c].ip = ip}
                    /\ Cardinality(listed[ip]) <= MaxClientsPerIp

StreamIInv ==
    /\ TypesHold /\ Agree(clients, byIp)
    /\ IsFiniteSet(DOMAIN clients) /\ Cardinality(DOMAIN clients) <= MaxTotalClients
    /\ \A c \in DOMAIN clients : clients[c].due <= Len(tape) /\ Told(clients[c], Owed(clients[c]))

-----------------------------------------------------------------------------
(* Sequences that rise.                                                    *)

LEMMA RisingAppended ==
    ASSUME NEW q \in Seq(Nat), Rising(q), NEW n \in Nat, \A x \in ToSet(q) : x < n
    PROVE  Rising(Append(q, n))
<1>1. PICK l \in Nat : l = Len(q) /\ DOMAIN q = 1..l
  BY LenProperties
<1>2. PICK r : r = Append(q, n)
  OBVIOUS
<1>3. r \in Seq(Nat) /\ Len(r) = l + 1 /\ r[l + 1] = n /\ \A i \in 1..l : r[i] = q[i]
  BY <1>1, <1>2, AppendProperties
<1>4. DOMAIN r = 1..l + 1
  BY <1>3, LenProperties
<1>5. ASSUME NEW i \in 1..l + 1, NEW j \in 1..l + 1, i < j PROVE r[i] < r[j]
  <2>1. i \in 1..l
    BY <1>5
  <2>2. CASE j = l + 1
    <3>1. q[i] \in ToSet(q)
      BY <1>1, <2>1 DEF ToSet
    <3> QED BY <1>3, <2>1, <2>2, <3>1
  <2>3. CASE j # l + 1
    <3>1. j \in 1..l
      BY <2>3
    <3> QED BY <1>1, <1>3, <1>5, <2>1, <3>1 DEF Rising
  <2> QED BY <2>2, <2>3
<1> QED BY <1>2, <1>4, <1>5 DEF Rising

LEMMA ElementsAppended ==
    ASSUME NEW K, NEW q \in Seq(K), NEW n \in K
    PROVE  ToSet(Append(q, n)) = ToSet(q) \cup {n}
<1>1. PICK l \in Nat : l = Len(q) /\ DOMAIN q = 1..l
  BY LenProperties
<1>2. PICK r : r = Append(q, n)
  OBVIOUS
<1>3. r \in Seq(K) /\ Len(r) = l + 1 /\ r[l + 1] = n /\ \A i \in 1..l : r[i] = q[i]
  BY <1>1, <1>2, AppendProperties
<1>4. DOMAIN r = 1..l + 1
  BY <1>3, LenProperties
<1>5. ASSUME NEW x \in ToSet(r), x # n PROVE x \in ToSet(q)
  <2>1. PICK j \in 1..l + 1 : x = r[j]
    BY <1>4 DEF ToSet
  <2>2. j \in 1..l
    BY <1>3, <1>5, <2>1
  <2> QED BY <1>1, <1>3, <2>1, <2>2 DEF ToSet
<1>6. ASSUME NEW x \in ToSet(q) PROVE x \in ToSet(r)
  <2>1. PICK j \in 1..l : x = q[j]
    BY <1>1 DEF ToSet
  <2>2. j \in 1..l + 1 /\ r[j] = x
    BY <1>3, <2>1
  <2> QED BY <1>4, <2>2 DEF ToSet
<1>7. n \in ToSet(r)
  <2>1. l + 1 \in 1..l + 1
    OBVIOUS
  <2> QED BY <1>3, <1>4, <2>1 DEF ToSet
<1> QED BY <1>2, <1>5, <1>6, <1>7

LEMMA TailElements ==
    ASSUME NEW K, NEW q \in Seq(K), q # <<>>
    PROVE  Tail(q) \in Seq(K) /\ Len(Tail(q)) = Len(q) - 1 /\ ToSet(Tail(q)) \subseteq ToSet(q) /\ Head(q) \in ToSet(q)
<1>1. PICK l \in Nat : l = Len(q) /\ DOMAIN q = 1..l /\ l # 0
  BY LenProperties, EmptySeq
<1>2. PICK t : t = Tail(q)
  OBVIOUS
<1>3. t \in Seq(K) /\ Len(t) = l - 1 /\ \A i \in 1..Len(t) : t[i] = q[i + 1]
  BY <1>1, <1>2, HeadTailProperties
<1>4. DOMAIN t = 1..l - 1
  BY <1>3, LenProperties
<1>5. ASSUME NEW x \in ToSet(t) PROVE x \in ToSet(q)
  <2>1. PICK i \in 1..l - 1 : x = t[i]
    BY <1>4 DEF ToSet
  <2>2. i + 1 \in 1..l /\ x = q[i + 1]
    BY <1>1, <1>3, <2>1
  <2> QED BY <1>1, <2>2 DEF ToSet
<1>6. Head(q) \in ToSet(q)
  <2>1. 1 \in 1..l /\ Head(q) = q[1]
    BY <1>1
  <2> QED BY <1>1, <2>1 DEF ToSet
<1> QED BY <1>1, <1>2, <1>3, <1>5, <1>6

\* Two sequences that rise and have the same elements are the same.
LEMMA RisingUnique ==
    ASSUME NEW p \in Seq(Nat), NEW q \in Seq(Nat), Rising(p), Rising(q), ToSet(p) = ToSet(q)
    PROVE  p = q
<1>1. PICK l \in Nat : l = Len(p) /\ DOMAIN p = 1..l /\ \A i \in 1..l : p[i] \in Nat
  BY LenProperties, ElementOfSeq
<1>2. PICK m \in Nat : m = Len(q) /\ DOMAIN q = 1..m /\ \A i \in 1..m : q[i] \in Nat
  BY LenProperties, ElementOfSeq
<1>3. \A i \in 1..l : \E j \in 1..m : p[i] = q[j]
  BY <1>1, <1>2 DEF ToSet
<1>4. \A j \in 1..m : \E i \in 1..l : p[i] = q[j]
  BY <1>1, <1>2 DEF ToSet
<1>5. \A i, j \in 1..l : i < j => p[i] < p[j]
  BY <1>1 DEF Rising
<1>6. \A i, j \in 1..m : i < j => q[i] < q[j]
  BY <1>2 DEF Rising
<1> DEFINE B == {n \in Nat \ {0} : (n <= l \/ n <= m) /\ ~(n <= l /\ n <= m /\ p[n] = q[n])}
<1>7. B = {}
  <2> SUFFICES ASSUME B # {} PROVE FALSE
    OBVIOUS
  <2>1. PICK n \in B : \A k \in B : n <= k
    <3>1. B \in SUBSET Nat /\ B # {}
      OBVIOUS
    <3> HIDE DEF B
    <3> QED BY <3>1, LeastElement
  <2>2. ASSUME NEW k \in 1..n - 1 PROVE k \in 1..l /\ k \in 1..m /\ p[k] = q[k]
    <3>1. k \in Nat \ {0} /\ ~(n <= k) /\ k <= n
      BY <2>1, <2>2
    <3>2. k \notin B
      BY <2>1, <3>1
    <3>3. k <= l \/ k <= m
      BY <2>1, <3>1
    <3> QED BY <3>1, <3>2, <3>3
  <2>3. n \in Nat \ {0} /\ (n <= l \/ n <= m) /\ ~(n <= l /\ n <= m /\ p[n] = q[n])
    BY <2>1
  <2> HIDE DEF B
  \* Were there an element at n of one of them, it would be after n in the other,
  \* and the one at n of the other nowhere in the first.
  <2>4. ASSUME n <= l PROVE \E j \in 1..m : n <= j /\ p[n] = q[j]
    <3>1. n \in 1..l
      BY <2>3, <2>4
    <3>2. PICK j \in 1..m : p[n] = q[j]
      BY <1>3, <3>1
    <3>3. ASSUME ~(n <= j) PROVE FALSE
      <4>1. j \in 1..n - 1 /\ j < n
        BY <2>3, <3>3
      <4>2. j \in 1..l /\ p[j] = q[j]
        BY <2>2, <4>1
      <4>3. p[j] < p[n] /\ p[j] \in Nat /\ p[n] \in Nat
        BY <1>1, <1>5, <3>1, <4>1, <4>2
      <4> QED BY <3>2, <4>2, <4>3
    <3> QED BY <3>2, <3>3
  <2>5. ASSUME n <= m PROVE \E i \in 1..l : n <= i /\ p[i] = q[n]
    <3>1. n \in 1..m
      BY <2>3, <2>5
    <3>2. PICK i \in 1..l : p[i] = q[n]
      BY <1>4, <3>1
    <3>3. ASSUME ~(n <= i) PROVE FALSE
      <4>1. i \in 1..n - 1 /\ i < n
        BY <2>3, <3>3
      <4>2. i \in 1..m /\ p[i] = q[i]
        BY <2>2, <4>1
      <4>3. q[i] < q[n] /\ q[i] \in Nat /\ q[n] \in Nat
        BY <1>2, <1>6, <3>1, <4>1, <4>2
      <4> QED BY <3>2, <4>2, <4>3
    <3> QED BY <3>2, <3>3
  <2>6. n \in 1..l /\ n \in 1..m
    <3>1. n <= l => n <= m
      BY <1>2, <2>3, <2>4
    <3>2. n <= m => n <= l
      BY <1>1, <2>3, <2>5
    <3> QED BY <2>3, <3>1, <3>2
  <2>7. PICK j \in 1..m : n <= j /\ p[n] = q[j]
    BY <2>4, <2>6
  <2>8. PICK i \in 1..l : n <= i /\ p[i] = q[n]
    BY <2>5, <2>6
  <2>9. j # n /\ i # n
    BY <2>3, <2>6, <2>7, <2>8
  <2>10. n < j /\ n < i
    BY <2>3, <2>7, <2>8, <2>9
  <2>11. q[n] < q[j] /\ p[n] < p[i]
    BY <1>5, <1>6, <2>6, <2>10
  <2>12. p[n] \in Nat /\ q[n] \in Nat
    BY <1>1, <1>2, <2>6
  <2> QED BY <2>7, <2>8, <2>11, <2>12
<1>8. l = m
  <2>1. CASE l < m
    <3>1. m \in Nat \ {0} /\ m <= m /\ ~(m <= l)
      BY <2>1
    <3> QED BY <1>7, <3>1
  <2>2. CASE m < l
    <3>1. l \in Nat \ {0} /\ l <= l /\ ~(l <= m)
      BY <2>2
    <3> QED BY <1>7, <3>1
  <2> QED BY <2>1, <2>2
<1>9. ASSUME NEW i \in 1..l PROVE p[i] = q[i]
  <2>1. i \in Nat \ {0} /\ i <= l
    OBVIOUS
  <2>2. i \notin B
    <3> HIDE DEF B
    <3> QED BY <1>7
  <2> QED BY <2>1, <2>2
<1>10. p \in [1..l -> Nat] /\ q \in [1..l -> Nat]
  BY <1>1, <1>2, <1>8, SeqDef
<1> QED BY <1>9, <1>10

\* The events with some ids, in the order they were broadcast.
LEMMA SequencedRises ==
    ASSUME tape \in Seq(Events), NEW S \in SUBSET DOMAIN tape
    PROVE  Sequenced(S) \in Seq(Nat) /\ Rising(Sequenced(S)) /\ ToSet(Sequenced(S)) = S
<1>1. PICK l \in Nat : l = Len(tape) /\ DOMAIN tape = 1..l
  BY LenProperties
<1>2. PICK s \in Seq(Nat) : s = [n \in DOMAIN tape |-> n]
  <2>1. [n \in DOMAIN tape |-> n] \in [1..l -> Nat]
    BY <1>1
  <2>2. [n \in DOMAIN tape |-> n] \in Seq(Nat)
    BY <2>1, SeqDef
  <2> QED BY <2>2
<1>3. DOMAIN s = 1..l /\ \A i \in 1..l : s[i] = i
  BY <1>1, <1>2
<1>4. KeptIn(s, S) = S
  BY <1>1, <1>3 DEF KeptIn
<1>5. PICK r : r = Sequenced(S) /\ r = Filtered(s, S)
  BY <1>2 DEF Sequenced
<1>6. r \in Seq(Nat)
  BY <1>5, FilteredProperties
<1>7. PICK c \in Nat : c = Cardinality(S) /\ DOMAIN r = 1..c
  <2>1. Cardinality(KeptIn(s, S)) \in 0..Len(s) /\ DOMAIN r = 1..Cardinality(KeptIn(s, S))
    BY <1>5, FilteredEnumerates
  <2> QED BY <1>4, <2>1
<1>8. PICK f \in [1..c -> S] : /\ \A k \in 1..c : r[k] = s[f[k]]
                               /\ \A k, j \in 1..c : k < j => f[k] < f[j]
                               /\ \A i \in S : \E k \in 1..c : f[k] = i
  <2>1. PICK f \in [1..Cardinality(KeptIn(s, S)) -> KeptIn(s, S)] :
          /\ \A k \in DOMAIN Filtered(s, S) : Filtered(s, S)[k] = s[f[k]]
          /\ \A k, j \in DOMAIN Filtered(s, S) : k < j => f[k] < f[j]
          /\ \A i \in KeptIn(s, S) : \E k \in DOMAIN Filtered(s, S) : f[k] = i
    BY FilteredEnumerates
  <2>2. f \in [1..c -> S]
    BY <1>4, <1>7
  <2>3. /\ \A k \in 1..c : r[k] = s[f[k]]
        /\ \A k, j \in 1..c : k < j => f[k] < f[j]
        /\ \A i \in S : \E k \in 1..c : f[k] = i
    BY <1>4, <1>5, <1>7, <2>1
  <2> QED BY <2>2, <2>3
<1>9. \A k \in 1..c : r[k] = f[k] /\ f[k] \in S
  BY <1>1, <1>3, <1>8
<1>10. Rising(r)
  BY <1>7, <1>8, <1>9 DEF Rising
<1>11. ToSet(r) = S
  BY <1>7, <1>8, <1>9 DEF ToSet
<1> QED BY <1>5, <1>6, <1>10, <1>11

-----------------------------------------------------------------------------
(* What a client is sent.                                                  *)

\* An event that is refused waits, if need be in the place of the oldest.
LEMMA BufferKeeps ==
    ASSUME NEW c \in Client, NEW n \in Nat, Len(c.buffer) <= MaxBufferSize
    PROVE  \E d \in Client :
             /\ [Buffered(c, n) EXCEPT !.refused = TRUE] = d /\ d.refused
             /\ d.ip = c.ip /\ d.filter = c.filter /\ d.due = c.due /\ d.removed = c.removed /\ d.got = c.got
             /\ Len(d.buffer) <= MaxBufferSize /\ ToSet(d.buffer) \subseteq ToSet(c.buffer) \cup {n}
             /\ ~ d.overflow => ~ c.overflow /\ ToSet(d.buffer) = ToSet(c.buffer) \cup {n}
<1>1. PICK m \in Nat \ {0} : m = MaxBufferSize
  BY StreamAssumption
<1>2. PICK b \in Seq(Nat), l \in Nat : b = c.buffer /\ l = Len(b) /\ l <= m
  <2>1. c.buffer \in Seq(Nat) /\ Len(c.buffer) \in Nat
    BY LenProperties DEF Client
  <2> QED BY <1>1, <2>1
<1>3. CASE l < m
  <2>1. PICK q \in Seq(Nat) : q = Append(b, n) /\ Len(q) = l + 1 /\ ToSet(q) = ToSet(b) \cup {n}
    <3>1. Append(b, n) \in Seq(Nat) /\ Len(Append(b, n)) = Len(b) + 1
      BY <1>2, AppendProperties
    <3>2. ToSet(Append(b, n)) = ToSet(b) \cup {n}
      BY <1>2, ElementsAppended
    <3> QED BY <1>2, <3>1, <3>2
  <2>2. PICK d : d = [[c EXCEPT !.buffer = q] EXCEPT !.refused = TRUE]
    OBVIOUS
  <2>3. d = [Buffered(c, n) EXCEPT !.refused = TRUE]
    BY <1>1, <1>2, <1>3, <2>1, <2>2 DEF Buffered
  <2>4. /\ d \in Client /\ d.refused /\ d.buffer = q /\ d.overflow = c.overflow
        /\ d.ip = c.ip /\ d.filter = c.filter /\ d.due = c.due /\ d.removed = c.removed /\ d.got = c.got
    BY <2>2 DEF Client
  <2>5. Len(q) <= MaxBufferSize
    BY <1>1, <1>3, <2>1
  <2> QED BY <1>2, <2>1, <2>3, <2>4, <2>5
<1>4. CASE ~(l < m)
  <2>1. b # <<>>
    BY <1>2, <1>4, EmptySeq
  <2>2. PICK t \in Seq(Nat) : t = Tail(b) /\ Len(t) = l - 1 /\ ToSet(t) \subseteq ToSet(b)
    BY <1>2, <2>1, TailElements
  <2>3. PICK q \in Seq(Nat) : q = Append(t, n) /\ Len(q) = l - 1 + 1 /\ ToSet(q) = ToSet(t) \cup {n}
    <3>1. Append(t, n) \in Seq(Nat) /\ Len(Append(t, n)) = Len(t) + 1
      BY <2>2, AppendProperties
    <3>2. t \in Seq(Nat)
      BY <2>2
    <3>3. ToSet(Append(t, n)) = ToSet(t) \cup {n}
      BY <3>2, ElementsAppended
    <3> QED BY <2>2, <3>1, <3>3
  <2>4. PICK d : d = [[c EXCEPT !.buffer = q, !.overflow = TRUE] EXCEPT !.refused = TRUE]
    OBVIOUS
  <2>5. d = [Buffered(c, n) EXCEPT !.refused = TRUE]
    BY <1>1, <1>2, <1>4, <2>2, <2>3, <2>4 DEF Buffered
  <2>6. /\ d \in Client /\ d.refused /\ d.buffer = q /\ d.overflow
        /\ d.ip = c.ip /\ d.filter = c.filter /\ d.due = c.due /\ d.removed = c.removed /\ d.got = c.got
    BY <2>4 DEF Client
  <2>7. Len(q) <= MaxBufferSize
    BY <1>1, <1>2, <2>3
  <2> QED BY <1>2, <2>2, <2>3, <2>5, <2>6, <2>7
<1> QED BY <1>3, <1>4

\* What never changes, and that a client that is removed stays so.
Same(d, c) == d.ip = c.ip /\ d.filter = c.filter /\ d.due = c.due /\ (c.removed => d.removed)

LEMMA SentOnce ==
    ASSUME NEW c \in Client, NEW n \in Nat
    PROVE  \E d \in Client :
             /\ SendToClient(c, n, "sent") = d /\ Same(d, c) /\ d.removed = c.removed /\ d.buffer = c.buffer
             /\ d.refused = c.refused /\ d.overflow = c.overflow /\ ToSet(d.got) = ToSet(c.got) \cup {n}
             /\ n \notin ToSet(c.got) => d.again = c.again /\ d.got = Append(c.got, n)
<1>1. PICK d : d = SendToClient(c, n, "sent")
  OBVIOUS
<1>2. c.got \in Seq(Nat) /\ (Contains(c.got, n) <=> n \in ToSet(c.got))
  <2>1. c.got \in Seq(Nat)
    BY DEF Client
  <2>2. DOMAIN c.got = 1..Len(c.got)
    BY <2>1, LenProperties
  <2> QED BY <2>1, <2>2 DEF Contains, ToSet
<1>3. CASE n \in ToSet(c.got)
  <2>1. d = [c EXCEPT !.again = TRUE]
    BY <1>1, <1>2, <1>3 DEF SendToClient
  <2>2. /\ d \in Client /\ d.removed = c.removed /\ d.buffer = c.buffer /\ d.got = c.got
        /\ d.refused = c.refused /\ d.overflow = c.overflow /\ d.ip = c.ip /\ d.filter = c.filter /\ d.due = c.due
    BY <2>1 DEF Client
  <2> QED BY <1>1, <1>3, <2>2 DEF Same
<1>4. CASE n \notin ToSet(c.got)
  <2>1. PICK q \in Seq(Nat) : q = Append(c.got, n) /\ ToSet(q) = ToSet(c.got) \cup {n}
    <3>1. Append(c.got, n) \in Seq(Nat) /\ Len(Append(c.got, n)) = Len(c.got) + 1
      BY <1>2, AppendProperties
    <3>2. ToSet(Append(c.got, n)) = ToSet(c.got) \cup {n}
      BY <1>2, ElementsAppended
    <3> QED BY <1>2, <3>1, <3>2
  <2>2. d = [c EXCEPT !.got = q]
    BY <1>1, <1>2, <1>4, <2>1 DEF SendToClient
  <2>3. /\ d \in Client /\ d.removed = c.removed /\ d.buffer = c.buffer /\ d.got = q /\ d.again = c.again
        /\ d.refused = c.refused /\ d.overflow = c.overflow /\ d.ip = c.ip /\ d.filter = c.filter /\ d.due = c.due
    BY <2>2 DEF Client
  <2> QED BY <1>1, <2>1, <2>3 DEF Same
<1> QED BY <1>3, <1>4

\* The next event: the client is told it, or waits for it, or is removed.
LEMMA SendKeeps ==
    ASSUME NEW c \in Client, NEW S, NEW n \in Nat, \A x \in S : x \in Nat /\ x < n,
           NEW answer \in Answers, c.removed \/ Told(c, S), Len(c.buffer) <= MaxBufferSize
    PROVE  \E d \in Client : /\ SendToClient(c, n, answer) = d /\ Same(d, c) /\ Len(d.buffer) <= MaxBufferSize
                             /\ d.removed \/ Told(d, S \cup {n})
<1>1. CASE answer = "sent"
  <2>1. PICK d \in Client :
             /\ SendToClient(c, n, "sent") = d /\ Same(d, c) /\ d.removed = c.removed /\ d.buffer = c.buffer
             /\ d.refused = c.refused /\ d.overflow = c.overflow /\ ToSet(d.got) = ToSet(c.got) \cup {n}
             /\ n \notin ToSet(c.got) => d.again = c.again /\ d.got = Append(c.got, n)
    BY SentOnce
  <2>2. ASSUME ~ d.removed PROVE Told(d, S \cup {n})
    <3>1. Told(c, S)
      BY <2>1, <2>2
    <3>2. Has(d) = Has(c) \cup {n}
      BY <2>1 DEF Has
    <3>3. ASSUME ~ d.refused PROVE Rising(d.got) /\ ToSet(d.got) = S \cup {n} /\ d.buffer = <<>> /\ ~ d.again
      <4>1. Rising(c.got) /\ ToSet(c.got) = S /\ c.buffer = <<>> /\ ~ c.again
        BY <2>1, <3>1, <3>3 DEF Told
      <4>2. n \notin S
        <5>1. ~(n < n)
          OBVIOUS
        <5> QED BY <5>1
      <4>3. d.got = Append(c.got, n) /\ d.again = c.again
        BY <2>1, <4>1, <4>2
      <4>4. c.got \in Seq(Nat) /\ \A x \in ToSet(c.got) : x < n
        BY <4>1 DEF Client
      <4>5. Rising(d.got)
        BY <4>1, <4>3, <4>4, RisingAppended
      <4> QED BY <2>1, <4>1, <4>3, <4>5
    <3> QED BY <2>1, <3>1, <3>2, <3>3 DEF Told
  <2> QED BY <1>1, <2>1, <2>2
<1>2. CASE answer = "refused"
  <2>1. PICK d \in Client :
             /\ [Buffered(c, n) EXCEPT !.refused = TRUE] = d /\ d.refused
             /\ d.ip = c.ip /\ d.filter = c.filter /\ d.due = c.due /\ d.removed = c.removed /\ d.got = c.got
             /\ Len(d.buffer) <= MaxBufferSize /\ ToSet(d.buffer) \subseteq ToSet(c.buffer) \cup {n}
             /\ ~ d.overflow => ~ c.overflow /\ ToSet(d.buffer) = ToSet(c.buffer) \cup {n}
    BY BufferKeeps
  <2>2. SendToClient(c, n, answer) = d /\ Same(d, c)
    BY <1>2, <2>1 DEF SendToClient, Same
  <2>3. ASSUME ~ d.removed PROVE Told(d, S \cup {n})
    <3>1. Told(c, S)
      BY <2>1, <2>3
    <3> QED BY <2>1, <3>1 DEF Told, Has
  <2> QED BY <2>1, <2>2, <2>3
<1>3. CASE answer = "throws"
  <2>1. PICK d : d = [c EXCEPT !.removed = TRUE]
    OBVIOUS
  <2>2. SendToClient(c, n, answer) = d
    BY <1>3, <2>1 DEF SendToClient
  <2>3. d \in Client /\ d.removed /\ d.ip = c.ip /\ d.filter = c.filter /\ d.due = c.due /\ d.buffer = c.buffer
    BY <2>1 DEF Client
  <2> QED BY <2>2, <2>3 DEF Same
<1> QED BY <1>1, <1>2, <1>3 DEF Answers

\* A write keeps a client a client.
LEMMA SendTyped ==
    ASSUME NEW c \in Client, NEW n \in Nat, NEW answer \in Answers
    PROVE  SendToClient(c, n, answer) \in Client
<1>1. c.buffer \in Seq(Nat)
  BY DEF Client
<1>2. CASE answer = "sent"
  BY <1>2, SentOnce
<1>3. CASE answer = "throws"
  BY <1>3 DEF SendToClient, Client
<1>4. CASE answer = "refused"
  <2>1. PICK q \in Seq(Nat) : q = Append(c.buffer, n)
    BY <1>1, AppendProperties
  <2>2. CASE Len(c.buffer) < MaxBufferSize
    <3>1. SendToClient(c, n, answer) = [[c EXCEPT !.buffer = q] EXCEPT !.refused = TRUE]
      BY <1>4, <2>1, <2>2 DEF SendToClient, Buffered
    <3> QED BY <3>1 DEF Client
  <2>3. CASE ~(Len(c.buffer) < MaxBufferSize)
    <3>1. c.buffer # <<>>
      BY <1>1, <2>3, EmptySeq, StreamAssumption
    <3>2. PICK u \in Seq(Nat) : u = Append(Tail(c.buffer), n)
      BY <1>1, <3>1, HeadTailProperties, AppendProperties
    <3>3. SendToClient(c, n, answer) = [[c EXCEPT !.buffer = u, !.overflow = TRUE] EXCEPT !.refused = TRUE]
      BY <1>4, <2>3, <3>2 DEF SendToClient, Buffered
    <3> QED BY <3>3 DEF Client
  <2> QED BY <2>2, <2>3
<1> QED BY <1>2, <1>3, <1>4 DEF Answers

\* Several writes in a row.
Written(c, ids, room, after, r) ==
    /\ r \in [0..Len(ids) -> Client] /\ r[0] = c /\ r[Len(ids)] = Sends(c, ids, room, after)
    /\ \A n \in 1..Len(ids) : r[n] = SendToClient(r[n - 1], ids[n], IF n <= room THEN "sent" ELSE after)

LEMMA SendsLead ==
    ASSUME NEW c \in Client, NEW ids \in Seq(Nat), NEW room \in Nat, NEW after \in Failures
    PROVE  \E r : Written(c, ids, room, after, r)
<1>1. PICK l \in Nat : l = Len(ids) /\ DOMAIN ids = 1..l
  BY LenProperties
<1>2. PICK K : K = DOMAIN ids /\ K = 1..l
  BY <1>1
<1> DEFINE P == Client
           F == [d \in P |-> [i \in K |-> SendNth(d, ids, i, room, after)]]
<1>3. ASSUME NEW d \in P, NEW i \in K PROVE SendNth(d, ids, i, room, after) \in P
  <2>1. ids[i] \in Nat
    BY <1>1, <1>2, ElementOfSeq
  <2>2. PICK answer \in Answers : answer = IF i <= room THEN "sent" ELSE after
    BY DEF Answers, Failures
  <2> QED BY <2>1, <2>2, SendTyped DEF SendNth, P
<1>4. Stepwise(F, P, K)
  BY <1>3 DEF Stepwise
<1>5. \A d \in P, i \in K : F[d][i] = SendNth(d, ids, i, room, after)
  OBVIOUS
<1>6. c \in P
  OBVIOUS
<1>7. PICK s \in Seq(K) : s = [i \in K |-> i]
  <2>1. [i \in K |-> i] \in [1..l -> K]
    BY <1>2
  <2>2. [i \in K |-> i] \in Seq(K)
    BY <2>1, SeqDef
  <2> QED BY <2>2
<1>8. DOMAIN s = 1..l /\ Len(s) = l /\ \A i \in 1..l : s[i] = i
  <2>1. DOMAIN s = 1..l /\ \A i \in 1..l : s[i] = i
    BY <1>2, <1>7
  <2>2. PICK m \in Nat : m = Len(s) /\ DOMAIN s = 1..m
    BY <1>7, LenProperties
  <2>3. m = l
    <3>1. 1..m = 1..l
      BY <2>1, <2>2
    <3>2. ASSUME l < m PROVE FALSE
      <4>1. m \in 1..m /\ m \notin 1..l
        BY <3>2
      <4> QED BY <3>1, <4>1
    <3>3. ASSUME m < l PROVE FALSE
      <4>1. l \in 1..l /\ l \notin 1..m
        BY <3>3
      <4> QED BY <3>1, <4>1
    <3> QED BY <3>2, <3>3
  <2> QED BY <2>1, <2>2, <2>3
<1> DEFINE Unfolds(h) ==
        h = [D \in SUBSET DOMAIN s |-> IF D = {} THEN c
                                       ELSE SendNth(h[D \ {LastIn(D)}], ids, s[LastIn(D)], room, after)]
<1>9. PICK g : g = CHOOSE h : Unfolds(h)
  OBVIOUS
<1>10. Sends(c, ids, room, after) = g[DOMAIN s]
  BY <1>2, <1>7, <1>9 DEF Sends, FoldLeft, MapThenFoldSet, Max, LastIn
<1> HIDE DEF P, F
<1>11. PICK h : Folds(F, P, K, c, s, h)
  BY <1>4, <1>6, FoldsTyped
<1>12. Unfolds(h)
  <2>1. \A D \in SUBSET DOMAIN s : D # {} => h[D] = SendNth(h[D \ {LastIn(D)}], ids, s[LastIn(D)], room, after)
    BY <1>5, <1>11 DEF Folds, Leads
  <2>2. h \in [SUBSET DOMAIN s -> P] /\ h[{}] = c
    BY <1>11 DEF Folds, Leads
  <2> QED BY <2>1, <2>2
<1>13. Unfolds(g)
  BY <1>9, <1>12
<1>14. Unrolls(F, P, c, s, g)
  <2>1. ASSUME NEW D \in SUBSET DOMAIN s, D # {}, g[D \ {LastIn(D)}] \in P
        PROVE  g[D] = F[g[D \ {LastIn(D)}]][s[LastIn(D)]]
    <3>1. s[LastIn(D)] \in K
      BY <1>11, <2>1 DEF Folds
    <3>2. g[D] = SendNth(g[D \ {LastIn(D)}], ids, s[LastIn(D)], room, after)
      BY <1>13, <2>1
    <3> QED BY <1>5, <2>1, <3>1, <3>2
  <2>2. g[{}] = c
    BY <1>13
  <2> QED BY <2>1, <2>2 DEF Unrolls
<1>15. PICK r : Trace(F, P, K, c, s, r) /\ r[Len(s)] = g[DOMAIN s]
  BY <1>4, <1>6, <1>14, FoldsLead
<1>16. r \in [0..l -> P] /\ r[0] = c /\ \A n \in 1..l : s[n] \in K /\ r[n - 1] \in P /\ r[n] = F[r[n - 1]][s[n]]
  BY <1>8, <1>15 DEF Trace
<1>17. \A n \in 1..l : r[n] = SendToClient(r[n - 1], ids[n], IF n <= room THEN "sent" ELSE after)
  <2>1. ASSUME NEW n \in 1..l PROVE r[n] = SendNth(r[n - 1], ids, n, room, after)
    <3>1. n \in K /\ s[n] = n /\ r[n - 1] \in P /\ r[n] = F[r[n - 1]][s[n]]
      BY <1>2, <1>8, <1>16
    <3> QED BY <1>5, <3>1
  <2> QED BY <2>1 DEF SendNth
<1>18. r[l] = Sends(c, ids, room, after)
  BY <1>8, <1>10, <1>15
<1> QED BY <1>1, <1>16, <1>17, <1>18 DEF Written, P

\* Events in their order, sent to a client that was told none.
LEMMA ReplayKeeps ==
    ASSUME NEW c \in Client, Told(c, {}), NEW ids \in Seq(Nat), Rising(ids), NEW room \in Nat, NEW after \in Failures
    PROVE  \E d \in Client : Sends(c, ids, room, after) = d /\ Same(d, c) /\ (d.removed \/ Told(d, ToSet(ids)))
<1>1. PICK l \in Nat : l = Len(ids) /\ DOMAIN ids = 1..l /\ \A n \in 1..l : ids[n] \in Nat
  BY LenProperties, ElementOfSeq
<1>2. PICK r : Written(c, ids, room, after, r)
  BY SendsLead
<1>3. /\ r \in [0..l -> Client] /\ r[0] = c /\ r[l] = Sends(c, ids, room, after)
      /\ \A n \in 1..l : r[n] = SendToClient(r[n - 1], ids[n], IF n <= room THEN "sent" ELSE after)
  BY <1>1, <1>2 DEF Written
<1> DEFINE Upto(n) == {ids[j] : j \in 1..n}
           Good(n) == /\ Same(r[n], c) /\ Len(r[n].buffer) <= MaxBufferSize
                      /\ r[n].removed \/ Told(r[n], Upto(n))
           B == {n \in 0..l : ~ Good(n)}
<1>4. B = {}
  <2> SUFFICES ASSUME B # {} PROVE FALSE
    OBVIOUS
  <2>1. PICK n \in B : \A k \in B : n <= k
    <3> HIDE DEF Good
    <3>1. B \in SUBSET Nat /\ B # {}
      OBVIOUS
    <3> HIDE DEF B
    <3> QED BY <3>1, LeastElement
  <2>2. n \in 0..l /\ ~ Good(n)
    BY <2>1
  <2>3. n # 0
    <3> SUFFICES ASSUME n = 0 PROVE FALSE
      OBVIOUS
    <3>1. Upto(0) = {}
      <4>1. 1..0 = {}
        OBVIOUS
      <4> QED BY <4>1
    <3>2. Good(0)
      BY <1>3, <3>1 DEF Told, Same
    <3> QED BY <2>2, <3>2
  <2>4. PICK m \in Nat : m = n - 1 /\ m + 1 = n /\ n \in 1..l /\ m \in 0..l
    <3>1. n - 1 \in Nat /\ n - 1 + 1 = n /\ n \in 1..l /\ n - 1 \in 0..l
      BY <2>2, <2>3
    <3> QED BY <3>1
  <2>5. Good(m)
    <3>1. ~(n <= m)
      BY <2>4
    <3>2. m \notin B
      <4> HIDE DEF B
      <4> QED BY <2>1, <3>1
    <3> QED BY <2>4, <3>2
  <2>6. PICK x \in Client : x = r[m]
    BY <1>3, <2>4
  <2>7. \A y \in Upto(m) : y \in Nat /\ y < ids[n]
    <3>1. ASSUME NEW j \in 1..m PROVE ids[j] \in Nat /\ ids[j] < ids[n]
      <4>1. j \in 1..l /\ j < n
        BY <2>4
      <4> QED BY <1>1, <2>4, <4>1 DEF Rising
    <3> QED BY <3>1
  <2>8. PICK answer \in Answers : answer = IF n <= room THEN "sent" ELSE after
    BY DEF Answers, Failures
  <2>9. r[n] = SendToClient(x, ids[n], answer)
    BY <1>3, <2>4, <2>6, <2>8
  <2>10. Upto(n) = Upto(m) \cup {ids[n]}
    <3>1. 1..n = (1..m) \cup {n}
      BY <2>4
    <3> QED BY <3>1
  <2>11. x.removed \/ Told(x, Upto(m))
    BY <2>5, <2>6
  <2>12. Same(x, c) /\ Len(x.buffer) <= MaxBufferSize
    BY <2>5, <2>6
  <2>13. ids[n] \in Nat
    BY <1>1, <2>4
  <2> HIDE DEF Upto
  <2>14. PICK d \in Client : /\ SendToClient(x, ids[n], answer) = d /\ Same(d, x) /\ Len(d.buffer) <= MaxBufferSize
                             /\ d.removed \/ Told(d, Upto(m) \cup {ids[n]})
    BY <2>7, <2>11, <2>12, <2>13, SendKeeps
  <2>15. Same(d, c)
    BY <2>12, <2>14 DEF Same
  <2>16. Good(n)
    BY <2>9, <2>10, <2>14, <2>15
  <2> QED BY <2>2, <2>16
<1>5. Good(l)
  <2>1. l \in 0..l
    OBVIOUS
  <2>2. l \notin B
    <3> HIDE DEF B
    <3> QED BY <1>4
  <2> QED BY <2>1, <2>2
<1>6. Upto(l) = ToSet(ids)
  BY <1>1 DEF ToSet
<1>7. r[l] \in Client
  BY <1>3
<1> HIDE DEF Upto
<1> QED BY <1>3, <1>5, <1>6, <1>7

\* Events that are all taken.
LEMMA TakenKeeps ==
    ASSUME NEW c \in Client, NEW ids \in Seq(Nat), NEW room \in Nat, room = Len(ids), NEW after \in Failures
    PROVE  \E d \in Client :
             /\ Sends(c, ids, room, after) = d /\ Same(d, c) /\ d.removed = c.removed /\ d.buffer = c.buffer
             /\ d.refused = c.refused /\ d.overflow = c.overflow /\ ToSet(d.got) = ToSet(c.got) \cup ToSet(ids)
             /\ room = 0 => d = c
<1>1. PICK l \in Nat : l = Len(ids) /\ DOMAIN ids = 1..l /\ \A n \in 1..l : ids[n] \in Nat
  BY LenProperties, ElementOfSeq
<1>2. PICK r : Written(c, ids, room, after, r)
  BY SendsLead
<1>3. /\ r \in [0..l -> Client] /\ r[0] = c /\ r[l] = Sends(c, ids, room, after)
      /\ \A n \in 1..l : r[n] = SendToClient(r[n - 1], ids[n], IF n <= room THEN "sent" ELSE after)
  BY <1>1, <1>2 DEF Written
<1> DEFINE Upto(n) == {ids[j] : j \in 1..n}
           Good(n) == /\ Same(r[n], c) /\ r[n].removed = c.removed /\ r[n].buffer = c.buffer
                      /\ r[n].refused = c.refused /\ r[n].overflow = c.overflow
                      /\ ToSet(r[n].got) = ToSet(c.got) \cup Upto(n)
           B == {n \in 0..l : ~ Good(n)}
<1>4. B = {}
  <2> SUFFICES ASSUME B # {} PROVE FALSE
    OBVIOUS
  <2>1. PICK n \in B : \A k \in B : n <= k
    <3> HIDE DEF Good
    <3>1. B \in SUBSET Nat /\ B # {}
      OBVIOUS
    <3> HIDE DEF B
    <3> QED BY <3>1, LeastElement
  <2>2. n \in 0..l /\ ~ Good(n)
    BY <2>1
  <2>3. n # 0
    <3> SUFFICES ASSUME n = 0 PROVE FALSE
      OBVIOUS
    <3>1. Upto(0) = {}
      <4>1. 1..0 = {}
        OBVIOUS
      <4> QED BY <4>1
    <3>2. Good(0)
      BY <1>3, <3>1 DEF Same
    <3> QED BY <2>2, <3>2
  <2>4. PICK m \in Nat : m = n - 1 /\ m + 1 = n /\ n \in 1..l /\ m \in 0..l
    <3>1. n - 1 \in Nat /\ n - 1 + 1 = n /\ n \in 1..l /\ n - 1 \in 0..l
      BY <2>2, <2>3
    <3> QED BY <3>1
  <2>5. Good(m)
    <3>1. ~(n <= m)
      BY <2>4
    <3>2. m \notin B
      <4> HIDE DEF B
      <4> QED BY <2>1, <3>1
    <3> QED BY <2>4, <3>2
  <2>6. PICK x \in Client : x = r[m]
    BY <1>3, <2>4
  <2>7. r[n] = SendToClient(x, ids[n], "sent")
    <3>1. n <= room
      BY <1>1, <2>4
    <3> QED BY <1>3, <2>4, <2>6, <3>1
  <2>8. Upto(n) = Upto(m) \cup {ids[n]}
    <3>1. 1..n = (1..m) \cup {n}
      BY <2>4
    <3> QED BY <3>1
  <2>9. ids[n] \in Nat
    BY <1>1, <2>4
  <2> HIDE DEF Upto
  <2>10. PICK d \in Client :
             /\ SendToClient(x, ids[n], "sent") = d /\ Same(d, x) /\ d.removed = x.removed /\ d.buffer = x.buffer
             /\ d.refused = x.refused /\ d.overflow = x.overflow /\ ToSet(d.got) = ToSet(x.got) \cup {ids[n]}
    <3>1. PICK v \in Nat : v = ids[n]
      BY <2>9
    <3>2. \E d \in Client :
             /\ SendToClient(x, v, "sent") = d /\ Same(d, x) /\ d.removed = x.removed /\ d.buffer = x.buffer
             /\ d.refused = x.refused /\ d.overflow = x.overflow /\ ToSet(d.got) = ToSet(x.got) \cup {v}
             /\ v \notin ToSet(x.got) => d.again = x.again /\ d.got = Append(x.got, v)
      BY <2>6, SentOnce
    <3> QED BY <3>1, <3>2
  <2>11. Good(n)
    BY <2>5, <2>6, <2>7, <2>8, <2>10 DEF Same
  <2> QED BY <2>2, <2>11
<1>5. Good(l)
  <2>1. l \in 0..l
    OBVIOUS
  <2>2. l \notin B
    <3> HIDE DEF B
    <3> QED BY <1>4
  <2> QED BY <2>1, <2>2
<1>6. Upto(l) = ToSet(ids)
  BY <1>1 DEF ToSet
<1>7. r[l] \in Client
  BY <1>3
<1>8. room = 0 => r[l] = c
  BY <1>1, <1>3
<1> HIDE DEF Upto
<1> QED BY <1>3, <1>5, <1>6, <1>7, <1>8

\* A heartbeat flushes a part of the buffer.
LEMMA FlushKeeps ==
    ASSUME NEW c \in Client, NEW S, Told(c, S), NEW room \in 0..Len(c.buffer), NEW after \in Failures
    PROVE  \E d \in Client : Flushed(c, room, after) = d /\ Same(d, c) /\ (d.removed \/ Told(d, S))
<1>1. PICK b \in Seq(Nat), l \in Nat : b = c.buffer /\ l = Len(b) /\ DOMAIN b = 1..l /\ l <= MaxBufferSize
                                       /\ \A i \in 1..l : b[i] \in Nat
  BY LenProperties, ElementOfSeq DEF Client, Told
<1>2. PICK k \in Nat, m \in Nat : k = room /\ m = l - k /\ k + m = l /\ k <= l
  <2>1. room \in Nat /\ l - room \in Nat /\ room + (l - room) = l /\ room <= l
    BY <1>1
  <2> QED BY <2>1
<1>3. PICK ids \in Seq(Nat) : ids = SubSeq(b, 1, k) /\ Len(ids) = k /\ \A i \in 1..k : ids[i] = b[i]
  <2>1. 0 <= k /\ \A i \in 0 + 1..k : b[i] \in Nat
    BY <1>1, <1>2
  <2>2. /\ SubSeq(b, 0 + 1, k) \in Seq(Nat) /\ Len(SubSeq(b, 0 + 1, k)) = k - 0
        /\ \A i \in 1..k - 0 : SubSeq(b, 0 + 1, k)[i] = b[0 + i]
    BY <2>1, PartOf
  <2>3. 0 + 1 = 1 /\ k - 0 = k /\ \A i \in 1..k : 0 + i = i
    OBVIOUS
  <2> QED BY <2>2, <2>3
<1>4. PICK rest \in Seq(Nat) : rest = SubSeq(b, k + 1, l) /\ Len(rest) = m /\ \A i \in 1..m : rest[i] = b[k + i]
  <2>1. k <= l /\ \A i \in k + 1..l : b[i] \in Nat
    BY <1>1, <1>2
  <2>2. /\ SubSeq(b, k + 1, l) \in Seq(Nat) /\ Len(SubSeq(b, k + 1, l)) = l - k
        /\ \A i \in 1..l - k : SubSeq(b, k + 1, l)[i] = b[k + i]
    BY <2>1, PartOf
  <2> QED BY <1>2, <2>2
<1>5. ToSet(ids) \cup ToSet(rest) = ToSet(b)
  <2>1. DOMAIN ids = 1..k /\ DOMAIN rest = 1..m
    BY <1>3, <1>4, LenProperties
  <2>2. ASSUME NEW x \in ToSet(ids) PROVE x \in ToSet(b)
    <3>1. PICK i \in 1..k : x = ids[i]
      BY <2>1 DEF ToSet
    <3>2. i \in 1..l
      BY <1>2, <3>1
    <3> QED BY <1>1, <1>3, <3>1, <3>2 DEF ToSet
  <2>3. ASSUME NEW x \in ToSet(rest) PROVE x \in ToSet(b)
    <3>1. PICK i \in 1..m : x = rest[i]
      BY <2>1 DEF ToSet
    <3>2. k + i \in 1..l
      BY <1>2, <3>1
    <3> QED BY <1>1, <1>4, <3>1, <3>2 DEF ToSet
  <2>4. ASSUME NEW x \in ToSet(b) PROVE x \in ToSet(ids) \cup ToSet(rest)
    <3>1. PICK i \in 1..l : x = b[i]
      BY <1>1 DEF ToSet
    <3>2. CASE i <= k
      <4>1. i \in 1..k
        BY <3>2
      <4> QED BY <1>3, <2>1, <3>1, <4>1 DEF ToSet
    <3>3. CASE ~(i <= k)
      <4>1. i - k \in 1..m /\ k + (i - k) = i
        BY <1>2, <3>3
      <4>2. rest[i - k] = x
        BY <1>4, <3>1, <4>1
      <4> QED BY <2>1, <4>1, <4>2 DEF ToSet
    <3> QED BY <3>2, <3>3
  <2> QED BY <2>2, <2>3, <2>4
<1>6. PICK e : e = [c EXCEPT !.buffer = rest]
  OBVIOUS
<1>7. /\ e \in Client /\ e.ip = c.ip /\ e.filter = c.filter /\ e.due = c.due /\ e.removed = c.removed
      /\ e.refused = c.refused /\ e.overflow = c.overflow /\ e.got = c.got /\ e.buffer = rest /\ e.again = c.again
  BY <1>6 DEF Client
<1>8. PICK t \in Client :
        /\ Sends(e, ids, k, after) = t /\ Same(t, e) /\ t.removed = e.removed /\ t.buffer = e.buffer
        /\ t.refused = e.refused /\ t.overflow = e.overflow /\ ToSet(t.got) = ToSet(e.got) \cup ToSet(ids)
        /\ k = 0 => t = e
  <2>1. e \in Client /\ ids \in Seq(Nat) /\ k \in Nat /\ k = Len(ids) /\ after \in Failures
    BY <1>3, <1>7
  <2> QED BY <2>1, TakenKeeps
<1>9. Has(t) = Has(c)
  BY <1>1, <1>5, <1>7, <1>8 DEF Has
<1>10. ~ c.refused => rest = <<>> /\ k = 0 /\ b = <<>>
  <2> SUFFICES ASSUME ~ c.refused PROVE rest = <<>> /\ k = 0 /\ b = <<>>
    OBVIOUS
  <2>1. b = <<>> /\ Len(<<>>) = 0
    BY <1>1 DEF Told
  <2>2. k = 0 /\ m = 0
    BY <1>1, <1>2, <2>1
  <2>3. ASSUME rest # <<>> PROVE FALSE
    BY <1>4, <2>2, <2>3, EmptySeq
  <2> QED BY <2>1, <2>2, <2>3
<1>11. Flushed(c, room, after) = IF rest = <<>> THEN t ELSE SendToClient(t, Head(rest), after)
  BY <1>1, <1>2, <1>3, <1>4, <1>6, <1>8 DEF Flushed
<1>12. Len(t.buffer) <= MaxBufferSize
  <2>1. m <= MaxBufferSize
    BY <1>1, <1>2, StreamAssumption
  <2> QED BY <1>4, <1>7, <1>8, <2>1
<1>13. CASE rest = <<>>
  <2>1. Told(t, S)
    <3>1. ASSUME ~ t.refused PROVE Rising(t.got) /\ ToSet(t.got) = S /\ t.buffer = <<>> /\ ~ t.again
      <4>1. t = e /\ ~ c.refused
        BY <1>7, <1>8, <1>10, <3>1
      <4>2. Rising(c.got) /\ ToSet(c.got) = S /\ ~ c.again
        BY <4>1 DEF Told
      <4> QED BY <1>7, <1>13, <4>1, <4>2
    <3> QED BY <1>7, <1>8, <1>9, <1>12, <3>1 DEF Told
  <2> QED BY <1>7, <1>8, <1>11, <1>13, <2>1 DEF Same
<1>14. CASE rest # <<>>
  <2>1. PICK n \in Nat : n = Head(rest) /\ n \in ToSet(rest)
    BY <1>14, HeadTailProperties, TailElements
  <2>2. c.refused
    BY <1>7, <1>10, <1>14 DEF Client
  <2>3. CASE after = "refused"
    <3>1. PICK d \in Client :
             /\ [Buffered(t, n) EXCEPT !.refused = TRUE] = d /\ d.refused
             /\ d.ip = t.ip /\ d.filter = t.filter /\ d.due = t.due /\ d.removed = t.removed /\ d.got = t.got
             /\ Len(d.buffer) <= MaxBufferSize /\ ToSet(d.buffer) \subseteq ToSet(t.buffer) \cup {n}
             /\ ~ d.overflow => ~ t.overflow /\ ToSet(d.buffer) = ToSet(t.buffer) \cup {n}
      BY <1>12, BufferKeeps
    <3>2. Flushed(c, room, after) = d
      BY <1>11, <1>14, <2>1, <2>3, <3>1 DEF SendToClient
    <3>3. Has(d) \subseteq Has(c)
      BY <1>7, <1>8, <1>9, <2>1, <3>1 DEF Has
    <3>4. ~ d.overflow => ~ c.overflow /\ Has(d) = Has(c)
      BY <1>7, <1>8, <1>9, <2>1, <3>1 DEF Has
    <3>5. Told(d, S)
      BY <3>1, <3>3, <3>4 DEF Told
    <3> QED BY <1>7, <1>8, <3>1, <3>2, <3>5 DEF Same
  <2>4. CASE after = "throws"
    <3>1. PICK d : d = [t EXCEPT !.removed = TRUE]
      OBVIOUS
    <3>2. Flushed(c, room, after) = d
      BY <1>11, <1>14, <2>1, <2>4, <3>1 DEF SendToClient
    <3>3. d \in Client /\ d.removed /\ d.ip = t.ip /\ d.filter = t.filter /\ d.due = t.due
      BY <3>1 DEF Client
    <3> QED BY <1>7, <1>8, <3>2, <3>3 DEF Same
  <2> QED BY <2>3, <2>4 DEF Failures, Answers
<1> QED BY <1>13, <1>14

LEMMA BeatKeeps ==
    ASSUME NEW c \in Client, NEW S, Told(c, S), NEW d \in Beats(c)
    PROVE  d \in Client /\ Same(d, c) /\ (d.removed \/ Told(d, S))
<1>1. CASE d = [c EXCEPT !.removed = TRUE]
  BY <1>1 DEF Client, Same
<1>2. ASSUME NEW room \in 0..Len(c.buffer), NEW after \in Failures, d = Flushed(c, room, after)
      PROVE  d \in Client /\ Same(d, c) /\ (d.removed \/ Told(d, S))
  BY <1>2, FlushKeeps
<1> QED BY <1>1, <1>2 DEF Beats

-----------------------------------------------------------------------------
(* The calls.                                                              *)

\* What the clients are when a call ends.
LEMMA CallsEndWell ==
    ASSUME NEW t \in Seq(Events), tape' = t, expired' \in 0..Len(t),
           NEW D \in SUBSET Clients, IsFiniteSet(D), Cardinality(D) <= MaxTotalClients,
           NEW all \in [D -> Client], NEW listed \in [Ips -> SUBSET Clients], Agree(all, listed),
           \A c \in D : all[c].removed \/ (all[c].due <= Len(t) /\ Told(all[c], OwedOf(t, all[c].due, all[c].filter))),
           CallsEnd(all, listed)
    PROVE  StreamIInv'
<1>1. PICK G : G = {c \in D : all[c].removed}
  OBVIOUS
<1>2. PICK R \in SUBSET Clients : R = D \ G /\ IsFiniteSet(R) /\ Cardinality(R) <= MaxTotalClients
  <2>1. D \ G \subseteq D
    OBVIOUS
  <2>2. IsFiniteSet(D \ G) /\ Cardinality(D \ G) <= Cardinality(D)
    BY <2>1, FS_Subset
  <2>3. Cardinality(D) \in Nat /\ Cardinality(D \ G) \in Nat /\ MaxTotalClients \in Nat
    BY <2>2, FS_CardinalityType, StreamAssumption
  <2>4. Cardinality(D \ G) <= MaxTotalClients
    BY <2>2, <2>3
  <2> QED BY <2>1, <2>2, <2>4
<1>3. PICK k : k = clients'
  OBVIOUS
<1>4. PICK b : b = byIp'
  OBVIOUS
<1>5. k \in [R -> Client] /\ DOMAIN k = R /\ \A c \in R : k[c] = all[c]
  <2>1. k = [c \in R |-> all[c]]
    BY <1>1, <1>2, <1>3 DEF CallsEnd
  <2> QED BY <1>2, <2>1
<1>6. \A ip \in Ips : b[ip] = listed[ip] \ {c \in G : all[c].ip = ip}
  BY <1>1, <1>4 DEF CallsEnd
<1>7. b \in [Ips -> SUBSET Clients]
  <2>1. b = [ip \in Ips |-> listed[ip] \ {c \in G : all[c].ip = ip}]
    BY <1>1, <1>4 DEF CallsEnd
  <2> QED BY <2>1
<1>8. ASSUME NEW ip \in Ips
      PROVE  b[ip] = {c \in R : k[c].ip = ip} /\ Cardinality(b[ip]) <= MaxClientsPerIp
  <2>1. listed[ip] = {c \in D : all[c].ip = ip} /\ Cardinality(listed[ip]) <= MaxClientsPerIp
    BY DEF Agree
  <2>2. b[ip] = {c \in R : k[c].ip = ip}
    BY <1>1, <1>2, <1>5, <1>6, <2>1
  <2>3. IsFiniteSet(listed[ip])
    <3>1. listed[ip] \subseteq D
      BY <2>1
    <3> QED BY <3>1, FS_Subset
  <2>4. b[ip] \subseteq listed[ip]
    BY <1>6
  <2>5. IsFiniteSet(b[ip]) /\ Cardinality(b[ip]) <= Cardinality(listed[ip])
    BY <2>3, <2>4, FS_Subset
  <2>6. Cardinality(listed[ip]) \in Nat /\ Cardinality(b[ip]) \in Nat /\ MaxClientsPerIp \in Nat
    BY <2>3, <2>5, FS_CardinalityType, StreamAssumption
  <2> QED BY <2>1, <2>2, <2>5, <2>6
<1>9. Agree(k, b)
  BY <1>5, <1>8 DEF Agree
<1>10. ASSUME NEW c \in R
       PROVE  k[c].due <= Len(t) /\ Told(k[c], OwedOf(t, k[c].due, k[c].filter))
  BY <1>1, <1>2, <1>5
<1>11. k \in ClientSets
  BY <1>5 DEF ClientSets
<1>12. TypesHold'
  BY <1>3, <1>4, <1>7, <1>11 DEF TypesHold
<1>13. \A c \in DOMAIN k : k[c].due <= Len(t) /\ Told(k[c], OwedOf(t, k[c].due, k[c].filter))
  BY <1>5, <1>10
<1>14. \A c \in DOMAIN clients' : clients'[c].due <= Len(tape') /\ Told(clients'[c], Owed(clients[c])')
  BY <1>3, <1>13 DEF Owed, OwedOf
<1> QED BY <1>2, <1>3, <1>4, <1>5, <1>9, <1>12, <1>14 DEF StreamIInv, Agree, Told, Has, Owed

\* What the invariant says of the clients.
LEMMA ClientFacts ==
    ASSUME StreamIInv
    PROVE  \E D \in SUBSET Clients :
             /\ D = DOMAIN clients /\ clients \in [D -> Client] /\ IsFiniteSet(D)
             /\ Cardinality(D) \in Nat /\ Cardinality(D) <= MaxTotalClients
             /\ \A c \in D : clients[c].due <= Len(tape) /\ Told(clients[c], OwedOf(tape, clients[c].due, clients[c].filter))
<1>1. PICK D \in SUBSET Clients : clients \in [D -> Client]
  BY DEF StreamIInv, TypesHold, ClientSets
<1>2. D = DOMAIN clients /\ IsFiniteSet(D) /\ Cardinality(D) <= MaxTotalClients
  BY <1>1 DEF StreamIInv
<1>3. Cardinality(D) \in Nat
  BY <1>2, FS_CardinalityType
<1>4. \A c \in D : clients[c].due <= Len(tape) /\ Told(clients[c], OwedOf(tape, clients[c].due, clients[c].filter))
  BY <1>2 DEF StreamIInv, Owed, OwedOf
<1> QED BY <1>1, <1>2, <1>3, <1>4

LEMMA BroadcastKeeps ==
    ASSUME StreamIInv, NEW e \in Events, Broadcast(e)
    PROVE  StreamIInv'
<1>1. PICK D \in SUBSET Clients :
             /\ D = DOMAIN clients /\ clients \in [D -> Client] /\ IsFiniteSet(D)
             /\ Cardinality(D) \in Nat /\ Cardinality(D) <= MaxTotalClients
             /\ \A c \in D : clients[c].due <= Len(tape) /\ Told(clients[c], OwedOf(tape, clients[c].due, clients[c].filter))
  BY ClientFacts
<1>2. tape \in Seq(Events) /\ expired \in 0..Len(tape) /\ byIp \in [Ips -> SUBSET Clients] /\ Agree(clients, byIp)
  BY DEF StreamIInv, TypesHold
<1>3. PICK l \in Nat : l = Len(tape) /\ DOMAIN tape = 1..l
  BY <1>2, LenProperties
<1>4. PICK t \in Seq(Events) : /\ t = Append(tape, e) /\ Len(t) = l + 1 /\ t[l + 1] = e
                               /\ \A i \in 1..l : t[i] = tape[i]
  <2>1. /\ Append(tape, e) \in Seq(Events) /\ Len(Append(tape, e)) = Len(tape) + 1
        /\ Append(tape, e)[Len(tape) + 1] = e /\ \A i \in 1..Len(tape) : Append(tape, e)[i] = tape[i]
    BY <1>2, AppendProperties
  <2> QED BY <1>3, <2>1
<1>5. DOMAIN t = 1..l + 1
  BY <1>4, LenProperties
<1>6. PICK answer \in [{c \in D : MatchesFilter(e, clients[c].filter)} -> Answers] :
        CallsEnd([c \in D |-> IF c \in DOMAIN answer THEN SendToClient(clients[c], Len(t), answer[c]) ELSE clients[c]], byIp)
  BY <1>1, <1>4 DEF Broadcast
<1>7. PICK all : all = [c \in D |-> IF c \in DOMAIN answer THEN SendToClient(clients[c], Len(t), answer[c]) ELSE clients[c]]
  OBVIOUS
<1>8. ASSUME NEW c \in D
      PROVE  all[c] \in Client /\ all[c].ip = clients[c].ip
             /\ (all[c].removed \/ (all[c].due <= Len(t) /\ Told(all[c], OwedOf(t, all[c].due, all[c].filter))))
  <2>1. PICK x \in Client : x = clients[c]
    BY <1>1
  <2>2. PICK S : S = OwedOf(tape, x.due, x.filter)
    OBVIOUS
  <2>3. x.due <= l /\ Told(x, S) /\ x.due \in Nat
    BY <1>1, <1>3, <2>1, <2>2 DEF Client
  <2>4. x.due <= l + 1
    BY <2>3
  <2>5. CASE MatchesFilter(e, x.filter)
    <3>1. c \in DOMAIN answer /\ answer[c] \in Answers
      BY <1>6, <2>1, <2>5
    <3>2. PICK a \in Answers : a = answer[c]
      BY <3>1
    <3>3. \A y \in S : y \in Nat /\ y < l + 1
      BY <1>3, <2>2 DEF OwedOf
    <3>4. l + 1 \in Nat /\ Len(x.buffer) <= MaxBufferSize
      BY <2>3 DEF Told
    <3>5. PICK d \in Client : /\ SendToClient(x, l + 1, a) = d /\ Same(d, x) /\ Len(d.buffer) <= MaxBufferSize
                              /\ d.removed \/ Told(d, S \cup {l + 1})
      <4>1. PICK n \in Nat : n = l + 1
        BY <3>4
      <4>2. \A y \in S : y \in Nat /\ y < n
        BY <3>3, <4>1
      <4>3. \E d \in Client : /\ SendToClient(x, n, a) = d /\ Same(d, x) /\ Len(d.buffer) <= MaxBufferSize
                              /\ d.removed \/ Told(d, S \cup {n})
        BY <2>3, <3>4, <4>2, SendKeeps
      <4> QED BY <4>1, <4>3
    <3>6. all[c] = d
      BY <1>4, <1>7, <2>1, <3>1, <3>2, <3>5
    <3>7. OwedOf(t, x.due, x.filter) = S \cup {l + 1}
      <4>1. ASSUME NEW n \in 1..l PROVE n \in OwedOf(t, x.due, x.filter) <=> n \in S
        <5>1. n \in 1..l + 1 /\ t[n] = tape[n]
          BY <1>4
        <5> QED BY <1>3, <1>5, <2>2, <5>1 DEF OwedOf
      <4>2. l + 1 \in OwedOf(t, x.due, x.filter)
        BY <1>4, <1>5, <2>3, <2>5 DEF OwedOf
      <4>3. S \subseteq 1..l /\ OwedOf(t, x.due, x.filter) \subseteq 1..l + 1
        BY <1>3, <1>5, <2>2 DEF OwedOf
      <4>4. \A n \in 1..l + 1 : n \in 1..l \/ n = l + 1
        OBVIOUS
      <4> QED BY <4>1, <4>2, <4>3, <4>4
    <3>8. d.due = x.due /\ d.filter = x.filter /\ d.ip = x.ip
      BY <3>5 DEF Same
    <3> QED BY <1>4, <2>1, <2>4, <3>5, <3>6, <3>7, <3>8
  <2>6. CASE ~ MatchesFilter(e, x.filter)
    <3>1. all[c] = x
      BY <1>6, <1>7, <2>1, <2>6
    <3>2. OwedOf(t, x.due, x.filter) = S
      <4>1. ASSUME NEW n \in 1..l PROVE n \in OwedOf(t, x.due, x.filter) <=> n \in S
        <5>1. n \in 1..l + 1 /\ t[n] = tape[n]
          BY <1>4
        <5> QED BY <1>3, <1>5, <2>2, <5>1 DEF OwedOf
      <4>2. l + 1 \notin OwedOf(t, x.due, x.filter)
        BY <1>4, <2>6 DEF OwedOf
      <4>3. S \subseteq 1..l /\ OwedOf(t, x.due, x.filter) \subseteq 1..l + 1
        BY <1>3, <1>5, <2>2 DEF OwedOf
      <4>4. \A n \in 1..l + 1 : n \in 1..l \/ n = l + 1
        OBVIOUS
      <4> QED BY <4>1, <4>2, <4>3, <4>4
    <3> QED BY <1>4, <2>1, <2>3, <2>4, <3>1, <3>2
  <2> QED BY <2>5, <2>6
<1>9. all \in [D -> Client]
  BY <1>7, <1>8
<1>10. Agree(all, byIp)
  BY <1>1, <1>2, <1>8, <1>9 DEF Agree
<1>11. tape' = t /\ expired' \in 0..Len(t)
  BY <1>2, <1>3, <1>4 DEF Broadcast
<1>12. CallsEnd(all, byIp)
  BY <1>6, <1>7
<1> QED BY <1>1, <1>2, <1>8, <1>9, <1>10, <1>11, <1>12, CallsEndWell

LEMMA AddClientKeeps ==
    ASSUME StreamIInv, NEW ip \in Ips, NEW f \in EventFilters, NEW last \in 0..Len(tape), AddClient(ip, f, last)
    PROVE  StreamIInv'
<1>1. PICK D \in SUBSET Clients :
             /\ D = DOMAIN clients /\ clients \in [D -> Client] /\ IsFiniteSet(D)
             /\ Cardinality(D) \in Nat /\ Cardinality(D) <= MaxTotalClients
             /\ \A c \in D : clients[c].due <= Len(tape) /\ Told(clients[c], OwedOf(tape, clients[c].due, clients[c].filter))
  BY ClientFacts
<1>2. tape \in Seq(Events) /\ expired \in 0..Len(tape) /\ byIp \in [Ips -> SUBSET Clients] /\ Agree(clients, byIp)
  BY DEF StreamIInv, TypesHold
<1>3. PICK l \in Nat : l = Len(tape) /\ DOMAIN tape = 1..l
  BY <1>2, LenProperties
<1>4. PICK id \in Clients \ D : id = CHOOSE i \in Clients : i \notin DOMAIN clients
  BY <1>1 DEF AddClient
<1>5. PICK ids : ids = Replay(f, last)
  OBVIOUS
<1>6. PICK due \in Nat : due = (IF last \in Retained THEN last ELSE Len(tape)) /\ due <= l
  BY <1>3
<1>7. PICK new : new = NewClient(ip, f, due)
  OBVIOUS
<1>8. PICK room \in 0..Len(ids), after \in Failures :
        CallsEnd([c \in D \cup {id} |-> IF c = id THEN Sends(new, ids, room, after) ELSE clients[c]],
                 [byIp EXCEPT ![ip] = @ \cup {id}])
  BY <1>1, <1>4, <1>5, <1>6, <1>7 DEF AddClient
<1>9. new \in Client /\ new.ip = ip /\ new.filter = f /\ new.due = due /\ Told(new, {})
  <2>1. <<>> \in Seq(Nat) /\ ToSet(<<>>) = {} /\ Len(<<>>) = 0 /\ Rising(<<>>)
    BY DEF ToSet, Rising
  <2>2. new = [ip |-> ip, filter |-> f, buffer |-> <<>>, due |-> due, got |-> <<>>,
               again |-> FALSE, refused |-> FALSE, overflow |-> FALSE, removed |-> FALSE]
    BY <1>7 DEF NewClient
  <2>3. new \in Client
    BY <2>1, <2>2 DEF Client
  <2>4. /\ new.ip = ip /\ new.filter = f /\ new.due = due /\ new.buffer = <<>> /\ new.got = <<>>
        /\ ~ new.again /\ ~ new.refused
    BY <2>2
  <2>5. 0 <= MaxBufferSize
    BY StreamAssumption
  <2> QED BY <2>1, <2>3, <2>4, <2>5 DEF Told, Has
<1>10. ids \in Seq(Nat) /\ Rising(ids) /\ ToSet(ids) = OwedOf(tape, due, f)
  <2>1. CASE last \in Retained
    <3>1. PICK S \in SUBSET DOMAIN tape : S = {n \in Retained : n > last /\ MatchesFilter(tape[n], f)}
      BY DEF Retained
    <3>2. ids = Sequenced(S)
      BY <1>5, <2>1, <3>1 DEF Replay
    <3>3. S = OwedOf(tape, due, f)
      <4>1. \A n \in DOMAIN tape : n > last => n \in Retained
        BY <1>2, <1>3, <2>1 DEF Retained
      <4> QED BY <1>6, <2>1, <3>1, <4>1 DEF OwedOf, Retained
    <3> QED BY <1>2, <3>2, <3>3, SequencedRises
  <2>2. CASE last \notin Retained
    <3>1. ids = <<>>
      BY <1>5, <2>2 DEF Replay
    <3>2. OwedOf(tape, due, f) = {}
      BY <1>3, <1>6, <2>2 DEF OwedOf
    <3> QED BY <3>1, <3>2 DEF ToSet, Rising
  <2> QED BY <2>1, <2>2
<1>11. room \in Nat
  BY <1>8
<1>12. PICK d \in Client : /\ Sends(new, ids, room, after) = d /\ Same(d, new)
                           /\ d.removed \/ Told(d, ToSet(ids))
  BY <1>9, <1>10, <1>11, ReplayKeeps
<1>13. PICK all : all = [c \in D \cup {id} |-> IF c = id THEN d ELSE clients[c]]
  OBVIOUS
<1>14. all \in [D \cup {id} -> Client] /\ all[id] = d /\ \A c \in D : all[c] = clients[c]
  BY <1>1, <1>4, <1>13
<1>15. d.ip = ip /\ d.due = due /\ d.filter = f
  BY <1>9, <1>12 DEF Same
<1>16. \A c \in D \cup {id} :
         all[c].removed \/ (all[c].due <= Len(tape) /\ Told(all[c], OwedOf(tape, all[c].due, all[c].filter)))
  BY <1>1, <1>3, <1>6, <1>10, <1>12, <1>14, <1>15
<1>17. IsFiniteSet(D \cup {id}) /\ Cardinality(D \cup {id}) <= MaxTotalClients /\ D \cup {id} \in SUBSET Clients
  <2>1. IsFiniteSet(D \cup {id}) /\ Cardinality(D \cup {id}) = Cardinality(D) + 1
    BY <1>1, <1>4, FS_AddElement
  <2>2. Cardinality(D) < MaxTotalClients /\ MaxTotalClients \in Nat
    BY <1>1, StreamAssumption DEF AddClient
  <2>3. Cardinality(D) + 1 <= MaxTotalClients
    BY <1>1, <2>2
  <2> QED BY <1>4, <2>1, <2>3
<1>18. PICK listed : listed = [byIp EXCEPT ![ip] = @ \cup {id}]
  OBVIOUS
<1>19. listed \in [Ips -> SUBSET Clients] /\ listed[ip] = byIp[ip] \cup {id} /\ \A x \in Ips \ {ip} : listed[x] = byIp[x]
  BY <1>2, <1>4, <1>18
<1>20. Agree(all, listed)
  <2>1. ASSUME NEW x \in Ips
        PROVE  listed[x] = {c \in D \cup {id} : all[c].ip = x} /\ Cardinality(listed[x]) <= MaxClientsPerIp
    <3>1. byIp[x] = {c \in D : clients[c].ip = x} /\ Cardinality(byIp[x]) <= MaxClientsPerIp
      BY <1>1, <1>2 DEF Agree
    <3>2. CASE x = ip
      <4>1. listed[x] = {c \in D \cup {id} : all[c].ip = x}
        BY <1>14, <1>15, <1>19, <3>1, <3>2
      <4>2. byIp[ip] \subseteq D /\ id \notin byIp[ip]
        BY <1>4, <3>1, <3>2
      <4>3. IsFiniteSet(byIp[ip])
        BY <1>1, <4>2, FS_Subset
      <4>4. Cardinality(byIp[ip]) \in Nat /\ Cardinality(byIp[ip] \cup {id}) = Cardinality(byIp[ip]) + 1
        BY <4>2, <4>3, FS_CardinalityType, FS_AddElement
      <4>5. Cardinality(byIp[ip]) < MaxClientsPerIp /\ MaxClientsPerIp \in Nat
        BY StreamAssumption DEF AddClient
      <4>6. Cardinality(byIp[ip]) + 1 <= MaxClientsPerIp
        BY <4>4, <4>5
      <4> QED BY <1>19, <3>2, <4>1, <4>4, <4>6
    <3>3. CASE x # ip
      BY <1>14, <1>15, <1>19, <3>1, <3>3
    <3> QED BY <3>2, <3>3
  <2> QED BY <1>14, <2>1 DEF Agree
<1>21. CallsEnd(all, listed)
  BY <1>8, <1>12, <1>13, <1>18
<1>22. tape' = tape /\ expired' \in 0..Len(tape)
  BY <1>2 DEF AddClient
<1> QED BY <1>2, <1>14, <1>16, <1>17, <1>19, <1>20, <1>21, <1>22, CallsEndWell

LEMMA RemoveClientKeeps ==
    ASSUME StreamIInv, NEW id \in Clients, RemoveClient(id)
    PROVE  StreamIInv'
<1>1. PICK D \in SUBSET Clients :
             /\ D = DOMAIN clients /\ clients \in [D -> Client] /\ IsFiniteSet(D)
             /\ Cardinality(D) \in Nat /\ Cardinality(D) <= MaxTotalClients
             /\ \A c \in D : clients[c].due <= Len(tape) /\ Told(clients[c], OwedOf(tape, clients[c].due, clients[c].filter))
  BY ClientFacts
<1>2. /\ tape \in Seq(Events) /\ expired \in 0..Len(tape) /\ byIp \in [Ips -> SUBSET Clients] /\ Agree(clients, byIp)
      /\ tape' = tape /\ expired' = expired
  BY DEF StreamIInv, TypesHold, RemoveClient
<1>3. PICK x \in Client : x = clients[id] /\ id \in D
  BY <1>1 DEF RemoveClient
<1>4. PICK y : y = [x EXCEPT !.removed = TRUE]
  OBVIOUS
<1>5. y \in Client /\ y.removed /\ y.ip = x.ip
  BY <1>4 DEF Client
<1>6. PICK all : all = [clients EXCEPT ![id].removed = TRUE]
  OBVIOUS
<1>7. all \in [D -> Client] /\ all[id] = y /\ \A c \in D \ {id} : all[c] = clients[c]
  <2>1. all = [clients EXCEPT ![id] = y]
    BY <1>1, <1>3, <1>4, <1>6
  <2> QED BY <1>1, <1>3, <1>5, <2>1
<1>8. \A c \in D : all[c].removed \/ (all[c].due <= Len(tape) /\ Told(all[c], OwedOf(tape, all[c].due, all[c].filter)))
  BY <1>1, <1>5, <1>7
<1>9. Agree(all, byIp)
  <2>1. \A c \in D : all[c].ip = clients[c].ip
    BY <1>3, <1>5, <1>7
  <2> QED BY <1>1, <1>2, <1>7, <2>1 DEF Agree
<1>10. CallsEnd(all, byIp)
  BY <1>6 DEF RemoveClient
<1> QED BY <1>1, <1>2, <1>7, <1>8, <1>9, <1>10, CallsEndWell

LEMMA HeartbeatKeeps ==
    ASSUME StreamIInv, Heartbeat
    PROVE  StreamIInv'
<1>1. PICK D \in SUBSET Clients :
             /\ D = DOMAIN clients /\ clients \in [D -> Client] /\ IsFiniteSet(D)
             /\ Cardinality(D) \in Nat /\ Cardinality(D) <= MaxTotalClients
             /\ \A c \in D : clients[c].due <= Len(tape) /\ Told(clients[c], OwedOf(tape, clients[c].due, clients[c].filter))
  BY ClientFacts
<1>2. /\ tape \in Seq(Events) /\ expired \in 0..Len(tape) /\ byIp \in [Ips -> SUBSET Clients] /\ Agree(clients, byIp)
      /\ tape' = tape /\ expired' \in expired..Len(tape)
  BY DEF StreamIInv, TypesHold, Heartbeat
<1>3. PICK l \in Nat : l = Len(tape)
  BY <1>2, LenProperties
<1>4. expired' \in 0..Len(tape)
  BY <1>2, <1>3
<1>5. PICK all : /\ DOMAIN all = D /\ all = [c \in D |-> all[c]] /\ CallsEnd(all, byIp)
                 /\ \A c \in D : all[c] \in Beats(clients[c])
  <2>1. PICK beats : beats = [c \in D |-> Beats(clients[c])]
    OBVIOUS
  <2>2. PICK all \in [D -> UNION Range(beats)] : (\A c \in D : all[c] \in beats[c]) /\ CallsEnd(all, byIp)
    BY <1>1, <2>1 DEF Heartbeat
  <2>3. \A c \in D : all[c] \in Beats(clients[c])
    BY <2>1, <2>2
  <2> QED BY <2>2, <2>3
<1>6. ASSUME NEW c \in D
      PROVE  /\ all[c] \in Client /\ all[c].ip = clients[c].ip
             /\ all[c].removed \/ (all[c].due <= Len(tape) /\ Told(all[c], OwedOf(tape, all[c].due, all[c].filter)))
  <2>1. PICK x \in Client : x = clients[c]
    BY <1>1
  <2>2. x.due <= Len(tape) /\ Told(x, OwedOf(tape, x.due, x.filter)) /\ all[c] \in Beats(x)
    BY <1>1, <1>5, <2>1
  <2>3. all[c] \in Client /\ Same(all[c], x) /\ (all[c].removed \/ Told(all[c], OwedOf(tape, x.due, x.filter)))
    BY <2>2, BeatKeeps
  <2> QED BY <2>1, <2>2, <2>3 DEF Same
<1>7. all \in [D -> Client]
  BY <1>5, <1>6
<1>8. Agree(all, byIp)
  BY <1>1, <1>2, <1>6, <1>7 DEF Agree
<1> QED BY <1>1, <1>2, <1>4, <1>5, <1>6, <1>7, <1>8, CallsEndWell

LEMMA NoClientsAgree ==
    ASSUME tape' \in Seq(Events), expired' \in 0..Len(tape'),
           clients' = [c \in {} |-> 0], byIp' = [ip \in Ips |-> {}]
    PROVE  StreamIInv'
<1>1. [c \in {} |-> 0] \in ClientSets /\ DOMAIN [c \in {} |-> 0] = {}
  <2>1. [c \in {} |-> 0] \in [{} -> Client] /\ {} \in SUBSET Clients
    OBVIOUS
  <2> QED BY <2>1 DEF ClientSets
<1>2. IsFiniteSet({}) /\ Cardinality({}) = 0
  BY FS_EmptySet
<1>3. MaxTotalClients \in Nat /\ MaxClientsPerIp \in Nat
  BY StreamAssumption
<1>4. PICK b : b = [ip \in Ips |-> {}]
  OBVIOUS
<1>5. b \in [Ips -> SUBSET Clients] /\ \A ip \in Ips : b[ip] = {}
  BY <1>4
<1>6. PICK k : k = [c \in {} |-> 0]
  OBVIOUS
<1>7. k \in ClientSets /\ DOMAIN k = {}
  BY <1>1, <1>6
<1>8. Agree(k, b)
  <2>1. 0 <= MaxClientsPerIp
    BY <1>3
  <2>2. \A ip \in Ips : {c \in DOMAIN k : k[c].ip = ip} = {}
    BY <1>7
  <2> QED BY <1>2, <1>5, <2>1, <2>2 DEF Agree
<1>9. clients' = k /\ byIp' = b
  BY <1>4, <1>6
<1>10. TypesHold'
  BY <1>5, <1>7, <1>9 DEF TypesHold
<1> QED BY <1>2, <1>3, <1>7, <1>8, <1>9, <1>10 DEF StreamIInv, Agree

LEMMA StreamStart == StreamInit => StreamIInv
<1> SUFFICES ASSUME StreamInit PROVE StreamIInv
  OBVIOUS
<1>1. [c \in {} |-> 0] \in ClientSets /\ DOMAIN [c \in {} |-> 0] = {}
  <2>1. [c \in {} |-> 0] \in [{} -> Client] /\ {} \in SUBSET Clients
    OBVIOUS
  <2> QED BY <2>1 DEF ClientSets
<1>2. IsFiniteSet({}) /\ Cardinality({}) = 0
  BY FS_EmptySet
<1>3. MaxTotalClients \in Nat /\ MaxClientsPerIp \in Nat
  BY StreamAssumption
<1>4. byIp \in [Ips -> SUBSET Clients] /\ \A ip \in Ips : byIp[ip] = {}
  BY DEF StreamInit
<1>5. clients \in ClientSets /\ DOMAIN clients = {}
  BY <1>1 DEF StreamInit
<1>6. Agree(clients, byIp)
  <2>1. 0 <= MaxClientsPerIp
    BY <1>3
  <2>2. \A ip \in Ips : {c \in DOMAIN clients : clients[c].ip = ip} = {}
    BY <1>5
  <2> QED BY <1>2, <1>4, <2>1, <2>2 DEF Agree
<1>7. tape \in Seq(Events) /\ expired \in 0..Len(tape)
  BY EmptySeq DEF StreamInit
<1> QED BY <1>2, <1>3, <1>4, <1>5, <1>6, <1>7 DEF StreamIInv, TypesHold

LEMMA StreamKeeps ==
    ASSUME StreamIInv, [StreamNext]_stream
    PROVE  StreamIInv'
<1>1. CASE UNCHANGED <<clients, byIp, tape, expired>>
  <2>1. clients' = clients /\ byIp' = byIp /\ tape' = tape /\ expired' = expired
    BY <1>1
  <2> QED BY <2>1 DEF StreamIInv, TypesHold, Agree, Told, Has, Owed
<1>2. CASE StopStream
  <2>1. tape' \in Seq(Events) /\ expired' \in 0..Len(tape')
    BY <1>2 DEF StopStream, StreamIInv, TypesHold
  <2> QED BY <1>2, <2>1, NoClientsAgree DEF StopStream
<1>3. CASE StartStream
  BY <1>1, <1>3 DEF StartStream
<1>4. CASE UNCHANGED stream
  BY <1>1, <1>4 DEF stream
<1> QED BY <1>2, <1>3, <1>4, BroadcastKeeps, AddClientKeeps, RemoveClientKeeps, HeartbeatKeeps DEF StreamNext

LEMMA StreamAgrees == StreamIInv => StreamIsWhole
<1> SUFFICES ASSUME StreamIInv PROVE StreamIsWhole
  OBVIOUS
<1>1. PICK D \in SUBSET Clients : D = DOMAIN clients /\ clients \in [D -> Client]
  BY ClientFacts
<1>2. \A c \in D : Told(clients[c], Owed(clients[c]))
  BY <1>1 DEF StreamIInv
<1>3. ClientsAgree
  BY <1>1, <1>2 DEF StreamIInv, Agree, Told, ClientsAgree
<1>4. ASSUME NEW id \in D, ~ clients[id].refused PROVE clients[id].got = Sequenced(Owed(clients[id]))
  <2>1. PICK x \in Client : x = clients[id]
    BY <1>1
  <2>2. PICK S : S = Owed(x)
    OBVIOUS
  <2>3. tape \in Seq(Events) /\ S \in SUBSET DOMAIN tape
    BY <2>2 DEF StreamIInv, TypesHold, Owed
  <2>4. x.got \in Seq(Nat) /\ Rising(x.got) /\ ToSet(x.got) = S
    BY <1>2, <1>4, <2>1, <2>2 DEF Client, Told
  <2>5. Sequenced(S) \in Seq(Nat) /\ Rising(Sequenced(S)) /\ ToSet(Sequenced(S)) = S
    BY <2>3, SequencedRises
  <2>6. x.got = Sequenced(S)
    BY <2>4, <2>5, RisingUnique
  <2> QED BY <2>1, <2>2, <2>6
<1> QED BY <1>1, <1>2, <1>3, <1>4 DEF StreamIsWhole, Told

\* However clients come, go and come back, writes are refused or throw, and heartbeats
\* flush a part of what waits, a client has or is kept every event it is owed, in order
\* and once while nothing was refused, and the limits hold (SSEService).
THEOREM StreamsAreWhole == StreamSpec => []StreamIsWhole
<1>1. StreamInit => StreamIInv
  BY StreamStart
<1>2. StreamIInv /\ [StreamNext]_stream => StreamIInv'
  BY StreamKeeps
<1> QED BY <1>1, <1>2, StreamAgrees, PTL DEF StreamSpec
===============================================================================
