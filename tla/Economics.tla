------------------------------ MODULE Economics ------------------------------
(***************************************************************************)
(* The native balances (InMemoryBalanceStore) and who takes from them: the *)
(* FeeService and the RentCollector.  It stands beside the Paymaster, with *)
(* the same height and with balances of its own; neither reads the other,  *)
(* so that a behaviour shows one of them (part).                           *)
(*                                                                         *)
(* A call is split where it awaits.  A rent record is an object: the map   *)
(* of records, the iteration over it and a call that awaits each hold      *)
(* references, and a record is changed in place.                           *)
(***************************************************************************)
EXTENDS Paymaster

CONSTANTS
    Addresses, Miner,
    Payers,         \* addresses that pay rent
    Credits,        \* amounts credited or transferred
    FeeAmounts,     \* gas times price of a charge
    Rates,          \* perBlock of a rent record
    RentStates,     \* states that pay rent
    CollectEvery,   \* RentConfig.collectEvery
    MinerShare,     \* thousandths of a fee, FeeSplit.miner
    Calls,          \* calls that may be under way
    MaxIssued,      \* bound: what is ever credited
    MaxRecords,     \* bound: records ever registered
    MaxCollections  \* bound: calls of collectRent

ASSUME EconomicsAssumption ==
    /\ Miner \in Addresses /\ Payers \subseteq Addresses /\ IsFiniteSet(Addresses) /\ IsFiniteSet(Calls)
    /\ Credits \cup FeeAmounts \cup Rates \subseteq Nat \ {0}
    /\ CollectEvery \in Nat \ {0} /\ MinerShare \in 0..1000
    /\ {MaxIssued, MaxRecords, MaxCollections} \subseteq Nat

VARIABLES
    part,           \* the part of the node a behaviour shows
    balances,       \* balances
    issued,         \* what was credited, and what transfers to oneself added
    fees,           \* totalFeesCollected, and of it what no one is credited with
    records,        \* every rent record made, in order
    order,          \* the states of InMemoryRentStore, in the order of its Map
    stored,         \* and the record of each
    collected,      \* totalCollected
    collections,    \* calls of collectRent so far
    call            \* the calls under way

economy == <<balances, issued, fees, records, order, stored, collected, collections, call>>

Idle == [op |-> "idle"]
Doing(op) == {c \in Calls : call[c].op = op}

Debited(from, n) == [balances EXCEPT ![from] = @ - n]
Credited(to, n) == [balances EXCEPT ![to] = @ + n]

\* (bug) the amount is not compared with the balance
CoversBug(from, n) == balances[from] > 0

Covers(from, n) == balances[from] >= n

-----------------------------------------------------------------------------
(* Balances and fees.                                                      *)

Credit(to, n) ==
    /\ issued + n <= MaxIssued
    /\ balances' = Credited(to, n) /\ issued' = issued + n
    /\ UNCHANGED <<fees, records, order, stored, collected, collections, call>>

\* transfer reads both balances before it writes either, so that a transfer to
\* oneself adds the amount.
Transfer(from, to, n) ==
    /\ Covers(from, n)
    /\ IF from = to THEN issued + n <= MaxIssued /\ issued' = issued + n ELSE UNCHANGED issued
    /\ balances' = [balances EXCEPT ![from] = balances[from] - n, ![to] = balances[to] + n]
    /\ UNCHANGED <<fees, records, order, stored, collected, collections, call>>

\* chargeAndDistribute of what validateFees let through, up to the await of debit.
ChargeFee(c, payer, fee) ==
    /\ call[c] = Idle /\ Covers(payer, fee)
    /\ balances' = Debited(payer, fee)
    /\ call' = [call EXCEPT ![c] = [op |-> "fee", fee |-> fee]]
    /\ UNCHANGED <<issued, fees, records, order, stored, collected, collections>>

\* The shares of a fee, rounded down for the miner; the rest goes to no one.
MinerGets(fee) == (fee * MinerShare) \div 1000

Distribute(c) ==
    /\ call[c].op = "fee"
    /\ LET fee == call[c].fee IN
         /\ balances' = Credited(Miner, MinerGets(fee))
         /\ fees' = [total |-> fees.total + fee, kept |-> fees.kept + fee - MinerGets(fee)]
    /\ call' = [call EXCEPT ![c] = Idle]
    /\ UNCHANGED <<issued, records, order, stored, collected, collections>>

-----------------------------------------------------------------------------
(* Rent.                                                                   *)

\* Of the properties: what a call of collectRent owes are the records that were
\* stored and active all the time since it started and that it has not come to.
Owing(f) ==
    [c \in Calls |-> IF f[c].op \notin {"debited", "settled"} THEN f[c]
                     ELSE [f[c] EXCEPT !.owed = {r \in @ : records'[r].active
                                                          /\ stored'[records'[r].state] = r}]]

\* registerRent puts a new record in the place of the state's old one, which a call
\* that awaits its debit may put back (overtaken, of the properties).
RegisterRent(s, payer, rate) ==
    /\ Len(records) < MaxRecords
    /\ LET awaited == {call[c].record : c \in Doing("debited")}
           new == [state |-> s, payer |-> payer, perBlock |-> rate,
                   active |-> TRUE, lastPaidHeight |-> height, overtaken |-> FALSE]
           old(r) == [records[r] EXCEPT !.overtaken = @ \/ (r \in awaited /\ records[r].state = s)]
       IN  records' = [r \in 1..Len(records) + 1 |-> IF r > Len(records) THEN new ELSE old(r)]
    /\ stored' = [stored EXCEPT ![s] = Len(records) + 1]
    /\ order' = IF stored[s] = 0 THEN Append(order, s) ELSE order
    /\ call' = Owing(call)
    /\ UNCHANGED <<balances, issued, fees, collected, collections>>

\* iterateActive goes on from the state after the k-th: the next active record is
\* asked to pay, and debit decides at once.
Goes(c, k, job) ==
    LET next == {j \in k + 1..Len(order) : records[stored[order[j]]].active}
        j == CHOOSE i \in next : \A n \in next : i <= n
        r == stored[order[j]]
        ok == Covers(records[r].payer, records[r].perBlock)
    IN  IF next = {}
        THEN /\ call' = [call EXCEPT ![c] = Idle] /\ collected' = collected + job.total
             /\ UNCHANGED balances
        ELSE /\ call' = [call EXCEPT ![c] = [job EXCEPT !.op = "debited", !.at = j,
                                             !.record = r, !.ok = ok]]
             /\ balances' = IF ok THEN Debited(records[r].payer, records[r].perBlock) ELSE balances
             /\ UNCHANGED collected

CollectRent(c) ==
    /\ call[c] = Idle /\ collections < MaxCollections
    /\ height % CollectEvery = 0
    /\ collections' = collections + 1
    /\ Goes(c, 0, [op |-> "debited", height |-> height, at |-> 0, record |-> 0, ok |-> FALSE,
                   total |-> 0,
                   owed |-> {stored[s] : s \in {s \in ToSet(order) : records[stored[s]].active}}])
    /\ UNCHANGED <<issued, fees, records, order, stored>>

\* debit has answered: the record is marked and put back under its state (setRent),
\* or the record that is stored now is paused (setPaused).
Settle(c) ==
    LET job == call[c]
        s == records[job.record].state
    IN  /\ job.op = "debited"
        /\ IF job.ok THEN /\ records' = [records EXCEPT ![job.record].lastPaidHeight = job.height]
                          /\ stored' = [stored EXCEPT ![s] = job.record]
                     ELSE /\ records' = [records EXCEPT ![stored[s]].active = FALSE]
                          /\ UNCHANGED stored
        /\ call' = Owing([call EXCEPT ![c] = [job EXCEPT !.op = "settled", !.owed = @ \ {job.record},
                        !.total = IF job.ok THEN @ + records[job.record].perBlock ELSE @]])
        /\ UNCHANGED <<balances, issued, fees, order, collected, collections>>

\* (bug) a record that could not pay ends the iteration
ContinueBug(c) ==
    /\ call[c].op = "settled"
    /\ Goes(c, IF call[c].ok THEN call[c].at ELSE Len(order), call[c])
    /\ UNCHANGED <<issued, fees, records, order, stored, collections>>

Continue(c) ==
    /\ call[c].op = "settled"
    /\ Goes(c, call[c].at, call[c])
    /\ UNCHANGED <<issued, fees, records, order, stored, collections>>

\* reactivate, as far as its record; the payer's balance once getRent has returned;
\* and setPaused once get has, if the balance was enough.
Reactivate(c, s) ==
    /\ call[c] = Idle /\ stored[s] # 0
    /\ call' = [call EXCEPT ![c] = [op |-> "asks", record |-> stored[s]]]
    /\ UNCHANGED <<balances, issued, fees, records, order, stored, collected, collections>>

ReadBalance(c) ==
    /\ call[c].op = "asks"
    /\ LET r == records[call[c].record] IN
         call' = [call EXCEPT ![c] = IF Covers(r.payer, r.perBlock)
                                     THEN [op |-> "resumes", record |-> call[c].record] ELSE Idle]
    /\ UNCHANGED <<balances, issued, fees, records, order, stored, collected, collections>>

\* (bug) the record that was read is stored again
ResumeBug(c) ==
    /\ call[c].op = "resumes"
    /\ records' = [records EXCEPT ![call[c].record].active = TRUE]
    /\ stored' = [stored EXCEPT ![records[call[c].record].state] = call[c].record]
    /\ call' = [call EXCEPT ![c] = Idle]
    /\ UNCHANGED <<balances, issued, fees, order, collected, collections>>

Resume(c) ==
    /\ call[c].op = "resumes"
    /\ records' = [records EXCEPT ![stored[records[call[c].record].state]].active = TRUE]
    /\ call' = [call EXCEPT ![c] = Idle]
    /\ UNCHANGED <<balances, issued, fees, order, stored, collected, collections>>

-----------------------------------------------------------------------------
EconomyInit ==
    /\ balances = [a \in Addresses |-> 0] /\ issued = 0 /\ fees = [total |-> 0, kept |-> 0]
    /\ records = <<>> /\ order = <<>> /\ stored = [s \in RentStates |-> 0]
    /\ collected = 0 /\ collections = 0 /\ call = [c \in Calls |-> Idle]

EconomyStep ==
    \/ \E a \in Addresses, n \in Credits : Credit(a, n) \/ \E b \in Addresses : Transfer(a, b, n)
    \/ \E s \in RentStates, a \in Payers, rate \in Rates : RegisterRent(s, a, rate)
    \/ \E c \in Calls :
         \/ \E a \in Addresses, fee \in FeeAmounts : ChargeFee(c, a, fee)
         \/ \E s \in RentStates : Reactivate(c, s)
         \/ CollectRent(c) \/ Settle(c) \/ Continue(c) \/ Distribute(c) \/ ReadBalance(c) \/ Resume(c)

SponsorInit == Init /\ EconomyInit /\ part \in {"paymaster", "balances"}

SponsorNext ==
    /\ UNCHANGED part
    /\ \/ part = "paymaster" /\ Next /\ UNCHANGED economy
       \/ part = "balances" /\ EconomyStep /\ UNCHANGED vars
       \/ part = "balances" /\ NextBlock /\ UNCHANGED economy

SponsorSpec == SponsorInit /\ [][SponsorNext]_<<vars, economy, part>>

-----------------------------------------------------------------------------
(* Properties.                                                             *)

\* What a call has taken and not yet said: a fee that is not distributed, and the
\* rents of a call of collectRent, the one whose debit it awaits included.
Due(c) ==
    CASE call[c].op = "fee" -> call[c].fee
      [] call[c].op = "debited" /\ call[c].ok -> call[c].total + records[call[c].record].perBlock
      [] call[c].op = "debited" /\ ~call[c].ok -> call[c].total
      [] call[c].op = "settled" -> call[c].total
      [] call[c].op \notin {"fee", "debited", "settled"} -> 0

\* No balance falls below zero, and whatever calls overlap, the balances and what
\* the services say they took, or are about to say, are together what was issued:
\* money is not taken twice or lost between an await and the next
\* (chargeAndDistribute, collectRent).
MoneyAddsUp ==
    /\ balances \in [Addresses -> Nat]
    /\ issued = SumFunctionOnSet(balances, Addresses) + collected + fees.kept
                 + SumFunctionOnSet([c \in Calls |-> Due(c)], Calls)

\* A call of collectRent that ends has come to every record that was stored and
\* active all the time since it began, although records are added, replaced, paused
\* and reactivated under its iteration.
RentIsAsked ==
    \A c \in Calls : call[c].op = "settled" /\ call'[c] = Idle => call[c].owed = {}

\* A record that becomes the one stored of its state is the one registered last,
\* unless a call once awaited its debit when another was registered: only that call
\* puts it back (collectRent, setRent).
RegistrationsStand ==
    \A s \in RentStates : stored'[s] # stored[s] =>
        \/ \A r \in DOMAIN records' : records'[r].state = s => r <= stored'[s]
        \/ records'[stored'[s]].overtaken

\* At every step the money adds up, the rent is asked for and the registrations stand.
EconomyAddsUp == [][MoneyAddsUp' /\ RentIsAsked /\ RegistrationsStand]_economy
=============================================================================
