----------------------------- MODULE Paymaster -----------------------------
(***************************************************************************)
(* Sponsorship of transactions: PaymasterValidator.                        *)
(*                                                                         *)
(* A paymaster deposits a balance and hands out vouchers; a voucher pays   *)
(* for gas of one beneficiary up to its own gas and the paymaster's        *)
(* balance, until it is spent (single use), revoked or expired.  Calls are *)
(* synchronous.  Voucher ids are their order of creation, which is the     *)
(* order in which validateSponsorship tries them.                          *)
(***************************************************************************)
EXTENDS Integers, FiniteSets, Sequences, SequencesExt, Functions

CONSTANTS
    Paymasters, Senders,
    Amounts,        \* deposits and withdrawals
    GasLimits,      \* maxGas of a new voucher
    Gas,            \* gas a transaction asks for
    Lifetimes,      \* expiresAt - currentHeight of a new voucher
    MaxVouchers,    \* config.maxVouchersPerPaymaster
    MaxGas,         \* config.maxGasPerVoucher
    MaxHeight,      \* bound: block height
    MaxBalance,     \* bound: balance of a paymaster
    MaxUses,        \* bound: length of the usage log
    MinActive       \* bound: how far repeated revocations take the counter

ASSUME PaymasterAssumption ==
    /\ IsFiniteSet(Paymasters)
    /\ Amounts \subseteq Nat /\ GasLimits \subseteq Nat /\ Gas \subseteq Nat
    /\ Lifetimes \subseteq Nat
    /\ {MaxVouchers, MaxGas, MaxHeight, MaxBalance, MaxUses} \subseteq Nat
    /\ MinActive \in Int

VARIABLES
    accounts,   \* registered paymaster -> [balance, sponsored, active]
    vouchers,   \* the vouchers, in order of creation
    usage,      \* usageLog
    net,        \* sum of balanceUpdates of each paymaster
    height      \* currentHeight, as the callers pass it

vars == <<accounts, vouchers, usage, net, height>>

Account == [balance : Nat, sponsored : Nat, active : Int]
Voucher == [paymaster : Paymasters, beneficiary : Senders, maxGas : Nat, usedGas : Nat,
            expiresAt : Nat, singleUse : BOOLEAN, active : BOOLEAN]

Registered == DOMAIN accounts
OfPaymaster(p) == {v \in DOMAIN vouchers : vouchers[v].paymaster = p}

Init ==
    /\ accounts = [p \in {} |-> 0]
    /\ vouchers = <<>>
    /\ usage = <<>>
    /\ net = [p \in Paymasters |-> 0]
    /\ height = 0

Register(p, amount) ==
    /\ p \notin Registered
    /\ accounts' = [q \in Registered \cup {p} |->
                      IF q = p THEN [balance |-> amount, sponsored |-> 0, active |-> 0]
                      ELSE accounts[q]]
    /\ net' = [net EXCEPT ![p] = @ + amount]
    /\ UNCHANGED <<vouchers, usage, height>>

Deposit(p, amount) ==
    /\ p \in Registered
    /\ accounts[p].balance + amount <= MaxBalance
    /\ accounts' = [accounts EXCEPT ![p].balance = @ + amount]
    /\ net' = [net EXCEPT ![p] = @ + amount]
    /\ UNCHANGED <<vouchers, usage, height>>

Withdraw(p, amount) ==
    /\ p \in Registered
    /\ accounts[p].balance >= amount
    /\ accounts' = [accounts EXCEPT ![p].balance = @ - amount]
    /\ net' = [net EXCEPT ![p] = @ - amount]
    /\ UNCHANGED <<vouchers, usage, height>>

\* createVoucher.  The limit counts every voucher ever made.
CreateVoucher(p, s, maxGas, life, single) ==
    /\ p \in Registered
    /\ Cardinality(OfPaymaster(p)) < MaxVouchers
    /\ maxGas <= MaxGas
    /\ vouchers' = Append(vouchers, [paymaster |-> p, beneficiary |-> s, maxGas |-> maxGas,
                       usedGas |-> 0, expiresAt |-> height + life, singleUse |-> single,
                       active |-> TRUE])
    /\ accounts' = [accounts EXCEPT ![p].active = @ + 1]
    /\ UNCHANGED <<usage, net, height>>

\* revokeVoucher, of a voucher that may have ended already.
RevokeVoucher(v) ==
    /\ accounts[vouchers[v].paymaster].active > MinActive
    /\ vouchers' = [vouchers EXCEPT ![v].active = FALSE]
    /\ accounts' = [accounts EXCEPT ![vouchers[v].paymaster].active = @ - 1]
    /\ UNCHANGED <<usage, net, height>>

\* (bug) a voucher lives one block too long
AliveBug(v) == vouchers[v].expiresAt >= height

Alive(v) == vouchers[v].active /\ vouchers[v].expiresAt > height
Left(v) == vouchers[v].maxGas - vouchers[v].usedGas

\* (bug) the gas of the voucher is not looked at
OffersBug(v, s, p, gas) == vouchers[v].paymaster = p /\ vouchers[v].beneficiary = s /\ Alive(v)

\* The vouchers validateSponsorship may stop at.
Offers(v, s, p, gas) ==
    /\ vouchers[v].paymaster = p /\ vouchers[v].beneficiary = s
    /\ Alive(v) /\ Left(v) >= gas

\* validateSponsorship: the vouchers tried before the first that offers are
\* switched off when they have expired; the paymaster is told nothing.
Tried(s, p, gas) ==
    {v \in DOMAIN vouchers : \A u \in 1..(v - 1) : ~ Offers(u, s, p, gas)}
ValidateSponsorship(s, p, gas) ==
    LET Expires(v) == /\ v \in Tried(s, p, gas)
                      /\ vouchers[v].paymaster = p /\ vouchers[v].beneficiary = s
                      /\ vouchers[v].expiresAt <= height
    IN  /\ p \in Registered
        /\ vouchers' = [v \in DOMAIN vouchers |->
                          [vouchers[v] EXCEPT !.active = @ /\ ~ Expires(v)]]
        /\ UNCHANGED <<accounts, usage, net, height>>

\* The answer: the voucher, if the paymaster's balance covers the gas.
Valid(v, s, p, gas) ==
    /\ v \in Tried(s, p, gas) /\ Offers(v, s, p, gas)
    /\ accounts[p].balance >= gas

\* (bug) only the paymaster's balance is looked at
CanUseBug(v, gas) == Alive(v) /\ accounts[vouchers[v].paymaster].balance >= gas

CanUse(v, gas) ==
    /\ Alive(v) /\ Left(v) >= gas
    /\ accounts[vouchers[v].paymaster].balance >= gas

Spend(v, gas) == [vouchers EXCEPT ![v].usedGas = @ + gas,
                                  ![v].active = ~ vouchers[v].singleUse]

Charge(a, v, gas) ==
    [a EXCEPT !.balance = @ - gas, !.sponsored = @ + gas,
              !.active = IF vouchers[v].singleUse THEN @ - 1 ELSE @]

\* useVoucher, accepted.
UseVoucher(v, gas) ==
    /\ CanUse(v, gas)
    /\ Len(usage) < MaxUses
    /\ vouchers' = Spend(v, gas)
    /\ accounts' = [accounts EXCEPT ![vouchers[v].paymaster] = Charge(@, v, gas)]
    /\ usage' = Append(usage, <<v, gas>>)
    /\ net' = [net EXCEPT ![vouchers[v].paymaster] = @ - gas]
    /\ UNCHANGED height

\* useVoucher, refused because the voucher has expired.
UseExpired(v) ==
    /\ vouchers[v].active /\ vouchers[v].expiresAt <= height
    /\ vouchers' = [vouchers EXCEPT ![v].active = FALSE]
    /\ UNCHANGED <<accounts, usage, net, height>>

CleanupExpired ==
    LET Ends(v) == vouchers[v].active /\ vouchers[v].expiresAt <= height
    IN  /\ vouchers' = [v \in DOMAIN vouchers |-> [vouchers[v] EXCEPT !.active = @ /\ ~ Ends(v)]]
        /\ accounts' = [p \in Registered |->
              [accounts[p] EXCEPT !.active = @ - Cardinality({v \in OfPaymaster(p) : Ends(v)})]]
        /\ UNCHANGED <<usage, net, height>>

\* The next block; the height is not the validator's own.
NextBlock ==
    /\ height < MaxHeight
    /\ height' = height + 1
    /\ UNCHANGED <<accounts, vouchers, usage, net>>

Next ==
    \/ \E p \in Paymasters, amount \in Amounts :
          Register(p, amount) \/ Deposit(p, amount) \/ Withdraw(p, amount)
    \/ \E p \in Paymasters, s \in Senders, g \in GasLimits, l \in Lifetimes, single \in BOOLEAN :
          CreateVoucher(p, s, g, l, single)
    \/ \E v \in DOMAIN vouchers : RevokeVoucher(v) \/ UseExpired(v)
    \/ \E v \in DOMAIN vouchers, gas \in Gas : UseVoucher(v, gas)
    \/ \E s \in Senders, p \in Paymasters, gas \in Gas : ValidateSponsorship(s, p, gas)
    \/ CleanupExpired \/ NextBlock

Spec == Init /\ [][Next]_vars

-----------------------------------------------------------------------------
(* Properties.                                                             *)

TypeOK ==
    /\ Registered \subseteq Paymasters /\ accounts \in [Registered -> Account]
    /\ vouchers \in Seq(Voucher)
    /\ \A v \in DOMAIN vouchers : vouchers[v].paymaster \in Registered
    /\ \A k \in DOMAIN usage : usage[k] \in (DOMAIN vouchers) \X Gas
    /\ net \in [Paymasters -> Int]
    /\ height \in Nat

\* No voucher pays more than its gas and a single use voucher pays at most once,
\* whatever was validated in between; what a paymaster is said to have sponsored
\* is what its vouchers used, and its balance is what the balance updates add up
\* to: no gas is paid twice or never (useVoucher).
BooksBalance ==
    /\ TypeOK
    /\ \A v \in DOMAIN vouchers :
         /\ vouchers[v].usedGas <= vouchers[v].maxGas
         /\ vouchers[v].singleUse => Cardinality({k \in DOMAIN usage : usage[k][1] = v}) <= 1
    /\ \A p \in Registered :
         /\ accounts[p].balance = net[p]
         /\ accounts[p].sponsored =
              SumFunctionOnSet([v \in DOMAIN vouchers |-> vouchers[v].usedGas], OfPaymaster(p))

\* What validateSponsorship promises useVoucher keeps, if it comes first: two
\* copies of the same conditions in the code.
ValidCanBeUsed ==
    \A v \in DOMAIN vouchers, s \in Senders, p \in Registered, gas \in Gas :
        Valid(v, s, p, gas) => CanUse(v, gas)

\* What is promised is paid once, and the books say so: whatever was validated,
\* used, revoked or expired in between (validateSponsorship, useVoucher).
SponsorshipsAddUp == BooksBalance /\ ValidCanBeUsed

\* A voucher that was spent, revoked or has expired never pays again.
EndedVouchersStay ==
    [][\A v \in DOMAIN vouchers :
          ~ (vouchers[v].active /\ vouchers[v].expiresAt > height) =>
          vouchers'[v].usedGas = vouchers[v].usedGas /\ ~ (vouchers[v].active /\ vouchers[v].expiresAt > height)']_<<vouchers, usage, height>>
=============================================================================
