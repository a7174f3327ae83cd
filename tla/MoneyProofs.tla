----------------------------- MODULE MoneyProofs ------------------------------
(* Proofs about what is owned: that sponsorships add up (SponsorshipsAddUp), that *)
(* a voucher that ended pays nothing more (EndedVouchersStay), that the balances *)
(* and what the services took are together what was issued, whatever calls      *)
(* overlap (EconomyAddsUp); that the supply of a token adds up (SupplyAddsUp) and *)
(* that an instance moves from the owner its call found (MovesFromItsOwner): for *)
(* any constants that the assumptions allow, and any number of calls.          *)
EXTENDS Economics, Tokens, CollectionProofs

(* What vouchers V of p have paid for.                                        *)
UsedOf(V) == [v \in DOMAIN V |-> V[v].usedGas]
Of(V, p) == {v \in DOMAIN V : V[v].paymaster = p}
Paid(V, p) == SumFunctionOnSet(UsedOf(V), Of(V, p))

(* What the vouchers W say that V said, whatever is still active.              *)
SameTerms(v, w) ==
    /\ w.paymaster = v.paymaster /\ w.maxGas = v.maxGas
    /\ w.singleUse = v.singleUse /\ w.expiresAt = v.expiresAt

\* A paymaster's vouchers are finitely many, so that what they paid is a number.
LEMMA PaidSums ==
    ASSUME NEW V \in Seq(Voucher), NEW p
    PROVE  /\ Summable(UsedOf(V), Of(V, p)) /\ Paid(V, p) \in Int
           /\ \A v \in DOMAIN V : V[v] \in Voucher /\ UsedOf(V)[v] = V[v].usedGas /\ V[v].usedGas \in Nat
<1>1. DOMAIN V = 1..Len(V) /\ Len(V) \in Nat /\ \A v \in DOMAIN V : V[v] \in Voucher
  BY LenProperties, ElementOfSeq
<1>2. \A v \in DOMAIN V : UsedOf(V)[v] = V[v].usedGas /\ V[v].usedGas \in Nat
  BY <1>1 DEF UsedOf, Voucher
<1>3. IsFiniteSet(Of(V, p))
  <2>1. IsFiniteSet(DOMAIN V)
    BY <1>1, FS_Interval
  <2>2. Of(V, p) \subseteq DOMAIN V
    BY DEF Of
  <2> QED BY <2>1, <2>2, FS_Subset
<1>4. Summable(UsedOf(V), Of(V, p))
  BY <1>2, <1>3 DEF Summable, Of
<1> QED BY <1>1, <1>2, <1>4, SumFacts DEF Paid

\* Vouchers that are switched off have paid what they paid.
LEMMA PaidSame ==
    ASSUME NEW V \in Seq(Voucher), NEW W \in Seq(Voucher), DOMAIN W = DOMAIN V,
           \A v \in DOMAIN V : W[v].paymaster = V[v].paymaster /\ W[v].usedGas = V[v].usedGas, NEW p
    PROVE  Paid(W, p) = Paid(V, p)
<1>1. Of(W, p) = Of(V, p)
  BY DEF Of
<1>2. \A v \in Of(V, p) : UsedOf(W)[v] = UsedOf(V)[v]
  BY DEF Of, UsedOf
<1>3. Summable(UsedOf(V), Of(V, p))
  BY PaidSums
<1>4. PICK f, g, S : f = UsedOf(V) /\ g = UsedOf(W) /\ S = Of(V, p)
  OBVIOUS
<1>5. SumFunctionOnSet(g, S) = SumFunctionOnSet(f, S)
  BY <1>2, <1>3, <1>4, SumSame
<1> QED BY <1>1, <1>4, <1>5 DEF Paid

PaidAt(V, p, x) == IF x \in Of(V, p) THEN UsedOf(V)[x] ELSE 0

\* What p's vouchers have paid differs by what the one at x has.
LEMMA PaidDiffers ==
    ASSUME NEW V, NEW W, NEW x, NEW p, Summable(UsedOf(V), Of(V, p)), Summable(UsedOf(W), Of(W, p)),
           \A v : v # x => (v \in Of(V, p) <=> v \in Of(W, p)),
           \A v \in Of(V, p) : v # x => UsedOf(W)[v] = UsedOf(V)[v]
    PROVE  /\ Paid(V, p) \in Int /\ Paid(W, p) \in Int
           /\ Paid(W, p) = Paid(V, p) - PaidAt(V, p, x) + PaidAt(W, p, x)
<1>1. PICK f, g, S, R, T : f = UsedOf(V) /\ g = UsedOf(W) /\ S = Of(V, p) /\ R = Of(W, p) /\ T = S \ {x}
  OBVIOUS
<1>2. /\ Summable(f, S) /\ Summable(g, R) /\ R \ {x} = T
      /\ \A v \in T : g[v] = f[v]
  BY <1>1
<1>3. Summable(f, T)
  BY <1>1, <1>2, SummableParts
<1>4. SumFunctionOnSet(g, T) = SumFunctionOnSet(f, T)
  BY ONLY <1>2, <1>3, SumSame
<1>5. /\ SumFunctionOnSet(f, S) \in Int /\ SumFunctionOnSet(g, R) \in Int /\ SumFunctionOnSet(f, T) \in Int
      /\ \A v \in S : f[v] \in Int
      /\ \A v \in R : g[v] \in Int
  BY <1>2, <1>3, SumFacts DEF Summable
<1>6. SumFunctionOnSet(f, S) = SumFunctionOnSet(f, T) + (IF x \in S THEN f[x] ELSE 0)
  <2>1. CASE x \in S
    <3>1. SumFunctionOnSet(f, S) = f[x] + SumFunctionOnSet(f, S \ {x})
      BY <1>2, <2>1, SumFacts
    <3> QED BY <1>1, <1>5, <2>1, <3>1
  <2>2. CASE x \notin S
    BY <1>1, <1>5, <2>2
  <2> QED BY <2>1, <2>2
<1>7. SumFunctionOnSet(g, R) = SumFunctionOnSet(g, T) + (IF x \in R THEN g[x] ELSE 0)
  <2>1. CASE x \in R
    <3>1. SumFunctionOnSet(g, R) = g[x] + SumFunctionOnSet(g, R \ {x})
      BY <1>2, <2>1, SumFacts
    <3>2. g[x] \in Int
      BY <1>5, <2>1
    <3>3. SumFunctionOnSet(g, R \ {x}) = SumFunctionOnSet(g, T) /\ SumFunctionOnSet(g, T) \in Int
      BY <1>2, <1>4, <1>5
    <3>4. PICK t, u : t = SumFunctionOnSet(g, T) /\ u = SumFunctionOnSet(g, R)
      OBVIOUS
    <3>5. u = g[x] + t /\ t \in Int
      BY <3>1, <3>3, <3>4
    <3>6. u = t + g[x]
      BY ONLY <3>2, <3>5
    <3> QED BY <2>1, <3>4, <3>6
  <2>2. CASE x \notin R
    <3>1. R = T
      BY <1>2, <2>2
    <3> QED BY <1>4, <1>5, <2>2, <3>1
  <2> QED BY <2>1, <2>2
<1>8. SumFunctionOnSet(g, R) = SumFunctionOnSet(f, S) - (IF x \in S THEN f[x] ELSE 0)
                                                     + (IF x \in R THEN g[x] ELSE 0)
  BY <1>4, <1>5, <1>6, <1>7
<1> QED BY <1>1, <1>5, <1>8 DEF Paid, PaidAt

\* One voucher that paid for more gas changes what its paymaster's vouchers paid
\* by that.
LEMMA PaidMore ==
    ASSUME NEW V \in Seq(Voucher), NEW W \in Seq(Voucher), DOMAIN W = DOMAIN V,
           NEW x \in DOMAIN V, NEW gas \in Nat, W[x].usedGas = V[x].usedGas + gas,
           W[x].paymaster = V[x].paymaster,
           \A v \in DOMAIN V : v # x => W[v] = V[v], NEW p
    PROVE  Paid(W, p) = Paid(V, p) + (IF V[x].paymaster = p THEN gas ELSE 0)
<1>1. /\ Summable(UsedOf(V), Of(V, p)) /\ Summable(UsedOf(W), Of(W, p))
      /\ UsedOf(V)[x] = V[x].usedGas /\ UsedOf(W)[x] = W[x].usedGas
      /\ V[x].usedGas \in Nat
  BY PaidSums
<1>2. \A v : v # x => (v \in Of(V, p) <=> v \in Of(W, p))
  BY DEF Of
<1>3. \A v \in Of(V, p) : v # x => UsedOf(W)[v] = UsedOf(V)[v]
  BY DEF Of, UsedOf
<1>4. /\ Paid(V, p) \in Int /\ Paid(W, p) \in Int
      /\ Paid(W, p) = Paid(V, p) - PaidAt(V, p, x) + PaidAt(W, p, x)
  BY <1>1, <1>2, <1>3, PaidDiffers
<1>5. /\ x \in Of(V, p) <=> V[x].paymaster = p
      /\ x \in Of(W, p) <=> V[x].paymaster = p
  BY DEF Of
<1> QED BY <1>1, <1>4, <1>5 DEF PaidAt

\* A new voucher has paid nothing.
LEMMA PaidNew ==
    ASSUME NEW V \in Seq(Voucher), NEW w \in Voucher, w.usedGas = 0, NEW p
    PROVE  Paid(Append(V, w), p) = Paid(V, p)
<1>1. PICK n \in Nat : n = Len(V)
  BY LenProperties
<1>2. PICK W : W = Append(V, w)
  OBVIOUS
<1>3. /\ W \in Seq(Voucher) /\ DOMAIN W = 1..(n + 1) /\ DOMAIN V = 1..n
      /\ W[n + 1] = w /\ \A v \in 1..n : W[v] = V[v]
  BY <1>1, <1>2, AppendProperties, LenProperties
<1>4. PICK x \in Nat : x = n + 1
  OBVIOUS
<1>5. /\ Summable(UsedOf(V), Of(V, p)) /\ Summable(UsedOf(W), Of(W, p))
      /\ UsedOf(W)[x] = 0
  BY <1>3, <1>4, PaidSums
<1>6. \A v : v # x => (v \in Of(V, p) <=> v \in Of(W, p))
  BY <1>3, <1>4 DEF Of
<1>7. \A v \in Of(V, p) : v # x => UsedOf(W)[v] = UsedOf(V)[v]
  BY <1>3 DEF Of, UsedOf
<1>8. /\ Paid(V, p) \in Int /\ Paid(W, p) \in Int
      /\ Paid(W, p) = Paid(V, p) - PaidAt(V, p, x) + PaidAt(W, p, x)
  BY <1>5, <1>6, <1>7, PaidDiffers
<1>9. x \notin Of(V, p)
  BY <1>3, <1>4 DEF Of
<1> QED BY <1>2, <1>5, <1>8, <1>9 DEF PaidAt

-----------------------------------------------------------------------------
(* The invariant: TypeOK with the log a sequence; what each voucher paid is      *)
(* within its gas, and one for a single use that is active has not been used;    *)
(* and the books of each paymaster, empty before it registers.                 *)
Uses(v) == {k \in DOMAIN usage : usage[k][1] = v}
SponsorTypes == TypeOK /\ usage \in Seq(Nat \X Nat)
VouchersOK ==
    \A v \in DOMAIN vouchers :
        /\ vouchers[v].usedGas <= vouchers[v].maxGas
        /\ vouchers[v].singleUse => Cardinality(Uses(v)) <= 1
        /\ vouchers[v].singleUse /\ vouchers[v].active => Uses(v) = {}
AccountsOK ==
    /\ \A p \in Registered : accounts[p].balance = net[p] /\ accounts[p].sponsored = Paid(vouchers, p)
    /\ \A p \in Paymasters \ Registered : net[p] = 0
SponsorInv == SponsorTypes /\ VouchersOK /\ AccountsOK

\* What EndedVouchersStay says of a step.
EndedStay ==
    \A v \in DOMAIN vouchers : ~ Alive(v) =>
        vouchers'[v].usedGas = vouchers[v].usedGas /\ ~ (vouchers[v].active /\ vouchers[v].expiresAt > height)'

(* W is V with some vouchers switched off.                                     *)
SwitchedOff(V, W) ==
    /\ W \in Seq(Voucher) /\ DOMAIN W = DOMAIN V
    /\ \A v \in DOMAIN V : /\ SameTerms(V[v], W[v]) /\ W[v].usedGas = V[v].usedGas
                           /\ W[v].active => V[v].active

\* A function on the places of a sequence is a sequence.
LEMMA SameLength ==
    ASSUME NEW V \in Seq(Voucher), NEW W, W = [v \in DOMAIN V |-> W[v]], \A v \in DOMAIN V : W[v] \in Voucher
    PROVE  W \in Seq(Voucher) /\ DOMAIN W = DOMAIN V
<1>1. PICK n \in Nat : n = Len(V)
  BY LenProperties
<1>2. DOMAIN V = 1..n
  BY <1>1, LenProperties
<1>3. W \in [1..n -> Voucher]
  BY <1>2
<1> QED BY <1>2, <1>3, SeqDef

\* Switching vouchers off changes nothing else of them.
LEMMA SwitchingOff ==
    ASSUME NEW V \in Seq(Voucher), NEW W, W = [v \in DOMAIN V |-> W[v]],
           \A v \in DOMAIN V : \E b \in BOOLEAN : W[v] = [V[v] EXCEPT !.active = b] /\ (b => V[v].active)
    PROVE  SwitchedOff(V, W)
<1>1. ASSUME NEW v \in DOMAIN V
      PROVE  /\ W[v] \in Voucher /\ SameTerms(V[v], W[v]) /\ W[v].usedGas = V[v].usedGas
             /\ W[v].active => V[v].active
  <2>1. PICK b \in BOOLEAN : W[v] = [V[v] EXCEPT !.active = b] /\ (b => V[v].active)
    OBVIOUS
  <2>2. V[v] \in Voucher
    BY ElementOfSeq, LenProperties
  <2> QED BY <2>1, <2>2 DEF Voucher, SameTerms
<1>2. W \in Seq(Voucher) /\ DOMAIN W = DOMAIN V
  BY <1>1, SameLength
<1> QED BY <1>1, <1>2 DEF SwitchedOff

\* A step that at most switches vouchers off, and moves money with its record.
LEMMA QuietKeeps ==
    ASSUME SponsorInv, SwitchedOff(vouchers, vouchers'), usage' = usage, height' \in Nat, height <= height',
           Registered' \subseteq Paymasters, Registered \subseteq Registered',
           accounts' \in [Registered' -> Account], net' \in [Paymasters -> Int],
           \A p \in Registered' : accounts'[p].balance = net'[p],
           \A p \in Registered : accounts'[p].sponsored = accounts[p].sponsored,
           \A p \in Registered' \ Registered : accounts'[p].sponsored = 0,
           \A p \in Paymasters \ Registered' : net'[p] = net[p]
    PROVE  SponsorInv' /\ EndedStay
<1>1. /\ vouchers \in Seq(Voucher) /\ height \in Nat
      /\ vouchers' \in Seq(Voucher) /\ DOMAIN vouchers' = DOMAIN vouchers
      /\ \A v \in DOMAIN vouchers : vouchers[v].paymaster \in Registered /\ vouchers[v] \in Voucher
  BY PaidSums DEF SponsorInv, SponsorTypes, TypeOK, SwitchedOff
<1>2. ASSUME NEW v \in DOMAIN vouchers
      PROVE  /\ vouchers'[v].paymaster = vouchers[v].paymaster /\ vouchers'[v].maxGas = vouchers[v].maxGas
             /\ vouchers'[v].singleUse = vouchers[v].singleUse /\ vouchers'[v].expiresAt = vouchers[v].expiresAt
             /\ vouchers'[v].usedGas = vouchers[v].usedGas
             /\ vouchers'[v].active => vouchers[v].active
  BY DEF SwitchedOff, SameTerms
<1>3. SponsorTypes'
  <2>1. \A v \in DOMAIN vouchers' : vouchers'[v].paymaster \in Registered'
    BY <1>1, <1>2
  <2>2. /\ \A k \in DOMAIN usage' : usage'[k] \in (DOMAIN vouchers') \X Gas
        /\ usage' \in Seq(Nat \X Nat)
    BY <1>1 DEF SponsorInv, SponsorTypes, TypeOK
  <2> QED BY <1>1, <2>1, <2>2 DEF SponsorTypes, TypeOK
<1>4. VouchersOK'
  <2>1. \A v : Uses(v)' = Uses(v)
    BY DEF Uses
  <2> QED BY <1>1, <1>2, <2>1 DEF SponsorInv, VouchersOK
<1>5. \A p : Paid(vouchers', p) = Paid(vouchers, p)
  <2>1. PICK V, W : V = vouchers /\ W = vouchers'
    OBVIOUS
  <2>2. \A p : Paid(W, p) = Paid(V, p)
    BY <1>1, <1>2, <2>1, PaidSame
  <2> QED BY <2>1, <2>2
<1>6. ASSUME NEW p \in Registered' \ Registered
      PROVE  Paid(vouchers, p) = 0
  <2>1. Of(vouchers, p) = {}
    BY <1>1 DEF Of
  <2>2. SumFunctionOnSet(UsedOf(vouchers), {}) = 0
    BY <1>1, PaidSums, SumFacts
  <2> QED BY <2>1, <2>2 DEF Paid
<1>7. AccountsOK'
  <2>1. ASSUME NEW p \in Registered'
        PROVE  accounts'[p].balance = net'[p] /\ accounts'[p].sponsored = Paid(vouchers', p)
    <3>1. CASE p \in Registered
      BY <1>5, <3>1 DEF SponsorInv, AccountsOK
    <3>2. CASE p \notin Registered
      BY <1>5, <1>6, <3>2
    <3> QED BY <3>1, <3>2
  <2>2. \A p \in Paymasters \ Registered' : net'[p] = 0
    BY DEF SponsorInv, AccountsOK
  <2> QED BY <2>1, <2>2 DEF AccountsOK
<1>8. EndedStay
  <2> SUFFICES ASSUME NEW v \in DOMAIN vouchers, ~ Alive(v)
               PROVE  vouchers'[v].usedGas = vouchers[v].usedGas /\ ~ (vouchers'[v].active /\ vouchers'[v].expiresAt > height')
    BY DEF EndedStay
  <2>1. vouchers[v].expiresAt \in Nat
    BY <1>1 DEF Voucher
  <2> QED BY <1>1, <1>2, <2>1 DEF Alive
<1> QED BY <1>3, <1>4, <1>7, <1>8 DEF SponsorInv

\* Vouchers as they were have not been switched off.
LEMMA NoneSwitched ==
    ASSUME NEW V \in Seq(Voucher)
    PROVE  SwitchedOff(V, V)
BY DEF SwitchedOff, SameTerms

\* What the invariant says of the types, part by part.
LEMMA SponsorFacts ==
    ASSUME SponsorInv
    PROVE  /\ Registered \subseteq Paymasters /\ accounts \in [Registered -> Account]
           /\ vouchers \in Seq(Voucher) /\ net \in [Paymasters -> Int] /\ height \in Nat
           /\ usage \in Seq(Nat \X Nat)
           /\ \A v \in DOMAIN vouchers : vouchers[v] \in Voucher /\ vouchers[v].paymaster \in Registered
           /\ \A p \in Registered : /\ accounts[p].balance \in Nat /\ accounts[p].sponsored \in Nat
                                    /\ accounts[p].active \in Int
                                    /\ accounts[p].balance = net[p]
BY PaidSums DEF SponsorInv, SponsorTypes, TypeOK, AccountsOK, Account

\* registerPaymaster, deposit and withdraw.
LEMMA MoneyMoves ==
    ASSUME SponsorInv, NEW p \in Paymasters, NEW amount \in Amounts,
           Register(p, amount) \/ Deposit(p, amount) \/ Withdraw(p, amount)
    PROVE  SponsorInv' /\ EndedStay
<1>1. amount \in Nat
  BY PaymasterAssumption
<1>2. SwitchedOff(vouchers, vouchers') /\ usage' = usage /\ height' \in Nat /\ height <= height'
  BY SponsorFacts, NoneSwitched DEF Register, Deposit, Withdraw
<1>3. CASE Register(p, amount)
  <2>1. /\ Registered' = Registered \cup {p} /\ p \notin Registered
        /\ accounts'[p] = [balance |-> amount, sponsored |-> 0, active |-> 0]
        /\ \A q \in Registered : accounts'[q] = accounts[q]
        /\ accounts' = [q \in Registered' |-> accounts'[q]]
        /\ net' = [net EXCEPT ![p] = @ + amount]
    BY <1>3 DEF Register, Registered
  <2>2. net[p] = 0
    BY <2>1 DEF SponsorInv, AccountsOK
  <2>3. accounts' \in [Registered' -> Account]
    BY <1>1, <2>1, SponsorFacts DEF Account
  <2>4. net' \in [Paymasters -> Int] /\ net'[p] = amount /\ \A q \in Paymasters : q # p => net'[q] = net[q]
    BY <1>1, <2>1, <2>2, SponsorFacts
  <2>5. \A q \in Registered' : accounts'[q].balance = net'[q]
    BY <2>1, <2>4, SponsorFacts
  <2>6. Registered' \subseteq Paymasters
    BY <2>1, SponsorFacts
  <2> QED BY <1>2, <2>1, <2>3, <2>4, <2>5, <2>6, QuietKeeps
<1>4. ASSUME NEW d \in Int, p \in Registered, accounts[p].balance + d >= 0,
             accounts' = [accounts EXCEPT ![p].balance = @ + d], net' = [net EXCEPT ![p] = @ + d]
      PROVE  SponsorInv' /\ EndedStay
  <2>1. /\ Registered' = Registered
        /\ accounts' = [q \in Registered' |-> accounts'[q]]
        /\ \A q \in Registered : q # p => accounts'[q] = accounts[q]
    BY <1>4 DEF Registered
  <2>2. /\ accounts'[p] = [accounts[p] EXCEPT !.balance = accounts[p].balance + d]
        /\ accounts[p] \in Account
    BY <1>4, SponsorFacts DEF Registered
  <2>3. /\ accounts'[p] \in Account /\ accounts'[p].balance = accounts[p].balance + d
        /\ accounts'[p].sponsored = accounts[p].sponsored
    BY <1>4, <2>2 DEF Account
  <2>4. accounts' \in [Registered' -> Account]
    BY <2>1, <2>3, SponsorFacts
  <2>5. net' \in [Paymasters -> Int] /\ net'[p] = net[p] + d /\ \A q \in Paymasters : q # p => net'[q] = net[q]
    BY <1>4, SponsorFacts
  <2>6. \A q \in Registered' : accounts'[q].balance = net'[q]
    BY <1>4, <2>1, <2>3, <2>5, SponsorFacts
  <2>7. \A q \in Registered : accounts'[q].sponsored = accounts[q].sponsored
    BY <2>1, <2>3
  <2>8. \A q \in Paymasters \ Registered' : net'[q] = net[q]
    BY <1>4, <2>1, <2>5
  <2> QED BY <1>2, <2>1, <2>4, <2>5, <2>6, <2>7, <2>8, SponsorFacts, QuietKeeps
<1>5. CASE Deposit(p, amount)
  <2>1. amount \in Int /\ p \in Registered /\ accounts[p].balance + amount >= 0
    BY <1>1, <1>5, SponsorFacts DEF Deposit
  <2> QED BY <1>4, <1>5, <2>1 DEF Deposit
<1>6. CASE Withdraw(p, amount)
  <2>1. PICK d \in Int : d = - amount
    BY <1>1
  <2>2. p \in Registered /\ accounts[p].balance + d >= 0
    BY <1>1, <1>6, <2>1, SponsorFacts DEF Withdraw
  <2>3. accounts' = [accounts EXCEPT ![p].balance = @ + d]
    <3>1. accounts[p].balance - amount = accounts[p].balance + d
      BY <1>1, <2>1, <2>2, SponsorFacts
    <3> QED BY <1>6, <3>1 DEF Withdraw
  <2>4. net' = [net EXCEPT ![p] = @ + d]
    <3>1. net[p] - amount = net[p] + d
      BY <1>1, <2>1, SponsorFacts
    <3> QED BY <1>6, <3>1 DEF Withdraw
  <2> QED BY <1>4, <2>2, <2>3, <2>4
<1> QED BY <1>3, <1>5, <1>6

\* The steps that switch vouchers off, and the next block: of an account only the
\* count of vouchers changes.
LEMMA SwitchKeeps ==
    ASSUME SponsorInv, SwitchedOff(vouchers, vouchers'), usage' = usage, net' = net,
           height' \in Nat, height <= height',
           accounts' = [p \in Registered |-> accounts'[p]],
           \A p \in Registered : \E n \in Int : accounts'[p] = [accounts[p] EXCEPT !.active = n]
    PROVE  SponsorInv' /\ EndedStay
<1>1. Registered' = Registered
  BY DEF Registered
<1>2. ASSUME NEW p \in Registered
      PROVE  /\ accounts'[p] \in Account /\ accounts'[p].balance = accounts[p].balance
             /\ accounts'[p].sponsored = accounts[p].sponsored
  <2>1. accounts[p] \in Account
    BY SponsorFacts
  <2> QED BY <2>1 DEF Account
<1>3. accounts' \in [Registered' -> Account]
  BY <1>1, <1>2
<1> QED BY <1>1, <1>2, <1>3, SponsorFacts, QuietKeeps

\* Accounts as they were.
LEMMA SameAccounts ==
    ASSUME SponsorInv, accounts' = accounts
    PROVE  /\ accounts' = [p \in Registered |-> accounts'[p]]
           /\ \A p \in Registered : \E n \in Int : accounts'[p] = [accounts[p] EXCEPT !.active = n]
<1>1. accounts = [p \in Registered |-> accounts[p]]
  BY SponsorFacts
<1>2. ASSUME NEW p \in Registered
      PROVE  \E n \in Int : accounts[p] = [accounts[p] EXCEPT !.active = n]
  <2>1. accounts[p] \in Account
    BY SponsorFacts
  <2>2. accounts[p] = [accounts[p] EXCEPT !.active = accounts[p].active] /\ accounts[p].active \in Int
    BY <2>1 DEF Account
  <2> QED BY <2>2
<1> QED BY <1>1, <1>2

\* One voucher switched off.
LEMMA OneOff ==
    ASSUME NEW V \in Seq(Voucher), NEW x \in DOMAIN V, NEW W, W = [V EXCEPT ![x].active = FALSE]
    PROVE  SwitchedOff(V, W)
<1>1. W = [v \in DOMAIN V |-> W[v]]
  OBVIOUS
<1>2. ASSUME NEW v \in DOMAIN V
      PROVE  \E b \in BOOLEAN : W[v] = [V[v] EXCEPT !.active = b] /\ (b => V[v].active)
  <2>1. V[v] \in Voucher
    BY ElementOfSeq, LenProperties
  <2>2. CASE v = x
    <3>1. W[v] = [V[v] EXCEPT !.active = FALSE]
      BY <2>2
    <3> QED BY <3>1
  <2>3. CASE v # x
    <3>1. V[v].active \in BOOLEAN /\ W[v] = [V[v] EXCEPT !.active = V[v].active]
      BY <2>1, <2>3 DEF Voucher
    <3> QED BY <3>1
  <2> QED BY <2>2, <2>3
<1> QED BY <1>1, <1>2, SwitchingOff

\* revokeVoucher, and useVoucher of an expired voucher.
LEMMA EndsOne ==
    ASSUME SponsorInv, NEW v \in DOMAIN vouchers, RevokeVoucher(v) \/ UseExpired(v)
    PROVE  SponsorInv' /\ EndedStay
<1>1. /\ vouchers' = [vouchers EXCEPT ![v].active = FALSE] /\ usage' = usage /\ net' = net
      /\ height' = height
  BY DEF RevokeVoucher, UseExpired
<1>2. SwitchedOff(vouchers, vouchers')
  <2>1. PICK V, W : V = vouchers /\ W = vouchers'
    OBVIOUS
  <2>2. V \in Seq(Voucher) /\ v \in DOMAIN V /\ W = [V EXCEPT ![v].active = FALSE]
    BY <1>1, <2>1, SponsorFacts
  <2>3. SwitchedOff(V, W)
    BY <2>2, OneOff
  <2> QED BY <2>1, <2>3
<1>3. /\ accounts' = [p \in Registered |-> accounts'[p]]
      /\ \A p \in Registered : \E n \in Int : accounts'[p] = [accounts[p] EXCEPT !.active = n]
  <2>1. CASE UseExpired(v)
    BY <2>1, SameAccounts DEF UseExpired
  <2>2. CASE RevokeVoucher(v)
    <3>1. PICK q : q = vouchers[v].paymaster
      OBVIOUS
    <3>2. q \in Registered /\ accounts' = [accounts EXCEPT ![q].active = @ - 1]
      BY <2>2, <3>1, SponsorFacts DEF RevokeVoucher
    <3>3. accounts' = [p \in Registered |-> accounts'[p]]
      BY <3>2, SponsorFacts DEF Registered
    <3>4. ASSUME NEW p \in Registered
          PROVE  \E n \in Int : accounts'[p] = [accounts[p] EXCEPT !.active = n]
      <4>1. accounts[p] \in Account /\ accounts[p].active \in Int
        BY SponsorFacts
      <4>2. CASE p = q
        <5>1. accounts'[p] = [accounts[p] EXCEPT !.active = accounts[p].active - 1]
          BY <3>2, <4>2 DEF Registered
        <5> QED BY <4>1, <5>1
      <4>3. CASE p # q
        <5>1. accounts'[p] = [accounts[p] EXCEPT !.active = accounts[p].active]
          BY <3>2, <4>1, <4>3 DEF Registered, Account
        <5> QED BY <4>1, <5>1
      <4> QED BY <4>2, <4>3
    <3> QED BY <3>3, <3>4
  <2> QED BY <2>1, <2>2
<1> QED BY <1>1, <1>2, <1>3, SwitchKeeps, SponsorFacts

\* validateSponsorship, which switches off what it finds expired, and cleanupExpired.
LEMMA EndsSome ==
    ASSUME SponsorInv,
           (\E s \in Senders, p \in Paymasters, gas \in Gas : ValidateSponsorship(s, p, gas)) \/ CleanupExpired
    PROVE  SponsorInv' /\ EndedStay
<1>1. CASE \E s \in Senders, p \in Paymasters, gas \in Gas : ValidateSponsorship(s, p, gas)
  <2>1. PICK s \in Senders, p \in Paymasters, gas \in Gas : ValidateSponsorship(s, p, gas)
    BY <1>1
  <2> DEFINE Expires(v) == /\ v \in Tried(s, p, gas)
                           /\ vouchers[v].paymaster = p /\ vouchers[v].beneficiary = s
                           /\ vouchers[v].expiresAt <= height
  <2>2. /\ vouchers' = [v \in DOMAIN vouchers |-> [vouchers[v] EXCEPT !.active = @ /\ ~ Expires(v)]]
        /\ accounts' = accounts /\ usage' = usage /\ net' = net /\ height' = height
    BY <2>1 DEF ValidateSponsorship
  <2> HIDE DEF Expires
  <2>3. SwitchedOff(vouchers, vouchers')
    <3>1. PICK V, W : V = vouchers /\ W = vouchers'
      OBVIOUS
    <3>2. W = [v \in DOMAIN V |-> W[v]]
      BY <2>2, <3>1
    <3>3. ASSUME NEW v \in DOMAIN V
          PROVE  \E b \in BOOLEAN : W[v] = [V[v] EXCEPT !.active = b] /\ (b => V[v].active)
      <4>1. W[v] = [V[v] EXCEPT !.active = V[v].active /\ ~ Expires(v)]
        BY <2>2, <3>1, <3>3
      <4>2. (V[v].active /\ ~ Expires(v)) \in BOOLEAN
        OBVIOUS
      <4> QED BY <4>1, <4>2
    <3>4. V \in Seq(Voucher)
      BY <3>1, SponsorFacts
    <3>5. SwitchedOff(V, W)
      BY <3>2, <3>3, <3>4, SwitchingOff
    <3> QED BY <3>1, <3>5
  <2>4. /\ accounts' = [q \in Registered |-> accounts'[q]]
        /\ \A q \in Registered : \E n \in Int : accounts'[q] = [accounts[q] EXCEPT !.active = n]
    BY <2>2, SameAccounts
  <2> QED BY <2>2, <2>3, <2>4, SwitchKeeps, SponsorFacts
<1>2. CASE CleanupExpired
  <2> DEFINE Ends(v) == vouchers[v].active /\ vouchers[v].expiresAt <= height
             Ended(p) == {v \in OfPaymaster(p) : Ends(v)}
  <2>1. /\ vouchers' = [v \in DOMAIN vouchers |-> [vouchers[v] EXCEPT !.active = @ /\ ~ Ends(v)]]
        /\ accounts' = [p \in Registered |-> [accounts[p] EXCEPT !.active = @ - Cardinality(Ended(p))]]
        /\ usage' = usage /\ net' = net /\ height' = height
    BY <1>2 DEF CleanupExpired
  <2>2. ASSUME NEW p PROVE Cardinality(Ended(p)) \in Nat
    <3>1. PICK n \in Nat : DOMAIN vouchers = 1..n
      BY SponsorFacts, LenProperties
    <3>2. IsFiniteSet(DOMAIN vouchers) /\ Ended(p) \subseteq DOMAIN vouchers
      BY <3>1, FS_Interval DEF OfPaymaster
    <3> QED BY <3>2, FS_Subset, FS_CardinalityType
  <2> HIDE DEF Ends, Ended
  <2>3. SwitchedOff(vouchers, vouchers')
    <3>1. PICK V, W : V = vouchers /\ W = vouchers'
      OBVIOUS
    <3>2. W = [v \in DOMAIN V |-> W[v]]
      BY <2>1, <3>1
    <3>3. ASSUME NEW v \in DOMAIN V
          PROVE  \E b \in BOOLEAN : W[v] = [V[v] EXCEPT !.active = b] /\ (b => V[v].active)
      <4>1. W[v] = [V[v] EXCEPT !.active = V[v].active /\ ~ Ends(v)]
        BY <2>1, <3>1, <3>3
      <4>2. (V[v].active /\ ~ Ends(v)) \in BOOLEAN
        OBVIOUS
      <4> QED BY <4>1, <4>2
    <3>4. V \in Seq(Voucher)
      BY <3>1, SponsorFacts
    <3>5. SwitchedOff(V, W)
      BY <3>2, <3>3, <3>4, SwitchingOff
    <3> QED BY <3>1, <3>5
  <2>4. /\ accounts' = [p \in Registered |-> accounts'[p]]
        /\ \A p \in Registered : \E n \in Int : accounts'[p] = [accounts[p] EXCEPT !.active = n]
    <3>1. ASSUME NEW p \in Registered
          PROVE  \E n \in Int : accounts'[p] = [accounts[p] EXCEPT !.active = n]
      <4>1. PICK k \in Nat : k = Cardinality(Ended(p))
        BY <2>2
      <4>2. accounts'[p] = [accounts[p] EXCEPT !.active = accounts[p].active - k]
        BY <2>1, <4>1
      <4>3. accounts[p].active - k \in Int
        BY <4>1, SponsorFacts
      <4> QED BY <4>2, <4>3
    <3> QED BY <2>1, <3>1
  <2>5. usage' = usage /\ net' = net /\ height' \in Nat /\ height <= height'
    BY <2>1, SponsorFacts
  <2> QED BY ONLY SponsorInv, <2>3, <2>4, <2>5, SwitchKeeps
<1> QED BY <1>1, <1>2

\* The next block, at which vouchers expire.
LEMMA BlockPasses ==
    ASSUME SponsorInv, NextBlock
    PROVE  SponsorInv' /\ EndedStay
<1>1. /\ vouchers' = vouchers /\ usage' = usage /\ net' = net /\ accounts' = accounts
      /\ height' \in Nat /\ height <= height'
  BY SponsorFacts DEF NextBlock
<1>2. SwitchedOff(vouchers, vouchers')
  BY <1>1, NoneSwitched, SponsorFacts
<1> QED BY <1>1, <1>2, SameAccounts, SwitchKeeps

\* createVoucher: no log entry names the new voucher.
LEMMA VoucherMade ==
    ASSUME SponsorInv, NEW p \in Paymasters, NEW s \in Senders, NEW g \in GasLimits, NEW l \in Lifetimes,
           NEW single \in BOOLEAN, CreateVoucher(p, s, g, l, single)
    PROVE  SponsorInv' /\ EndedStay
<1>1. PICK w : w = [paymaster |-> p, beneficiary |-> s, maxGas |-> g, usedGas |-> 0,
                    expiresAt |-> height + l, singleUse |-> single, active |-> TRUE]
  OBVIOUS
<1>2. w \in Voucher /\ w.usedGas = 0 /\ w.maxGas \in Nat /\ w.paymaster = p
  <2>1. g \in Nat /\ height + l \in Nat
    BY SponsorFacts, PaymasterAssumption
  <2> QED BY <1>1, <2>1 DEF Voucher
<1>3. /\ p \in Registered /\ vouchers' = Append(vouchers, w)
      /\ accounts' = [accounts EXCEPT ![p].active = @ + 1]
      /\ usage' = usage /\ net' = net /\ height' = height
  BY <1>1 DEF CreateVoucher
<1>4. PICK n \in Nat : n = Len(vouchers)
  BY SponsorFacts, LenProperties
<1>5. /\ vouchers' \in Seq(Voucher) /\ DOMAIN vouchers' = 1..(n + 1) /\ DOMAIN vouchers = 1..n
      /\ vouchers'[n + 1] = w /\ \A v \in 1..n : vouchers'[v] = vouchers[v]
  BY <1>2, <1>3, <1>4, SponsorFacts, AppendProperties, LenProperties
<1>6. /\ Registered' = Registered /\ accounts' \in [Registered -> Account]
      /\ \A q \in Registered : accounts'[q].balance = accounts[q].balance
                               /\ accounts'[q].sponsored = accounts[q].sponsored
  <2>1. accounts[p] \in Account /\ accounts[p].active + 1 \in Int
    BY <1>3, SponsorFacts
  <2>2. /\ accounts' = [q \in Registered |-> accounts'[q]]
        /\ \A q \in Registered : q # p => accounts'[q] = accounts[q]
        /\ accounts'[p] = [accounts[p] EXCEPT !.active = accounts[p].active + 1]
    BY <1>3, SponsorFacts DEF Registered
  <2>3. accounts'[p] \in Account /\ accounts'[p].balance = accounts[p].balance
        /\ accounts'[p].sponsored = accounts[p].sponsored
    BY <2>1, <2>2 DEF Account
  <2>4. Registered' = Registered
    BY <2>2 DEF Registered
  <2> QED BY <2>2, <2>3, <2>4, SponsorFacts
<1>7. \A k \in DOMAIN usage : usage[k] \in (1..n) \X Gas
  BY <1>5 DEF SponsorInv, SponsorTypes, TypeOK
<1>8. SponsorTypes'
  <2>1. \A k \in DOMAIN usage' : usage'[k] \in (DOMAIN vouchers') \X Gas
    BY <1>3, <1>5, <1>7
  <2>2. \A v \in DOMAIN vouchers' : vouchers'[v].paymaster \in Registered'
    BY <1>2, <1>3, <1>4, <1>5, <1>6, SponsorFacts
  <2> QED BY <1>3, <1>5, <1>6, <2>1, <2>2, SponsorFacts DEF SponsorTypes, TypeOK
<1>9. VouchersOK'
  <2>1. \A v : Uses(v)' = Uses(v)
    BY <1>3 DEF Uses
  <2>2. Uses(n + 1) = {} /\ Cardinality(Uses(n + 1)) = 0
    <3>1. \A k \in DOMAIN usage : usage[k][1] \in 1..n
      BY <1>7
    <3>2. Uses(n + 1) = {}
      BY <1>4, <3>1 DEF Uses
    <3> QED BY <3>2, FS_EmptySet
  <2>3. ASSUME NEW v \in DOMAIN vouchers'
        PROVE  /\ vouchers'[v].usedGas <= vouchers'[v].maxGas
               /\ vouchers'[v].singleUse => Cardinality(Uses(v)) <= 1
               /\ vouchers'[v].singleUse /\ vouchers'[v].active => Uses(v) = {}
    <3>1. CASE v \in 1..n
      BY <1>5, <3>1 DEF SponsorInv, VouchersOK
    <3>2. CASE v = n + 1
      BY <1>2, <1>5, <2>2, <3>2
    <3> QED BY <1>4, <1>5, <3>1, <3>2
  <2> QED BY <2>1, <2>3 DEF VouchersOK
<1>10. AccountsOK'
  <2>1. ASSUME NEW q PROVE Paid(vouchers', q) = Paid(vouchers, q)
    BY <1>2, <1>3, SponsorFacts, PaidNew
  <2> QED BY <1>3, <1>6, <2>1 DEF SponsorInv, AccountsOK
<1>11. EndedStay
  BY <1>3, <1>5 DEF EndedStay, Alive
<1> QED BY <1>8, <1>9, <1>10, <1>11 DEF SponsorInv

\* useVoucher: the voucher pays, and one for a single use has not been used before.
LEMMA VoucherPays ==
    ASSUME SponsorInv, NEW x \in DOMAIN vouchers, NEW gas \in Gas, UseVoucher(x, gas)
    PROVE  SponsorInv' /\ EndedStay
<1>1. PICK p : p = vouchers[x].paymaster
  OBVIOUS
<1>2. /\ Alive(x) /\ vouchers[x].maxGas - vouchers[x].usedGas >= gas /\ accounts[p].balance >= gas
      /\ vouchers' = Spend(x, gas) /\ usage' = Append(usage, <<x, gas>>) /\ height' = height
      /\ accounts' = [accounts EXCEPT ![p] = Charge(@, x, gas)]
      /\ net' = [net EXCEPT ![p] = @ - gas]
  BY <1>1 DEF UseVoucher, CanUse, Left
<1>3. gas \in Nat /\ p \in Registered /\ p \in Paymasters /\ vouchers[x] \in Voucher
  BY <1>1, SponsorFacts, PaymasterAssumption
<1>4. /\ vouchers' = [v \in DOMAIN vouchers |-> vouchers'[v]]
      /\ \A v \in DOMAIN vouchers : v # x => vouchers'[v] = vouchers[v]
      /\ vouchers'[x] = [vouchers[x] EXCEPT !.usedGas = vouchers[x].usedGas + gas,
                                            !.active = ~ vouchers[x].singleUse]
  <2>1. PICK V, W : V = vouchers /\ W = vouchers'
    OBVIOUS
  <2>2. x \in DOMAIN V /\ W = [V EXCEPT ![x].usedGas = @ + gas, ![x].active = ~ V[x].singleUse]
    BY <1>2, <2>1 DEF Spend
  <2>3. /\ W = [v \in DOMAIN V |-> W[v]]
        /\ \A v \in DOMAIN V : v # x => W[v] = V[v]
        /\ W[x] = [V[x] EXCEPT !.usedGas = V[x].usedGas + gas, !.active = ~ V[x].singleUse]
    BY <2>2
  <2> QED BY <2>1, <2>3
<1>5. /\ vouchers'[x] \in Voucher /\ SameTerms(vouchers[x], vouchers'[x])
      /\ vouchers'[x].usedGas = vouchers[x].usedGas + gas
      /\ vouchers'[x].active = ~ vouchers[x].singleUse
      /\ vouchers[x].usedGas \in Nat /\ vouchers[x].maxGas \in Nat /\ vouchers[x].singleUse \in BOOLEAN
  <2>1. vouchers[x].usedGas + gas \in Nat /\ (~ vouchers[x].singleUse) \in BOOLEAN
    BY <1>3 DEF Voucher
  <2> QED BY <1>3, <1>4, <2>1 DEF Voucher, SameTerms
<1>6. vouchers' \in Seq(Voucher) /\ DOMAIN vouchers' = DOMAIN vouchers
  <2>1. PICK V, W : V = vouchers /\ W = vouchers'
    OBVIOUS
  <2>2. V \in Seq(Voucher) /\ W = [v \in DOMAIN V |-> W[v]] /\ \A v \in DOMAIN V : W[v] \in Voucher
    BY <1>4, <1>5, <2>1, SponsorFacts
  <2>3. W \in Seq(Voucher) /\ DOMAIN W = DOMAIN V
    BY <2>2, SameLength
  <2> QED BY <2>1, <2>3
<1>7. /\ Registered' = Registered /\ accounts' \in [Registered -> Account]
      /\ accounts'[p].balance = accounts[p].balance - gas
      /\ accounts'[p].sponsored = accounts[p].sponsored + gas
      /\ \A q \in Registered : q # p => accounts'[q] = accounts[q]
  <2>1. accounts[p] \in Account
    BY <1>3, SponsorFacts
  <2>2. PICK k \in Int : k = (IF vouchers[x].singleUse THEN accounts[p].active - 1 ELSE accounts[p].active)
    <3>1. accounts[p].active \in Int /\ accounts[p].active - 1 \in Int
      BY <1>3, SponsorFacts
    <3> QED BY <1>5, <3>1
  <2>3. /\ accounts' = [q \in Registered |-> accounts'[q]]
        /\ \A q \in Registered : q # p => accounts'[q] = accounts[q]
        /\ accounts'[p] = Charge(accounts[p], x, gas)
    BY <1>2, <1>3 DEF Registered
  <2>4. accounts'[p] = [accounts[p] EXCEPT !.balance = accounts[p].balance - gas,
                                           !.sponsored = accounts[p].sponsored + gas, !.active = k]
    BY <2>2, <2>3 DEF Charge
  <2>5. accounts[p].balance - gas \in Nat /\ accounts[p].sponsored + gas \in Nat
    BY <1>2, <1>3, SponsorFacts
  <2>6. accounts'[p] \in Account /\ accounts'[p].balance = accounts[p].balance - gas
        /\ accounts'[p].sponsored = accounts[p].sponsored + gas
    BY <2>1, <2>4, <2>5 DEF Account
  <2>7. Registered' = Registered
    BY <2>3 DEF Registered
  <2> QED BY <2>3, <2>6, <2>7, SponsorFacts
<1>8. PICK m \in Nat : m = Len(usage)
  BY SponsorFacts, LenProperties
<1>9. x \in Nat
  <2>1. DOMAIN vouchers \subseteq Nat
    BY SponsorFacts, LenProperties
  <2> QED BY <2>1
<1>10. /\ usage' \in Seq(Nat \X Nat) /\ DOMAIN usage' = 1..(m + 1) /\ DOMAIN usage = 1..m
       /\ usage'[m + 1] = <<x, gas>> /\ \A k \in 1..m : usage'[k] = usage[k]
  <2>1. <<x, gas>> \in Nat \X Nat
    BY <1>3, <1>9
  <2> QED BY <1>2, <1>8, <2>1, SponsorFacts, AppendProperties, LenProperties
<1>11. SponsorTypes'
  <2>1. \A k \in DOMAIN usage' : usage'[k] \in (DOMAIN vouchers') \X Gas
    <3>1. \A k \in 1..m : usage[k] \in (DOMAIN vouchers) \X Gas
      BY <1>10 DEF SponsorInv, SponsorTypes, TypeOK
    <3>2. <<x, gas>> \in (DOMAIN vouchers) \X Gas
      OBVIOUS
    <3>3. ASSUME NEW k \in DOMAIN usage' PROVE usage'[k] \in (DOMAIN vouchers) \X Gas
      <4>1. k \in 1..m \/ k = m + 1
        BY <1>8, <1>10
      <4> QED BY <1>10, <3>1, <3>2, <4>1
    <3> QED BY <1>6, <3>3
  <2>2. \A v \in DOMAIN vouchers' : vouchers'[v].paymaster \in Registered'
    BY <1>4, <1>5, <1>6, <1>7, SponsorFacts DEF SameTerms
  <2>3. net' \in [Paymasters -> Int]
    BY <1>2, <1>3, SponsorFacts
  <2> QED BY <1>2, <1>6, <1>7, <1>10, <2>1, <2>2, <2>3, SponsorFacts DEF SponsorTypes, TypeOK
<1>12. VouchersOK'
  <2>1. ASSUME NEW v \in DOMAIN vouchers, v # x PROVE Uses(v)' = Uses(v)
    BY <1>8, <1>10, <2>1 DEF Uses
  <2>2. Uses(x)' = Uses(x) \cup {m + 1}
    BY <1>8, <1>10 DEF Uses
  <2>3. ASSUME NEW v \in DOMAIN vouchers'
        PROVE  /\ vouchers'[v].usedGas <= vouchers'[v].maxGas
               /\ vouchers'[v].singleUse => Cardinality(Uses(v)') <= 1
               /\ vouchers'[v].singleUse /\ vouchers'[v].active => Uses(v)' = {}
    <3>1. CASE v # x
      BY <1>4, <1>6, <2>1, <3>1 DEF SponsorInv, VouchersOK
    <3>2. CASE v = x
      <4>1. vouchers'[x].usedGas <= vouchers'[x].maxGas
        BY <1>2, <1>3, <1>5 DEF SameTerms
      <4>2. ASSUME vouchers'[x].singleUse
            PROVE  Cardinality(Uses(x)') <= 1 /\ ~ vouchers'[x].active
        <5>1. vouchers[x].singleUse /\ vouchers[x].active
          BY <1>2, <1>5, <4>2 DEF SameTerms, Alive
        <5>2. Uses(x) = {}
          BY <5>1 DEF SponsorInv, VouchersOK
        <5>3. Uses(x)' = {m + 1} /\ Cardinality({m + 1}) = 1
          BY <2>2, <5>2, FS_Singleton
        <5>4. ~ vouchers'[x].active
          BY <1>5, <5>1
        <5> QED BY <5>3, <5>4
      <4> QED BY <3>2, <4>1, <4>2
    <3> QED BY <3>1, <3>2
  <2> QED BY <2>3 DEF VouchersOK
<1>13. AccountsOK'
  <2>1. ASSUME NEW q PROVE Paid(vouchers', q) = Paid(vouchers, q) + (IF p = q THEN gas ELSE 0)
    <3>1. PICK V, W : V = vouchers /\ W = vouchers'
      OBVIOUS
    <3>2. /\ V \in Seq(Voucher) /\ W \in Seq(Voucher) /\ DOMAIN W = DOMAIN V /\ x \in DOMAIN V
          /\ W[x].usedGas = V[x].usedGas + gas /\ W[x].paymaster = V[x].paymaster
          /\ \A v \in DOMAIN V : v # x => W[v] = V[v]
      BY <1>4, <1>5, <1>6, <3>1, SponsorFacts DEF SameTerms
    <3>3. Paid(W, q) = Paid(V, q) + (IF V[x].paymaster = q THEN gas ELSE 0)
      BY ONLY <1>3, <3>2, PaidMore
    <3> QED BY <1>1, <3>1, <3>3
  <2>2. /\ net'[p] = net[p] - gas
        /\ \A q \in Paymasters : q # p => net'[q] = net[q]
    BY <1>2, <1>3, SponsorFacts
  <2>3. ASSUME NEW q \in Registered
        PROVE  accounts'[q].balance = net'[q] /\ accounts'[q].sponsored = Paid(vouchers', q)
    <3>1. Paid(vouchers, q) \in Int /\ accounts[q].balance = net[q] /\ accounts[q].sponsored = Paid(vouchers, q)
      BY SponsorFacts, PaidSums DEF SponsorInv, AccountsOK
    <3>2. CASE q = p
      BY <1>3, <1>7, <2>1, <2>2, <3>1, <3>2
    <3>3. CASE q # p
      BY <1>7, <2>1, <2>2, <2>3, <3>1, <3>3, SponsorFacts
    <3> QED BY <3>2, <3>3
  <2>4. \A q \in Paymasters \ Registered : net'[q] = 0
    BY <1>3, <2>2 DEF SponsorInv, AccountsOK
  <2> QED BY <1>7, <2>3, <2>4 DEF AccountsOK
<1>14. EndedStay
  BY <1>2, <1>4, <1>6 DEF EndedStay, Alive
<1> QED BY <1>11, <1>12, <1>13, <1>14 DEF SponsorInv

\* No account and no voucher.
LEMMA SponsorStarts == SponsorInit => SponsorInv
<1> SUFFICES ASSUME SponsorInit PROVE SponsorInv
  OBVIOUS
<1>1. /\ accounts = [p \in {} |-> 0] /\ vouchers = <<>> /\ usage = <<>>
      /\ net = [p \in Paymasters |-> 0] /\ height = 0
  BY DEF SponsorInit, Init
<1>2. Registered = {} /\ DOMAIN vouchers = {} /\ DOMAIN usage = {}
  BY <1>1 DEF Registered
<1>3. /\ vouchers \in Seq(Voucher) /\ usage \in Seq(Nat \X Nat)
  BY <1>1, EmptySeq
<1>4. accounts \in [Registered -> Account] /\ net \in [Paymasters -> Int]
  BY <1>1, <1>2
<1> QED BY <1>1, <1>2, <1>3, <1>4 DEF SponsorInv, SponsorTypes, TypeOK, VouchersOK, AccountsOK

\* Every step, of the paymaster's part and of the balances', which leaves it alone
\* or passes a block.
LEMMA SponsorStep ==
    SponsorInv /\ [SponsorNext]_<<vars, economy, part>> => SponsorInv' /\ EndedStay
<1> SUFFICES ASSUME SponsorInv, [SponsorNext]_<<vars, economy, part>>
             PROVE  SponsorInv' /\ EndedStay
  OBVIOUS
<1>1. CASE UNCHANGED vars
  <2>1. /\ vouchers' = vouchers /\ usage' = usage /\ net' = net /\ accounts' = accounts /\ height' = height
    BY <1>1 DEF vars
  <2>2. SwitchedOff(vouchers, vouchers') /\ height' \in Nat /\ height <= height'
    BY <2>1, NoneSwitched, SponsorFacts
  <2> QED BY <2>1, <2>2, SameAccounts, SwitchKeeps
<1>2. CASE Next
  <2>1. CASE \E p \in Paymasters, amount \in Amounts :
                Register(p, amount) \/ Deposit(p, amount) \/ Withdraw(p, amount)
    BY <2>1, MoneyMoves
  <2>2. CASE \E p \in Paymasters, s \in Senders, g \in GasLimits, l \in Lifetimes, single \in BOOLEAN :
                CreateVoucher(p, s, g, l, single)
    BY <2>2, VoucherMade
  <2>3. CASE \E v \in DOMAIN vouchers : RevokeVoucher(v) \/ UseExpired(v)
    BY <2>3, EndsOne
  <2>4. CASE \E v \in DOMAIN vouchers, gas \in Gas : UseVoucher(v, gas)
    BY <2>4, VoucherPays
  <2>5. CASE \/ \E s \in Senders, p \in Paymasters, gas \in Gas : ValidateSponsorship(s, p, gas)
             \/ CleanupExpired
    BY <2>5, EndsSome
  <2>6. CASE NextBlock
    BY <2>6, BlockPasses
  <2> QED BY <1>2, <2>1, <2>2, <2>3, <2>4, <2>5, <2>6 DEF Next
<1>3. CASE NextBlock
  BY <1>3, BlockPasses
<1> QED BY <1>1, <1>2, <1>3 DEF SponsorNext

\* What the invariant says of accounts and vouchers.
LEMMA SponsorsImply == SponsorInv => SponsorshipsAddUp
<1> SUFFICES ASSUME SponsorInv PROVE SponsorshipsAddUp
  OBVIOUS
<1>1. ASSUME NEW v \in DOMAIN vouchers
      PROVE  /\ vouchers[v].usedGas <= vouchers[v].maxGas
             /\ vouchers[v].singleUse => Cardinality({k \in DOMAIN usage : usage[k][1] = v}) <= 1
  BY DEF SponsorInv, VouchersOK, Uses
<1>2. ASSUME NEW p \in Registered
      PROVE  /\ accounts[p].balance = net[p]
             /\ accounts[p].sponsored =
                  SumFunctionOnSet([v \in DOMAIN vouchers |-> vouchers[v].usedGas], OfPaymaster(p))
  BY DEF SponsorInv, AccountsOK, Paid, UsedOf, Of, OfPaymaster
<1>3. BooksBalance
  BY <1>1, <1>2 DEF BooksBalance, SponsorInv, SponsorTypes
<1>4. ValidCanBeUsed
  BY DEF ValidCanBeUsed, Valid, CanUse, Offers
<1> QED BY <1>3, <1>4 DEF SponsorshipsAddUp

\* Sponsorships add up: whatever is validated, used, revoked and expires in between,
\* no voucher pays more than its gas, one for a single use pays once, and the books
\* of a paymaster say what was paid (validateSponsorship, useVoucher).
THEOREM SponsorshipsAreTrue == SponsorSpec => []SponsorshipsAddUp
<1>1. SponsorInit => SponsorInv
  BY SponsorStarts
<1>2. SponsorInv /\ [SponsorNext]_<<vars, economy, part>> => SponsorInv'
  BY SponsorStep
<1>3. SponsorInv => SponsorshipsAddUp
  BY SponsorsImply
<1> QED BY <1>1, <1>2, <1>3, PTL DEF SponsorSpec

\* A voucher that was spent or revoked, or has expired, pays for nothing more and
\* is not active again (useVoucher, revokeVoucher, cleanupExpired).
THEOREM EndedVouchersPayNothing == SponsorSpec => EndedVouchersStay
<1>1. SponsorInit => SponsorInv
  BY SponsorStarts
<1>2. SponsorInv /\ [SponsorNext]_<<vars, economy, part>> => SponsorInv'
  BY SponsorStep
<1>3. SponsorInv /\ [SponsorNext]_<<vars, economy, part>> =>
        [\A v \in DOMAIN vouchers :
            ~ (vouchers[v].active /\ vouchers[v].expiresAt > height) =>
            vouchers'[v].usedGas = vouchers[v].usedGas
            /\ ~ (vouchers[v].active /\ vouchers[v].expiresAt > height)']_<<vouchers, usage, height>>
  BY SponsorStep DEF EndedStay, Alive
<1> QED BY <1>1, <1>2, <1>3, PTL DEF SponsorSpec, EndedVouchersStay


-----------------------------------------------------------------------------
(* The balances: money that calls have taken and not yet said.               *)

Rent == [state : RentStates, payer : Payers, perBlock : Nat, active : BOOLEAN,
         lastPaidHeight : Nat, overtaken : BOOLEAN]
Fee == [op : {"fee"}, fee : Nat]
Collecting == [op : {"debited", "settled"}, height : Nat, at : Nat, record : Nat, ok : BOOLEAN,
               total : Nat, owed : SUBSET Nat]
Asking == [op : {"asks", "resumes"}, record : Nat]
Jobs == {Idle} \cup Fee \cup Collecting \cup Asking

EconomyTypes ==
    /\ balances \in [Addresses -> Nat] /\ issued \in Int /\ fees \in [total : Int, kept : Int]
    /\ collected \in Int /\ call \in [Calls -> Jobs]

(* The records R, the order o of their states and the record S of each: a state's *)
(* record is the one registered last, or one whose debit was awaited meanwhile. *)
Newest(R, r) == \A q \in DOMAIN R : R[q].state = R[r].state => q <= r
Stands(R, r) == Newest(R, r) \/ R[r].overtaken
RefsOK(R, o, S) ==
    /\ R \in Seq(Rent) /\ o \in Seq(RentStates) /\ S \in [RentStates -> Nat]
    /\ \A s \in RentStates : S[s] # 0 =>
          /\ S[s] \in DOMAIN R /\ R[S[s]].state = s /\ Stands(R, S[s])
          /\ \E j \in DOMAIN o : o[j] = s
    /\ \A r \in DOMAIN R : S[R[r].state] # 0
    /\ \A j \in DOMAIN o : S[o[j]] # 0

(* What the job k refers to, and that what it owes is still before it.         *)
Ahead(R, o, S, r, n) ==
    /\ r \in DOMAIN R /\ R[r].active /\ S[R[r].state] = r
    /\ \E j \in DOMAIN o : j > n /\ o[j] = R[r].state
JobOK(k, R, o, S) ==
    /\ k.op \in {"debited", "settled", "asks", "resumes"} => k.record \in DOMAIN R
    /\ k.op = "debited" => Stands(R, k.record)
    /\ k.op \in {"debited", "settled"} =>
          \A r \in k.owed : Ahead(R, o, S, r, k.at) \/ (k.op = "debited" /\ r = k.record)

DueOf == [c \in Calls |-> Due(c)]
EconomyInv ==
    /\ EconomyTypes /\ RefsOK(records, order, stored)
    /\ \A c \in Calls : JobOK(call[c], records, order, stored)
    /\ issued = SumFunctionOnSet(balances, Addresses) + collected + fees.kept
                + SumFunctionOnSet(DueOf, Calls)

\* Jobs are told apart by their op.
LEMMA JobKinds ==
    ASSUME NEW k \in Jobs
    PROVE  /\ k.op = "fee" => k \in Fee
           /\ k.op \in {"debited", "settled"} => k \in Collecting
           /\ k.op \in {"asks", "resumes"} => k \in Asking
           /\ k.op \in {"idle", "fee", "debited", "settled", "asks", "resumes"}
BY DEF Jobs, Idle, Fee, Collecting, Asking

\* What the invariant says of the records.
LEMMA RecordFacts ==
    ASSUME NEW R, NEW o, NEW S, RefsOK(R, o, S)
    PROVE  /\ Len(R) \in Nat /\ DOMAIN R = 1..Len(R) /\ Len(o) \in Nat /\ DOMAIN o = 1..Len(o)
           /\ \A r \in DOMAIN R : /\ R[r] \in Rent /\ R[r].state \in RentStates /\ R[r].payer \in Payers
                                  /\ R[r].perBlock \in Nat
           /\ \A j \in DOMAIN o : o[j] \in RentStates /\ S[o[j]] \in DOMAIN R /\ R[S[o[j]]].state = o[j]
<1>1. R \in Seq(Rent) /\ o \in Seq(RentStates)
  BY DEF RefsOK
<1>2. /\ Len(R) \in Nat /\ DOMAIN R = 1..Len(R) /\ Len(o) \in Nat /\ DOMAIN o = 1..Len(o)
      /\ \A r \in DOMAIN R : R[r] \in Rent
      /\ \A j \in DOMAIN o : o[j] \in RentStates
  BY <1>1, LenProperties, ElementOfSeq
<1>3. \A r \in DOMAIN R : R[r].state \in RentStates /\ R[r].payer \in Payers /\ R[r].perBlock \in Nat
  BY <1>2 DEF Rent
<1> QED BY <1>2, <1>3 DEF RefsOK

\* What a call has taken is a number.
LEMMA DueIsInt ==
    ASSUME NEW R, NEW o, NEW S, RefsOK(R, o, S), NEW k \in Jobs, JobOK(k, R, o, S)
    PROVE  /\ k.op = "fee" => k.fee \in Int
           /\ k.op \in {"debited", "settled"} => k.total \in Int
           /\ k.op = "debited" => R[k.record].perBlock \in Int /\ k.ok \in BOOLEAN
<1>1. k.op = "fee" => k.fee \in Int
  BY JobKinds DEF Fee
<1>2. k.op \in {"debited", "settled"} => k.total \in Int /\ k.ok \in BOOLEAN
  BY JobKinds DEF Collecting
<1>3. k.op = "debited" => R[k.record].perBlock \in Int
  BY RecordFacts DEF JobOK
<1> QED BY <1>1, <1>2, <1>3

\* The sums of the invariant are numbers.
LEMMA EconomyFacts ==
    ASSUME EconomyInv
    PROVE  /\ Summable(balances, Addresses) /\ SumFunctionOnSet(balances, Addresses) \in Int
           /\ Summable(DueOf, Calls) /\ SumFunctionOnSet(DueOf, Calls) \in Int
           /\ \A c \in Calls : DueOf[c] = Due(c) /\ Due(c) \in Int /\ call[c] \in Jobs
           /\ \A a \in Addresses : balances[a] \in Nat
<1>1. \A a \in Addresses : balances[a] \in Nat
  BY DEF EconomyInv, EconomyTypes
<1>2. ASSUME NEW c \in Calls PROVE DueOf[c] = Due(c) /\ Due(c) \in Int /\ call[c] \in Jobs
  <2>1. call[c] \in Jobs /\ JobOK(call[c], records, order, stored) /\ RefsOK(records, order, stored)
    BY DEF EconomyInv, EconomyTypes
  <2>2. PICK k, R : k = call[c] /\ R = records
    OBVIOUS
  <2>3. /\ k.op = "fee" => k.fee \in Int
        /\ k.op \in {"debited", "settled"} => k.total \in Int
        /\ k.op = "debited" => R[k.record].perBlock \in Int
    BY <2>1, <2>2, DueIsInt
  <2>4. Due(c) \in Int
    BY <2>2, <2>3 DEF Due
  <2> QED BY <2>1, <2>4 DEF DueOf
<1>3. Summable(balances, Addresses)
  BY <1>1, EconomicsAssumption DEF Summable
<1>4. Summable(DueOf, Calls)
  BY <1>2, EconomicsAssumption DEF Summable
<1> QED BY <1>1, <1>2, <1>3, <1>4, SumFacts

\* One balance changes.
LEMMA BalanceChanges ==
    ASSUME NEW f, NEW g, NEW a, a \in Addresses, f \in [Addresses -> Nat], g \in [Addresses -> Int], g[a] >= 0,
           \A y \in Addresses \ {a} : g[y] = f[y]
    PROVE  /\ g \in [Addresses -> Nat]
           /\ SumFunctionOnSet(g, Addresses) = SumFunctionOnSet(f, Addresses) - f[a] + g[a]
<1>1. PICK S : S = Addresses
  OBVIOUS
<1>2. a \in S /\ Summable(f, S) /\ g[a] \in Int /\ (\A y \in S \ {a} : g[y] = f[y])
  BY <1>1, EconomicsAssumption DEF Summable
<1>3. SumFunctionOnSet(g, S) = SumFunctionOnSet(f, S) - f[a] + g[a]
  BY ONLY <1>2, SumChange
<1>4. \A y \in Addresses : g[y] \in Nat
  OBVIOUS
<1> QED BY <1>1, <1>3, <1>4

\* One call's due changes.
LEMMA DueChanges ==
    ASSUME EconomyInv, NEW c \in Calls, NEW n \in Int, Due(c)' = n,
           \A d \in Calls \ {c} : Due(d)' = Due(d)
    PROVE  SumFunctionOnSet(DueOf', Calls) = SumFunctionOnSet(DueOf, Calls) - Due(c) + n
<1>1. PICK f, g, S : f = DueOf /\ g = DueOf' /\ S = Calls
  OBVIOUS
<1>2. g[c] = n /\ \A d \in S \ {c} : g[d] = f[d]
  BY <1>1, EconomyFacts DEF DueOf
<1>3. Summable(f, S) /\ c \in S /\ g[c] \in Int
  BY <1>1, <1>2, EconomyFacts
<1>4. SumFunctionOnSet(g, S) = SumFunctionOnSet(f, S) - f[c] + g[c]
  <2>1. /\ c \in S /\ Summable(f, S) /\ g[c] \in Int
        /\ \A d \in S \ {c} : g[d] = f[d]
    BY <1>2, <1>3
  <2> QED BY ONLY <2>1, SumChange
<1>5. f[c] = Due(c)
  BY <1>1, EconomyFacts
<1> QED BY <1>1, <1>2, <1>4, <1>5

\* No call's due changes.
LEMMA DueStays ==
    ASSUME EconomyInv, \A d \in Calls : Due(d)' = Due(d)
    PROVE  SumFunctionOnSet(DueOf', Calls) = SumFunctionOnSet(DueOf, Calls)
<1>1. DueOf' = DueOf
  BY DEF DueOf
<1> QED BY <1>1

\* The records, their order and the stored ones stay as they are.
LEMMA RefsSame ==
    ASSUME EconomyInv, records' = records, order' = order, stored' = stored,
           \A c \in Calls : call'[c] = call[c] \/ JobOK(call'[c], records, order, stored)
    PROVE  /\ RefsOK(records, order, stored)'
           /\ \A c \in Calls : JobOK(call[c], records, order, stored)'
           /\ RegistrationsStand
<1>1. RefsOK(records, order, stored) /\ stored \in [RentStates -> Nat]
  BY DEF EconomyInv, RefsOK
<1>2. \A c \in Calls : JobOK(call'[c], records, order, stored)
  BY DEF EconomyInv
<1> QED BY <1>1, <1>2 DEF RegistrationsStand

\* An address is credited.
LEMMA CreditKeeps ==
    ASSUME EconomyInv, NEW a \in Addresses, NEW n \in Credits, Credit(a, n)
    PROVE  EconomyInv' /\ RentIsAsked /\ RegistrationsStand
<1>1. /\ records' = records /\ order' = order /\ stored' = stored /\ call' = call
      /\ fees' = fees /\ collected' = collected /\ issued' = issued + n
      /\ balances' = [balances EXCEPT ![a] = balances[a] + n]
  BY DEF Credit, Credited
<1>2. n \in Int /\ balances[a] + n >= 0 /\ balances \in [Addresses -> Nat]
  BY EconomicsAssumption DEF EconomyInv, EconomyTypes
<1>3. /\ balances' \in [Addresses -> Nat]
      /\ SumFunctionOnSet(balances', Addresses) = SumFunctionOnSet(balances, Addresses) + n
  <2>1. PICK f, h : f = balances /\ h = balances'
    OBVIOUS
  <2>2. /\ a \in Addresses /\ f \in [Addresses -> Nat] /\ h \in [Addresses -> Int] /\ h[a] >= 0
        /\ \A y \in Addresses \ {a} : h[y] = f[y]
    BY <1>1, <1>2, <2>1
  <2>3. h \in [Addresses -> Nat] /\ SumFunctionOnSet(h, Addresses) = SumFunctionOnSet(f, Addresses) - f[a] + h[a]
    BY ONLY <2>2, BalanceChanges
  <2>4. h[a] = f[a] + n /\ f[a] \in Int /\ SumFunctionOnSet(f, Addresses) \in Int
    BY <1>1, <1>2, <2>1, EconomyFacts
  <2> QED BY <1>2, <2>1, <2>3, <2>4
<1>4. \A d \in Calls : Due(d)' = Due(d)
  BY <1>1 DEF Due
<1>5. SumFunctionOnSet(DueOf', Calls) = SumFunctionOnSet(DueOf, Calls)
  BY <1>4, DueStays
<1>6. EconomyTypes'
  BY <1>1, <1>2, <1>3 DEF EconomyInv, EconomyTypes
<1>7. issued' = SumFunctionOnSet(balances', Addresses) + collected' + fees'.kept
                + SumFunctionOnSet(DueOf', Calls)
  <2>1. /\ issued = SumFunctionOnSet(balances, Addresses) + collected + fees.kept
                    + SumFunctionOnSet(DueOf, Calls)
        /\ SumFunctionOnSet(balances, Addresses) \in Int /\ SumFunctionOnSet(DueOf, Calls) \in Int
        /\ collected \in Int /\ fees.kept \in Int
    BY EconomyFacts DEF EconomyInv, EconomyTypes
  <2> QED BY <1>1, <1>2, <1>3, <1>5, <2>1
<1>8. RefsOK(records, order, stored)' /\ (\A c \in Calls : JobOK(call[c], records, order, stored)')
      /\ RegistrationsStand
  BY <1>1, RefsSame
<1>9. RentIsAsked
  BY <1>1 DEF RentIsAsked, Idle
<1> QED BY <1>6, <1>7, <1>8, <1>9 DEF EconomyInv

\* Money moves from one address to another, or is added to the one.
LEMMA TransferKeeps ==
    ASSUME EconomyInv, NEW a \in Addresses, NEW b \in Addresses, NEW n \in Credits, Transfer(a, b, n)
    PROVE  EconomyInv' /\ RentIsAsked /\ RegistrationsStand
<1>1. /\ records' = records /\ order' = order /\ stored' = stored /\ call' = call
      /\ fees' = fees /\ collected' = collected
      /\ issued' = IF a = b THEN issued + n ELSE issued
      /\ balances' = [balances EXCEPT ![a] = balances[a] - n, ![b] = balances[b] + n]
      /\ balances[a] >= n
  BY DEF Transfer, Covers
<1>2. /\ n \in Nat /\ balances \in [Addresses -> Nat] /\ balances[a] \in Nat /\ balances[b] \in Nat
      /\ issued \in Int
  BY EconomicsAssumption DEF EconomyInv, EconomyTypes
<1>3. /\ balances' \in [Addresses -> Nat]
      /\ SumFunctionOnSet(balances', Addresses) =
           SumFunctionOnSet(balances, Addresses) + (IF a = b THEN n ELSE 0)
  <2> PICK f, h, T : f = balances /\ h = balances' /\ T = SumFunctionOnSet(balances, Addresses)
    OBVIOUS
  <2>0. T \in Int /\ f[a] \in Nat /\ f[b] \in Nat /\ f[a] >= n
    BY <1>1, <1>2, EconomyFacts
  <2>1. CASE a = b
    <3>1. /\ b \in Addresses /\ f \in [Addresses -> Nat] /\ h \in [Addresses -> Int] /\ h[b] >= 0
          /\ \A y \in Addresses \ {b} : h[y] = f[y]
      BY <1>1, <1>2, <2>1
    <3>2. h \in [Addresses -> Nat] /\ SumFunctionOnSet(h, Addresses) = SumFunctionOnSet(f, Addresses) - f[b] + h[b]
      BY ONLY <3>1, BalanceChanges
    <3>3. h[b] = f[b] + n
      BY <1>1, <1>2, <2>1
    <3> QED BY <1>2, <2>0, <2>1, <3>2, <3>3
  <2>2. CASE a # b
    <3>1. PICK g : g = [f EXCEPT ![a] = f[a] - n]
      OBVIOUS
    <3>2. /\ a \in Addresses /\ f \in [Addresses -> Nat] /\ g \in [Addresses -> Int] /\ g[a] >= 0
          /\ \A y \in Addresses \ {a} : g[y] = f[y]
      BY <1>2, <2>0, <3>1
    <3>3. g \in [Addresses -> Nat] /\ SumFunctionOnSet(g, Addresses) = SumFunctionOnSet(f, Addresses) - f[a] + g[a]
      BY ONLY <3>2, BalanceChanges
    <3>4. g[b] = f[b] /\ g[a] = f[a] - n /\ h[b] = f[b] + n
      BY <1>1, <1>2, <2>2, <3>1
    <3>5. /\ b \in Addresses /\ g \in [Addresses -> Nat] /\ h \in [Addresses -> Int] /\ h[b] >= 0
          /\ \A y \in Addresses \ {b} : h[y] = g[y]
      BY <1>1, <1>2, <2>2, <3>1, <3>3, <3>4
    <3>6. h \in [Addresses -> Nat] /\ SumFunctionOnSet(h, Addresses) = SumFunctionOnSet(g, Addresses) - g[b] + h[b]
      BY ONLY <3>5, BalanceChanges
    <3> QED BY <1>2, <2>0, <2>2, <3>3, <3>4, <3>6
  <2> QED BY <2>1, <2>2
<1>4. \A d \in Calls : Due(d)' = Due(d)
  BY <1>1 DEF Due
<1>5. SumFunctionOnSet(DueOf', Calls) = SumFunctionOnSet(DueOf, Calls)
  BY <1>4, DueStays
<1>6. EconomyTypes'
  BY <1>1, <1>2, <1>3 DEF EconomyInv, EconomyTypes
<1>7. issued' = SumFunctionOnSet(balances', Addresses) + collected' + fees'.kept
                + SumFunctionOnSet(DueOf', Calls)
  <2>1. /\ issued = SumFunctionOnSet(balances, Addresses) + collected + fees.kept
                    + SumFunctionOnSet(DueOf, Calls)
        /\ SumFunctionOnSet(balances, Addresses) \in Int /\ SumFunctionOnSet(DueOf, Calls) \in Int
        /\ collected \in Int /\ fees.kept \in Int
    BY EconomyFacts DEF EconomyInv, EconomyTypes
  <2> QED BY <1>1, <1>2, <1>3, <1>5, <2>1
<1>8. RefsOK(records, order, stored)' /\ (\A c \in Calls : JobOK(call[c], records, order, stored)')
      /\ RegistrationsStand
  BY <1>1, RefsSame
<1>9. RentIsAsked
  BY <1>1 DEF RentIsAsked, Idle
<1> QED BY <1>6, <1>7, <1>8, <1>9 DEF EconomyInv

\* One call goes on to k, which refers to what is stored, and the money moves with it.
LEMMA OneCall ==
    ASSUME EconomyInv, NEW c \in Calls, NEW k \in Jobs, NEW b \in Int,
           UNCHANGED <<records, order, stored, issued>>, call' = [call EXCEPT ![c] = k],
           JobOK(k, records, order, stored), call[c].op = "settled" /\ k = Idle => call[c].owed = {},
           balances' \in [Addresses -> Nat], fees' \in [total : Int, kept : Int], collected' \in Int,
           SumFunctionOnSet(balances', Addresses) = SumFunctionOnSet(balances, Addresses) + b,
           Due(c)' \in Int, b + (collected' - collected) + (fees'.kept - fees.kept) + (Due(c)' - Due(c)) = 0
    PROVE  EconomyInv' /\ RentIsAsked /\ RegistrationsStand
<1>1. /\ call \in [Calls -> Jobs] /\ call'[c] = k
      /\ \A d \in Calls \ {c} : call'[d] = call[d]
      /\ \A d \in Calls : call'[d] \in Jobs /\ (call'[d] = call[d] \/ JobOK(call'[d], records, order, stored))
  BY DEF EconomyInv, EconomyTypes
<1>2. RefsOK(records, order, stored)' /\ (\A d \in Calls : JobOK(call[d], records, order, stored)')
      /\ RegistrationsStand
  BY <1>1, RefsSame
<1>3. \A d \in Calls \ {c} : Due(d)' = Due(d)
  BY <1>1 DEF Due
<1>4. PICK n : n = Due(c)'
  OBVIOUS
<1>5. SumFunctionOnSet(DueOf', Calls) = SumFunctionOnSet(DueOf, Calls) - Due(c) + n
  BY <1>3, <1>4, DueChanges
<1>6. EconomyTypes'
  BY <1>1 DEF EconomyInv, EconomyTypes
<1>7. issued' = SumFunctionOnSet(balances', Addresses) + collected' + fees'.kept
                + SumFunctionOnSet(DueOf', Calls)
  <2>1. /\ issued = SumFunctionOnSet(balances, Addresses) + collected + fees.kept
                    + SumFunctionOnSet(DueOf, Calls)
        /\ SumFunctionOnSet(balances, Addresses) \in Int /\ SumFunctionOnSet(DueOf, Calls) \in Int
        /\ collected \in Int /\ fees.kept \in Int /\ Due(c) \in Int /\ n \in Int
    BY <1>4, EconomyFacts DEF EconomyInv, EconomyTypes
  <2>2. /\ issued' = issued /\ fees'.kept \in Int
        /\ b + (collected' - collected) + (fees'.kept - fees.kept) + (n - Due(c)) = 0
    BY <1>4
  <2>3. PICK B, B2, D, D2, d : B = SumFunctionOnSet(balances, Addresses)
          /\ B2 = SumFunctionOnSet(balances', Addresses) /\ D = SumFunctionOnSet(DueOf, Calls)
          /\ D2 = SumFunctionOnSet(DueOf', Calls) /\ d = Due(c)
    OBVIOUS
  <2>4. PICK x, x2, f, f2, i : x = collected /\ x2 = collected' /\ f = fees.kept /\ f2 = fees'.kept /\ i = issued
    OBVIOUS
  <2>5. /\ B \in Int /\ D \in Int /\ d \in Int /\ n \in Int /\ x \in Int /\ x2 \in Int /\ f \in Int /\ f2 \in Int
        /\ b \in Int /\ i = B + x + f + D /\ B2 = B + b /\ D2 = D - d + n
        /\ b + (x2 - x) + (f2 - f) + (n - d) = 0
    BY <1>5, <2>1, <2>2, <2>3, <2>4
  <2>6. i = B2 + x2 + f2 + D2
    BY ONLY <2>5
  <2> QED BY <2>2, <2>3, <2>4, <2>6
<1>8. RentIsAsked
  BY <1>1 DEF RentIsAsked, Idle
<1> QED BY <1>2, <1>6, <1>7, <1>8 DEF EconomyInv

\* An address pays n.
LEMMA Debits ==
    ASSUME EconomyInv, NEW a \in Addresses, NEW n \in Nat, balances[a] >= n, balances' = Debited(a, n)
    PROVE  /\ balances' \in [Addresses -> Nat]
           /\ SumFunctionOnSet(balances', Addresses) = SumFunctionOnSet(balances, Addresses) + (0 - n)
<1>1. PICK f, h : f = balances /\ h = balances'
  OBVIOUS
<1>2. f \in [Addresses -> Nat] /\ h = [f EXCEPT ![a] = f[a] - n] /\ f[a] >= n
  BY <1>1 DEF Debited, EconomyInv, EconomyTypes
<1>3. /\ a \in Addresses /\ f \in [Addresses -> Nat] /\ h \in [Addresses -> Int] /\ h[a] >= 0
      /\ \A y \in Addresses \ {a} : h[y] = f[y]
  BY <1>2
<1>4. h \in [Addresses -> Nat] /\ SumFunctionOnSet(h, Addresses) = SumFunctionOnSet(f, Addresses) - f[a] + h[a]
  BY ONLY <1>3, BalanceChanges
<1>5. h[a] = f[a] - n /\ f[a] \in Int /\ SumFunctionOnSet(f, Addresses) \in Int
  BY <1>1, <1>2, EconomyFacts
<1> QED BY <1>1, <1>4, <1>5

\* An address gets n.
LEMMA Credits1 ==
    ASSUME EconomyInv, NEW a \in Addresses, NEW n \in Nat, balances' = Credited(a, n)
    PROVE  /\ balances' \in [Addresses -> Nat]
           /\ SumFunctionOnSet(balances', Addresses) = SumFunctionOnSet(balances, Addresses) + n
<1>1. PICK f, h : f = balances /\ h = balances'
  OBVIOUS
<1>2. f \in [Addresses -> Nat] /\ h = [f EXCEPT ![a] = f[a] + n]
  BY <1>1 DEF Credited, EconomyInv, EconomyTypes
<1>3. /\ a \in Addresses /\ f \in [Addresses -> Nat] /\ h \in [Addresses -> Int] /\ h[a] >= 0
      /\ \A y \in Addresses \ {a} : h[y] = f[y]
  BY <1>2
<1>4. h \in [Addresses -> Nat] /\ SumFunctionOnSet(h, Addresses) = SumFunctionOnSet(f, Addresses) - f[a] + h[a]
  BY ONLY <1>3, BalanceChanges
<1>5. h[a] = f[a] + n /\ f[a] \in Int /\ SumFunctionOnSet(f, Addresses) \in Int
  BY <1>1, <1>2, EconomyFacts
<1> QED BY <1>1, <1>4, <1>5

\* A fee is taken.
LEMMA ChargeKeeps ==
    ASSUME EconomyInv, NEW c \in Calls, NEW a \in Addresses, NEW fee \in FeeAmounts, ChargeFee(c, a, fee)
    PROVE  EconomyInv' /\ RentIsAsked /\ RegistrationsStand
<1>0. PICK k : k = [op |-> "fee", fee |-> fee]
  OBVIOUS
<1>1. /\ UNCHANGED <<records, order, stored, issued>> /\ fees' = fees /\ collected' = collected
      /\ call' = [call EXCEPT ![c] = k] /\ call[c] = Idle
      /\ balances[a] >= fee /\ balances' = Debited(a, fee)
  BY <1>0 DEF ChargeFee, Covers
<1>2. fee \in Nat
  BY EconomicsAssumption
<1>3. /\ balances' \in [Addresses -> Nat]
      /\ SumFunctionOnSet(balances', Addresses) = SumFunctionOnSet(balances, Addresses) + (0 - fee)
  BY <1>1, <1>2, Debits
<1>4. k \in Jobs /\ JobOK(k, records, order, stored) /\ call[c].op # "settled"
  BY <1>0, <1>1, <1>2 DEF Jobs, Fee, JobOK, Idle
<1>5. fees' \in [total : Int, kept : Int] /\ fees.kept \in Int /\ collected \in Int /\ collected' \in Int
      /\ call'[c] = k
  BY <1>1 DEF EconomyInv, EconomyTypes
<1>6. Due(c) = 0 /\ Due(c)' = fee
  BY <1>0, <1>1, <1>5 DEF Due, Idle
<1>7. 0 - fee \in Int /\ Due(c)' \in Int
      /\ (0 - fee) + (collected' - collected) + (fees'.kept - fees.kept) + (Due(c)' - Due(c)) = 0
  BY <1>1, <1>2, <1>5, <1>6
<1> QED BY <1>1, <1>3, <1>4, <1>5, <1>7, OneCall

\* A fee is shared out: the rest of a rounded share is kept.
LEMMA DistributeKeeps ==
    ASSUME EconomyInv, NEW c \in Calls, Distribute(c)
    PROVE  EconomyInv' /\ RentIsAsked /\ RegistrationsStand
<1>0. PICK k, fee, n : k = Idle /\ fee = call[c].fee /\ n = MinerGets(fee)
  OBVIOUS
<1>1. /\ UNCHANGED <<records, order, stored, issued>> /\ collected' = collected
      /\ call' = [call EXCEPT ![c] = k] /\ call[c].op = "fee"
      /\ balances' = Credited(Miner, n)
      /\ fees' = [total |-> fees.total + fee, kept |-> fees.kept + fee - n]
  BY <1>0 DEF Distribute
<1>2. fee \in Nat
  BY <1>0, <1>1, JobKinds DEF Fee, EconomyInv, EconomyTypes
<1>3. n \in Nat
  <2>1. MinerShare \in Nat
    BY EconomicsAssumption
  <2>2. fee * MinerShare \in Nat
    BY <1>2, <2>1
  <2> QED BY <1>0, <2>2 DEF MinerGets
<1>4. /\ balances' \in [Addresses -> Nat]
      /\ SumFunctionOnSet(balances', Addresses) = SumFunctionOnSet(balances, Addresses) + n
  BY <1>1, <1>3, Credits1, EconomicsAssumption
<1>5. k \in Jobs /\ JobOK(k, records, order, stored) /\ call[c].op # "settled"
  BY <1>0, <1>1 DEF Jobs, JobOK, Idle
<1>6. fees \in [total : Int, kept : Int] /\ collected \in Int
      /\ call'[c] = k
  BY <1>1 DEF EconomyInv, EconomyTypes
<1>7. fees' \in [total : Int, kept : Int] /\ fees'.kept = fees.kept + fee - n /\ fees.kept \in Int
  BY <1>1, <1>2, <1>3, <1>6
<1>8. Due(c) = fee /\ Due(c)' = 0
  BY <1>0, <1>1, <1>6 DEF Due, Idle
<1>9. Due(c)' \in Int /\ n \in Int /\ collected' \in Int
      /\ n + (collected' - collected) + (fees'.kept - fees.kept) + (Due(c)' - Due(c)) = 0
  BY <1>1, <1>2, <1>3, <1>6, <1>7, <1>8
<1> QED BY <1>1, <1>4, <1>5, <1>7, <1>9, OneCall

\* A record is read, to be reactivated.
LEMMA ReactivateKeeps ==
    ASSUME EconomyInv, NEW c \in Calls, NEW s \in RentStates, Reactivate(c, s)
    PROVE  EconomyInv' /\ RentIsAsked /\ RegistrationsStand
<1>0. PICK k : k = [op |-> "asks", record |-> stored[s]]
  OBVIOUS
<1>1. /\ UNCHANGED <<records, order, stored, issued>> /\ fees' = fees /\ collected' = collected
      /\ call' = [call EXCEPT ![c] = k] /\ call[c] = Idle /\ stored[s] # 0 /\ balances' = balances
  BY <1>0 DEF Reactivate
<1>2. stored[s] \in DOMAIN records /\ stored[s] \in Nat
  BY <1>1 DEF EconomyInv, RefsOK
<1>3. k \in Jobs /\ JobOK(k, records, order, stored) /\ call[c].op # "settled"
  BY <1>0, <1>1, <1>2 DEF Jobs, Asking, JobOK, Idle
<1>4. fees' \in [total : Int, kept : Int] /\ fees.kept \in Int /\ collected \in Int /\ collected' \in Int
      /\ call'[c] = k /\ balances' \in [Addresses -> Nat]
  BY <1>1 DEF EconomyInv, EconomyTypes
<1>5. Due(c) = 0 /\ Due(c)' = 0
  BY <1>0, <1>1, <1>4 DEF Due, Idle
<1>6. 0 \in Int /\ Due(c)' \in Int
      /\ 0 + (collected' - collected) + (fees'.kept - fees.kept) + (Due(c)' - Due(c)) = 0
  BY <1>1, <1>4, <1>5
<1>7. SumFunctionOnSet(balances', Addresses) = SumFunctionOnSet(balances, Addresses) + 0
  BY <1>1, EconomyFacts
<1> QED BY <1>1, <1>3, <1>4, <1>6, <1>7, OneCall

\* The payer's balance is read, and the call goes on or ends.
LEMMA ReadKeeps ==
    ASSUME EconomyInv, NEW c \in Calls, ReadBalance(c)
    PROVE  EconomyInv' /\ RentIsAsked /\ RegistrationsStand
<1>0. PICK k : k = IF Covers(records[call[c].record].payer, records[call[c].record].perBlock)
                   THEN [op |-> "resumes", record |-> call[c].record] ELSE Idle
  OBVIOUS
<1>1. /\ UNCHANGED <<records, order, stored, issued>> /\ fees' = fees /\ collected' = collected
      /\ call' = [call EXCEPT ![c] = k] /\ call[c].op = "asks" /\ balances' = balances
  BY <1>0 DEF ReadBalance
<1>2. call[c].record \in DOMAIN records /\ call[c].record \in Nat
  BY <1>1, JobKinds DEF EconomyInv, EconomyTypes, JobOK, Asking
<1>3. k \in Jobs /\ JobOK(k, records, order, stored) /\ call[c].op # "settled" /\ k.op \in {"resumes", "idle"}
  BY <1>0, <1>1, <1>2 DEF Jobs, Asking, JobOK, Idle
<1>4. fees' \in [total : Int, kept : Int] /\ fees.kept \in Int /\ collected \in Int /\ collected' \in Int
      /\ call'[c] = k /\ balances' \in [Addresses -> Nat]
  BY <1>1 DEF EconomyInv, EconomyTypes
<1>5. Due(c) = 0 /\ Due(c)' = 0
  BY <1>1, <1>3, <1>4 DEF Due
<1>6. 0 \in Int /\ Due(c)' \in Int
      /\ 0 + (collected' - collected) + (fees'.kept - fees.kept) + (Due(c)' - Due(c)) = 0
  BY <1>1, <1>4, <1>5
<1>7. SumFunctionOnSet(balances', Addresses) = SumFunctionOnSet(balances, Addresses) + 0
  BY <1>1, EconomyFacts
<1> QED BY <1>1, <1>3, <1>4, <1>6, <1>7, OneCall

\* The iteration goes on from the job's place, to the next active record or to its end.
LEMMA GoesKeeps ==
    ASSUME EconomyInv, NEW c \in Calls, NEW job \in Collecting, Goes(c, job.at, job),
           UNCHANGED <<issued, fees, records, order, stored>>, Due(c) = job.total,
           \A r \in job.owed : Ahead(records, order, stored, r, job.at),
           call[c].op = "settled" => call[c].owed = job.owed
    PROVE  EconomyInv' /\ RentIsAsked /\ RegistrationsStand
<1>1. PICK next : next = {j \in job.at + 1..Len(order) : records[stored[order[j]]].active}
  OBVIOUS
<1>2. PICK j : j = CHOOSE i \in next : \A n \in next : i <= n
  OBVIOUS
<1>3. PICK r, R : r = stored[order[j]] /\ R = records
  OBVIOUS
<1>4. PICK ok : ok = Covers(R[r].payer, R[r].perBlock)
  OBVIOUS
<1>5. PICK k : k = [job EXCEPT !.op = "debited", !.at = j, !.record = r, !.ok = ok]
  OBVIOUS
<1>6. /\ job.total \in Nat /\ job.at \in Nat /\ job.owed \in SUBSET Nat /\ job.height \in Nat
  BY DEF Collecting
<1>7. RefsOK(R, order, stored) /\ call \in [Calls -> Jobs] /\ collected \in Int /\ fees \in [total : Int, kept : Int]
      /\ balances \in [Addresses -> Nat]
  BY <1>3 DEF EconomyInv, EconomyTypes
<1>8. /\ Len(order) \in Nat /\ DOMAIN order = 1..Len(order) /\ DOMAIN R = 1..Len(R) /\ Len(R) \in Nat
      /\ \A i \in DOMAIN order : /\ order[i] \in RentStates /\ stored[order[i]] \in DOMAIN R
                                 /\ R[stored[order[i]]].state = order[i]
      /\ \A q \in DOMAIN R : R[q].payer \in Payers /\ R[q].perBlock \in Nat
  BY <1>7, RecordFacts
<1>9. \A q \in job.owed : \E i \in next : stored[order[i]] = q /\ order[i] = R[q].state
  <2>1. SUFFICES ASSUME NEW q \in job.owed
                 PROVE  \E i \in next : stored[order[i]] = q /\ order[i] = R[q].state
    OBVIOUS
  <2>2. q \in DOMAIN R /\ R[q].active /\ stored[R[q].state] = q
    BY <1>3 DEF Ahead
  <2>3. PICK i \in DOMAIN order : i > job.at /\ order[i] = R[q].state
    BY <1>3 DEF Ahead
  <2>4. i \in next
    BY <1>1, <1>3, <1>6, <1>8, <2>2, <2>3
  <2> QED BY <2>2, <2>3, <2>4
<1>10. CASE next = {}
  <2>1. call' = [call EXCEPT ![c] = Idle] /\ collected' = collected + job.total /\ balances' = balances
    BY <1>1, <1>10 DEF Goes
  <2>2. job.owed = {}
    BY <1>9, <1>10
  <2>3. Idle \in Jobs /\ JobOK(Idle, records, order, stored) /\ call'[c] = Idle
    BY <1>7, <2>1 DEF Jobs, JobOK, Idle
  <2>4. Due(c)' = 0
    BY <2>3 DEF Due, Idle
  <2>5. SumFunctionOnSet(balances', Addresses) = SumFunctionOnSet(balances, Addresses) + 0
    BY <2>1, EconomyFacts
  <2>6. 0 \in Int /\ collected' \in Int /\ Due(c)' \in Int /\ fees' \in [total : Int, kept : Int]
        /\ balances' \in [Addresses -> Nat]
        /\ 0 + (collected' - collected) + (fees'.kept - fees.kept) + (Due(c)' - Due(c)) = 0
    <3>1. fees' = fees /\ fees.kept \in Int
      BY <1>7
    <3> QED BY <1>6, <1>7, <2>1, <2>4, <3>1
  <2> QED BY <2>1, <2>2, <2>3, <2>5, <2>6, OneCall
<1>11. CASE next # {}
  <2>1. /\ call' = [call EXCEPT ![c] = k] /\ collected' = collected
        /\ balances' = IF ok THEN Debited(R[r].payer, R[r].perBlock) ELSE balances
    BY <1>1, <1>2, <1>3, <1>4, <1>5, <1>11 DEF Goes
  <2>2. j \in next /\ \A n \in next : j <= n
    <3>1. next \in SUBSET Nat
      BY <1>1, <1>6, <1>8
    <3>2. \E i \in next : \A n \in next : i <= n
      BY <1>11, <3>1, LeastElement
    <3> QED BY <1>2, <3>2
  <2>3. j \in DOMAIN order /\ j \in Nat /\ j > job.at /\ R[r].active
    BY <1>1, <1>3, <1>6, <1>8, <2>2
  <2>4. r \in DOMAIN R /\ R[r].payer \in Addresses /\ R[r].perBlock \in Nat /\ R[r].state = order[j]
        /\ stored[R[r].state] = r /\ R[r].state \in RentStates /\ r # 0 /\ r \in Nat
    BY <1>3, <1>8, <2>3, EconomicsAssumption
  <2>5. Stands(R, r)
    BY <1>7, <2>4 DEF RefsOK
  <2>6. ok \in BOOLEAN
    BY <1>4 DEF Covers
  <2>7. /\ k \in Collecting /\ k.op = "debited" /\ k.record = r /\ k.ok = ok /\ k.at = j
        /\ k.total = job.total /\ k.owed = job.owed
    BY <1>5, <2>3, <2>4, <2>6 DEF Collecting
  <2>8. k \in Jobs
    BY <2>7 DEF Jobs
  <2>9. \A q \in k.owed : Ahead(R, order, stored, q, k.at) \/ q = k.record
    <3>1. SUFFICES ASSUME NEW q \in job.owed, q # r PROVE Ahead(R, order, stored, q, j)
      BY <2>7
    <3>2. PICK i \in next : stored[order[i]] = q /\ order[i] = R[q].state
      BY <1>9
    <3>3. i # j
      BY <1>3, <3>1, <3>2
    <3>4. i > j /\ i \in DOMAIN order
      BY <1>1, <1>6, <1>8, <2>2, <2>3, <3>2, <3>3
    <3>5. q \in DOMAIN R /\ R[q].active /\ stored[R[q].state] = q
      BY <1>3 DEF Ahead
    <3> QED BY <3>2, <3>4, <3>5 DEF Ahead
  <2>10. JobOK(k, R, order, stored)
    BY <2>4, <2>5, <2>7, <2>9 DEF JobOK
  <2>11. call'[c] = k /\ call'[c] # Idle
    BY <1>7, <2>1, <2>7 DEF Idle
  <2>12. Due(c)' = IF ok THEN job.total + R[r].perBlock ELSE job.total
    BY <1>3, <2>6, <2>7, <2>11 DEF Due
  <2>13. PICK b : b = IF ok THEN 0 - R[r].perBlock ELSE 0
    OBVIOUS
  <2>14. balances' \in [Addresses -> Nat]
         /\ SumFunctionOnSet(balances', Addresses) = SumFunctionOnSet(balances, Addresses) + b
    <3>1. CASE ok
      <4>1. PICK a, n : a = R[r].payer /\ n = R[r].perBlock
        OBVIOUS
      <4>2. a \in Addresses /\ n \in Nat /\ balances[a] >= n /\ balances' = Debited(a, n) /\ b = 0 - n
        BY <1>4, <2>1, <2>4, <2>13, <3>1, <4>1 DEF Covers
      <4> QED BY <4>2, Debits
    <3>2. CASE ~ok
      BY <1>7, <2>1, <2>13, <3>2, EconomyFacts
    <3> QED BY <3>1, <3>2
  <2>15. b \in Int /\ collected' \in Int /\ Due(c)' \in Int /\ fees' \in [total : Int, kept : Int]
         /\ b + (collected' - collected) + (fees'.kept - fees.kept) + (Due(c)' - Due(c)) = 0
    <3>1. fees' = fees /\ fees.kept \in Int /\ collected' = collected
      BY <1>7, <2>1
    <3> QED BY <1>6, <1>7, <2>4, <2>6, <2>12, <2>13, <3>1
  <2>16. UNCHANGED <<records, order, stored, issued>> /\ k # Idle /\ JobOK(k, records, order, stored)
    BY <1>3, <2>10, <2>11
  <2> QED BY <2>1, <2>8, <2>14, <2>15, <2>16, OneCall
<1> QED BY <1>10, <1>11

\* A collection begins, with what is stored and active.
LEMMA CollectKeeps ==
    ASSUME EconomyInv, height \in Nat, NEW c \in Calls, CollectRent(c)
    PROVE  EconomyInv' /\ RentIsAsked /\ RegistrationsStand
<1>1. PICK owed : owed = {stored[s] : s \in {s \in ToSet(order) : records[stored[s]].active}}
  OBVIOUS
<1>2. PICK job : job = [op |-> "debited", height |-> height, at |-> 0, record |-> 0, ok |-> FALSE,
                        total |-> 0, owed |-> owed]
  OBVIOUS
<1>3. /\ call[c] = Idle /\ Goes(c, 0, job) /\ UNCHANGED <<issued, fees, records, order, stored>>
  BY <1>1, <1>2 DEF CollectRent
<1>4. RefsOK(records, order, stored)
  BY DEF EconomyInv
<1>5. /\ Len(order) \in Nat /\ DOMAIN order = 1..Len(order) /\ DOMAIN records = 1..Len(records)
      /\ Len(records) \in Nat
      /\ \A i \in DOMAIN order : /\ stored[order[i]] \in DOMAIN records
                                 /\ records[stored[order[i]]].state = order[i]
  BY <1>4, RecordFacts
<1>6. \A r \in owed : Ahead(records, order, stored, r, 0) /\ r \in Nat
  <2>1. SUFFICES ASSUME NEW r \in owed PROVE Ahead(records, order, stored, r, 0) /\ r \in Nat
    OBVIOUS
  <2>2. PICK i \in DOMAIN order : r = stored[order[i]] /\ records[r].active
    BY <1>1 DEF ToSet
  <2>3. r \in DOMAIN records /\ records[r].state = order[i] /\ stored[records[r].state] = r /\ i > 0
    BY <1>5, <2>2
  <2> QED BY <1>5, <2>2, <2>3 DEF Ahead
<1>7. job \in Collecting /\ job.at = 0 /\ job.total = 0 /\ job.owed = owed
  BY <1>2, <1>6 DEF Collecting
<1>8. Due(c) = 0 /\ call[c].op # "settled"
  BY <1>3 DEF Due, Idle
<1>9. Goes(c, job.at, job) /\ Due(c) = job.total /\ (\A r \in job.owed : Ahead(records, order, stored, r, job.at))
      /\ (call[c].op = "settled" => call[c].owed = job.owed)
  BY <1>3, <1>6, <1>7, <1>8
<1> QED BY <1>3, <1>7, <1>9, GoesKeeps

\* A collection goes on.
LEMMA ContinueKeeps ==
    ASSUME EconomyInv, NEW c \in Calls, Continue(c)
    PROVE  EconomyInv' /\ RentIsAsked /\ RegistrationsStand
<1>1. PICK job : job = call[c]
  OBVIOUS
<1>2. job.op = "settled" /\ Goes(c, job.at, job) /\ UNCHANGED <<issued, fees, records, order, stored>>
  BY <1>1 DEF Continue
<1>3. job \in Collecting
  BY <1>1, <1>2, JobKinds DEF EconomyInv, EconomyTypes
<1>4. \A r \in job.owed : Ahead(records, order, stored, r, job.at)
  BY <1>1, <1>2 DEF EconomyInv, JobOK
<1>5. Due(c) = job.total
  BY <1>1, <1>2 DEF Due
<1> QED BY <1>1, <1>2, <1>3, <1>4, <1>5, GoesKeeps

(* The job k goes on as k2 when the records R, S become R2, S2: it owes no more, and *)
(* of what is ahead of it, only what is active and stored.                      *)
Follows(k2, k, R, o, S, R2, S2) ==
    /\ k2 \in Jobs /\ k2.op = k.op
    /\ k.op \notin {"debited", "settled"} => k2 = k
    /\ k.op \in {"debited", "settled"} =>
          /\ k2.at = k.at /\ k2.record = k.record /\ k2.ok = k.ok /\ k2.total = k.total
          /\ \A r \in k2.owed : /\ r \in k.owed
                                /\ Ahead(R, o, S, r, k.at) => R2[r].active /\ S2[R2[r].state] = r

\* What a call owes shrinks to what is active and stored; the rest of it stays.
LEMMA OwingShrinks ==
    ASSUME NEW f \in [Calls -> Jobs], NEW g, g = Owing(f), NEW c \in Calls
    PROVE  Follows(g[c], f[c], records, order, stored, records', stored')
<1>1. PICK k, R, S : k = f[c] /\ R = records' /\ S = stored'
  OBVIOUS
<1>2. k \in Jobs
  BY <1>1
<1>3. CASE k.op \notin {"debited", "settled"}
  <2>1. g[c] = k
    BY <1>1, <1>3 DEF Owing
  <2> QED BY <1>1, <1>2, <1>3, <2>1 DEF Follows
<1>4. CASE k.op \in {"debited", "settled"}
  <2>1. PICK owed : owed = {r \in k.owed : R[r].active /\ S[R[r].state] = r}
    OBVIOUS
  <2>2. g[c] = [k EXCEPT !.owed = owed]
    BY <1>1, <1>4, <2>1 DEF Owing
  <2>3. k \in Collecting
    BY <1>2, <1>4, JobKinds
  <2>4. owed \in SUBSET Nat
    BY <2>1, <2>3 DEF Collecting
  <2>5. PICK z : z = [k EXCEPT !.owed = owed]
    OBVIOUS
  <2>6. /\ z \in Collecting /\ z.op = k.op /\ z.at = k.at /\ z.record = k.record /\ z.ok = k.ok
        /\ z.total = k.total /\ z.owed = owed
    BY <2>3, <2>4, <2>5 DEF Collecting
  <2>7. z \in Jobs
    BY <2>6 DEF Jobs
  <2>8. \A r \in owed : r \in k.owed /\ R[r].active /\ S[R[r].state] = r
    BY <2>1
  <2> QED BY <1>1, <1>4, <2>2, <2>5, <2>6, <2>7, <2>8 DEF Follows
<1> QED BY <1>1, <1>3, <1>4

\* A job stays in order when records are changed or added: k becomes k2, which owes no more.
LEMMA JobGoesOn ==
    ASSUME NEW k, NEW k2, NEW R, NEW R2, NEW o, NEW o2, NEW S, NEW S2, JobOK(k, R, o, S),
           DOMAIN R \subseteq DOMAIN R2, \A r \in DOMAIN R : R2[r].state = R[r].state,
           \A j \in DOMAIN o : j \in DOMAIN o2 /\ o2[j] = o[j],
           Follows(k2, k, R, o, S, R2, S2),
           k.op = "debited" => Stands(R2, k.record)
    PROVE  JobOK(k2, R2, o2, S2)
<1>1. k2.op \in {"debited", "settled", "asks", "resumes"} => k2.record \in DOMAIN R2
  BY DEF JobOK, Follows
<1>2. k2.op = "debited" => Stands(R2, k2.record)
  BY DEF Follows
<1>3. ASSUME k2.op \in {"debited", "settled"}, NEW r \in k2.owed
      PROVE  Ahead(R2, o2, S2, r, k2.at) \/ (k2.op = "debited" /\ r = k2.record)
  <2>1. /\ r \in k.owed /\ k2.at = k.at /\ k2.record = k.record /\ k2.op = k.op
        /\ Ahead(R, o, S, r, k.at) => R2[r].active /\ S2[R2[r].state] = r
    BY <1>3 DEF Follows
  <2>2. Ahead(R, o, S, r, k.at) \/ (k.op = "debited" /\ r = k.record)
    BY <1>3, <2>1 DEF JobOK
  <2>3. CASE Ahead(R, o, S, r, k.at)
    BY <2>1, <2>3 DEF Ahead
  <2> QED BY <2>1, <2>2, <2>3
<1> QED BY <1>1, <1>2, <1>3 DEF JobOK

\* A step of the records, which keeps the states of those there are, what they pay and,
\* of one whose debit is awaited, that it stands: f is what the calls are before what
\* they owe shrinks, and no call has more or less to say of what it took.
LEMMA RecordsMove ==
    ASSUME EconomyInv, NEW f \in [Calls -> Jobs], DOMAIN call' = Calls, call' = [c \in Calls |-> call'[c]],
           \A c \in Calls : Follows(call'[c], f[c], records, order, stored, records', stored'),
           UNCHANGED <<balances, issued, fees, collected>>,
           DOMAIN records \subseteq DOMAIN records',
           \A r \in DOMAIN records : records'[r].state = records[r].state,
           \A j \in DOMAIN order : j \in DOMAIN order' /\ order'[j] = order[j],
           RefsOK(records', order', stored'),
           \A c \in Calls : JobOK(f[c], records, order, stored),
           \A c \in Calls : f[c].op = "debited" => Stands(records', f[c].record),
           \A c \in Calls : Due(c)' = Due(c),
           \A c \in Calls : call[c].op = "settled" => f[c].op # "idle"
    PROVE  EconomyInv' /\ RentIsAsked
<1>1. PICK g, R2, o2, S2 : g = call' /\ R2 = records' /\ o2 = order' /\ S2 = stored'
  OBVIOUS
<1>2. ASSUME NEW c \in Calls
      PROVE  g[c] \in Jobs /\ g[c].op = f[c].op /\ JobOK(g[c], R2, o2, S2)
  <2>1. PICK k, k2, R, o, S : k = f[c] /\ k2 = g[c] /\ R = records /\ o = order /\ S = stored
    OBVIOUS
  <2>2. /\ JobOK(k, R, o, S)
        /\ DOMAIN R \subseteq DOMAIN R2 /\ (\A r \in DOMAIN R : R2[r].state = R[r].state)
        /\ \A j \in DOMAIN o : j \in DOMAIN o2 /\ o2[j] = o[j]
        /\ k.op = "debited" => Stands(R2, k.record)
        /\ Follows(k2, k, R, o, S, R2, S2)
    BY <1>1, <2>1
  <2>3. JobOK(k2, R2, o2, S2)
    BY ONLY <2>2, JobGoesOn
  <2> QED BY <2>1, <2>2, <2>3 DEF Follows
<1>3. call' \in [Calls -> Jobs]
  BY <1>1, <1>2
<1>4. EconomyTypes'
  BY <1>3 DEF EconomyInv, EconomyTypes
<1>5. SumFunctionOnSet(DueOf', Calls) = SumFunctionOnSet(DueOf, Calls)
  BY DueStays
<1>6. issued' = SumFunctionOnSet(balances', Addresses) + collected' + fees'.kept
                + SumFunctionOnSet(DueOf', Calls)
  BY <1>5 DEF EconomyInv
<1>7. RentIsAsked
  <2>1. ASSUME NEW c \in Calls, call[c].op = "settled" PROVE call'[c] # Idle
    BY <1>1, <1>2, <2>1 DEF Idle
  <2> QED BY <2>1 DEF RentIsAsked
<1>8. RefsOK(records, order, stored)' /\ \A c \in Calls : JobOK(call[c], records, order, stored)'
  BY <1>1, <1>2
<1> QED BY <1>4, <1>6, <1>7, <1>8 DEF EconomyInv

\* What a call took and has not said depends on what its record pays.
LEMMA SameDue ==
    ASSUME EconomyInv, NEW c \in Calls,
           Follows(call'[c], call[c], records, order, stored, records', stored'),
           \A r \in DOMAIN records : records'[r].perBlock = records[r].perBlock
    PROVE  Due(c)' = Due(c)
<1>1. PICK k, k2, R, R2 : k = call[c] /\ k2 = call'[c] /\ R = records /\ R2 = records'
  OBVIOUS
<1>2. /\ k2.op = k.op /\ (k.op \notin {"debited", "settled"} => k2 = k)
      /\ k.op \in {"debited", "settled"} => k2.record = k.record /\ k2.ok = k.ok /\ k2.total = k.total
  BY <1>1 DEF Follows
<1>3. k.op = "debited" => k.record \in DOMAIN R
  BY <1>1 DEF EconomyInv, JobOK
<1>4. /\ k.op = "debited" => R2[k2.record].perBlock = R[k.record].perBlock
  BY <1>1, <1>2, <1>3
<1> QED BY <1>1, <1>2, <1>4 DEF Due

\* Calls that owe less go on.
LEMMA OwingFollows ==
    ASSUME NEW f \in [Calls -> Jobs], call' = Owing(f)
    PROVE  /\ DOMAIN call' = Calls /\ call' = [c \in Calls |-> call'[c]]
           /\ \A c \in Calls : Follows(call'[c], f[c], records, order, stored, records', stored')
<1>1. PICK g : g = call'
  OBVIOUS
<1>2. \A c \in Calls : Follows(g[c], f[c], records, order, stored, records', stored')
  BY <1>1, OwingShrinks
<1>3. DOMAIN g = Calls /\ g = [c \in Calls |-> g[c]]
  BY <1>1 DEF Owing
<1> QED BY <1>1, <1>2, <1>3

\* A record q is changed, in what it owes or is: it remains a record of its state.
LEMMA RecordChanges ==
    ASSUME NEW R \in Seq(Rent), NEW q \in DOMAIN R, NEW v, v \in Rent, v.state = R[q].state,
           v.perBlock = R[q].perBlock, v.overtaken = R[q].overtaken, NEW R2, R2 = [R EXCEPT ![q] = v]
    PROVE  /\ R2 \in Seq(Rent) /\ DOMAIN R2 = DOMAIN R
           /\ \A r \in DOMAIN R : /\ R2[r].state = R[r].state /\ R2[r].perBlock = R[r].perBlock
                                  /\ R2[r].overtaken = R[r].overtaken
           /\ \A r \in DOMAIN R : Stands(R, r) => Stands(R2, r)
<1>1. R2 \in Seq(Rent) /\ DOMAIN R2 = DOMAIN R
  BY ExceptSeq, LenProperties
<1>2. \A r \in DOMAIN R : /\ R2[r].state = R[r].state /\ R2[r].perBlock = R[r].perBlock
                          /\ R2[r].overtaken = R[r].overtaken
  OBVIOUS
<1>3. \A r \in DOMAIN R : Stands(R, r) => Stands(R2, r)
  BY <1>1, <1>2 DEF Stands, Newest
<1> QED BY <1>1, <1>2, <1>3

\* The references are in order when a record that stands is stored in its state's place.
LEMMA RefsMove ==
    ASSUME NEW R, NEW o, NEW S, RefsOK(R, o, S), NEW R2 \in Seq(Rent), NEW S2, DOMAIN R2 = DOMAIN R,
           \A r \in DOMAIN R : R2[r].state = R[r].state,
           \A r \in DOMAIN R : Stands(R, r) => Stands(R2, r),
           S2 = S \/ \E q \in DOMAIN R : Stands(R, q) /\ S2 = [S EXCEPT ![R[q].state] = q]
    PROVE  RefsOK(R2, o, S2)
<1>1. /\ DOMAIN R = 1..Len(R) /\ Len(R) \in Nat
      /\ \A r \in DOMAIN R : R[r].state \in RentStates
  BY RecordFacts
<1>2. /\ o \in Seq(RentStates) /\ S \in [RentStates -> Nat]
      /\ \A s \in RentStates : S[s] # 0 =>
            S[s] \in DOMAIN R /\ R[S[s]].state = s /\ Stands(R, S[s]) /\ (\E j \in DOMAIN o : o[j] = s)
      /\ \A r \in DOMAIN R : S[R[r].state] # 0
      /\ \A j \in DOMAIN o : S[o[j]] # 0
  BY DEF RefsOK
<1>3. CASE S2 = S
  BY <1>2, <1>3 DEF RefsOK
<1>4. ASSUME NEW q \in DOMAIN R, Stands(R, q), S2 = [S EXCEPT ![R[q].state] = q]
      PROVE  RefsOK(R2, o, S2)
  <2>1. q \in Nat /\ q # 0 /\ R[q].state \in RentStates /\ S[R[q].state] # 0
    BY <1>1, <1>2
  <2>2. S2 \in [RentStates -> Nat] /\ \A s \in RentStates : S2[s] = IF s = R[q].state THEN q ELSE S[s]
    BY <1>2, <1>4, <2>1
  <2>3. \A s \in RentStates : S2[s] # 0 => S[s] # 0
    BY <2>1, <2>2
  <2>4. ASSUME NEW s \in RentStates, S2[s] # 0
        PROVE  S2[s] \in DOMAIN R /\ R[S2[s]].state = s /\ Stands(R, S2[s]) /\ \E j \in DOMAIN o : o[j] = s
    BY <1>2, <1>4, <2>1, <2>2, <2>3, <2>4
  <2>5. \A s \in RentStates : S2[s] # 0 =>
            S2[s] \in DOMAIN R2 /\ R2[S2[s]].state = s /\ Stands(R2, S2[s]) /\ (\E j \in DOMAIN o : o[j] = s)
    BY <2>4
  <2>6. \A r \in DOMAIN R2 : S2[R2[r].state] # 0
    BY <1>1, <1>2, <2>1, <2>2
  <2>7. \A j \in DOMAIN o : S2[o[j]] # 0
    <3>1. \A j \in DOMAIN o : o[j] \in RentStates
      BY <1>2, LenProperties, ElementOfSeq
    <3> QED BY <1>2, <2>1, <2>2, <3>1
  <2> QED BY <1>2, <2>2, <2>5, <2>6, <2>7 DEF RefsOK
<1> QED BY <1>3, <1>4

\* Only the record that stands is put in the place of another.
LEMMA StandsWhenStored ==
    ASSUME RefsOK(records', order', stored'),
           \A s \in RentStates : stored'[s] # stored[s] => stored'[s] # 0
    PROVE  RegistrationsStand
<1>1. SUFFICES ASSUME NEW s \in RentStates, stored'[s] # stored[s]
               PROVE  \/ \A r \in DOMAIN records' : records'[r].state = s => r <= stored'[s]
                      \/ records'[stored'[s]].overtaken
  BY DEF RegistrationsStand
<1>2. PICK R2, S, S2 : R2 = records' /\ S = stored /\ S2 = stored'
  OBVIOUS
<1>3. S2[s] # 0
  BY <1>1, <1>2
<1> QED BY <1>1, <1>2, <1>3 DEF RefsOK, Stands, Newest

\* A call that awaits: debit has answered.
LEMMA SettleKeeps ==
    ASSUME EconomyInv, NEW c \in Calls, Settle(c)
    PROVE  EconomyInv' /\ RentIsAsked /\ RegistrationsStand
<1>1. PICK R, o, S, job, q : R = records /\ o = order /\ S = stored /\ job = call[c] /\ q = job.record
  OBVIOUS
<1>2. PICK s : s = R[q].state
  OBVIOUS
<1>3. PICK k2 : k2 = [job EXCEPT !.op = "settled", !.owed = @ \ {q},
                                 !.total = IF job.ok THEN @ + R[q].perBlock ELSE @]
  OBVIOUS
<1>4. PICK f : f = [call EXCEPT ![c] = k2]
  OBVIOUS
<1>5. /\ job.op = "debited" /\ UNCHANGED <<balances, issued, fees, order, collected, collections>>
      /\ call' = Owing(f)
      /\ records' = IF job.ok THEN [R EXCEPT ![q].lastPaidHeight = job.height]
                              ELSE [R EXCEPT ![S[s]].active = FALSE]
      /\ stored' = IF job.ok THEN [S EXCEPT ![s] = q] ELSE S
  BY <1>1, <1>2, <1>3, <1>4 DEF Settle
<1>6. /\ RefsOK(R, o, S) /\ R \in Seq(Rent) /\ call \in [Calls -> Jobs]
      /\ \A d \in Calls : JobOK(call[d], R, o, S)
  BY <1>1 DEF EconomyInv, EconomyTypes, RefsOK
<1>7. job \in Collecting /\ job.ok \in BOOLEAN /\ job.total \in Nat /\ job.height \in Nat /\ job.owed \in SUBSET Nat
  BY <1>1, <1>5, <1>6, JobKinds DEF Collecting
<1>8. q \in DOMAIN R /\ Stands(R, q)
  BY <1>1, <1>5, <1>6 DEF JobOK
<1>9. /\ DOMAIN R = 1..Len(R) /\ Len(R) \in Nat
      /\ \A r \in DOMAIN R : R[r] \in Rent /\ R[r].state \in RentStates /\ R[r].perBlock \in Nat
  BY <1>6, RecordFacts
<1>10. s \in RentStates /\ S[s] \in DOMAIN R /\ S \in [RentStates -> Nat] /\ q # 0
  BY <1>2, <1>6, <1>8, <1>9 DEF RefsOK
<1>11. /\ k2 \in Collecting /\ k2.op = "settled" /\ k2.at = job.at /\ k2.record = q /\ k2.owed = job.owed \ {q}
       /\ k2.total = IF job.ok THEN job.total + R[q].perBlock ELSE job.total
  <2>1. R[q].perBlock \in Nat
    BY <1>8, <1>9
  <2>2. PICK w, t : w = job.owed \ {q} /\ t = IF job.ok THEN job.total + R[q].perBlock ELSE job.total
    OBVIOUS
  <2>3. w \in SUBSET Nat /\ t \in Nat
    BY <1>7, <2>1, <2>2
  <2>4. k2 = [job EXCEPT !.op = "settled", !.owed = w, !.total = t]
    BY <1>3, <1>7, <2>2 DEF Collecting
  <2>5. k2 \in Collecting
    BY <1>7, <2>3, <2>4 DEF Collecting
  <2>6. /\ k2.op = "settled" /\ k2.at = job.at /\ k2.record = job.record /\ k2.owed = w /\ k2.total = t
    BY <1>7, <2>4 DEF Collecting
  <2> QED BY <1>1, <2>2, <2>5, <2>6
<1>12. k2 \in Jobs /\ f \in [Calls -> Jobs] /\ f[c] = k2 /\ \A d \in Calls \ {c} : f[d] = call[d]
  BY <1>4, <1>6, <1>11 DEF Jobs
<1>13. JobOK(k2, R, o, S)
  <2>1. \A r \in k2.owed : Ahead(R, o, S, r, k2.at)
    BY <1>1, <1>5, <1>6, <1>11 DEF JobOK
  <2> QED BY <1>8, <1>11, <2>1 DEF JobOK
<1>14. PICK w, v : /\ w = IF job.ok THEN q ELSE S[s]
                   /\ v = IF job.ok THEN [R[q] EXCEPT !.lastPaidHeight = job.height]
                                    ELSE [R[S[s]] EXCEPT !.active = FALSE]
  OBVIOUS
<1>15. w \in DOMAIN R /\ R[w] \in Rent
  BY <1>8, <1>9, <1>10, <1>14
<1>16. /\ v \in Rent /\ v.state = R[w].state /\ v.perBlock = R[w].perBlock /\ v.overtaken = R[w].overtaken
  <2>1. CASE job.ok
    BY <1>7, <1>14, <1>15, <2>1 DEF Rent
  <2>2. CASE ~job.ok
    BY <1>14, <1>15, <2>2 DEF Rent
  <2> QED BY <2>1, <2>2
<1>17. PICK R2, S2 : R2 = records' /\ S2 = stored'
  OBVIOUS
<1>18. R2 = [R EXCEPT ![w] = v]
  <2>1. CASE job.ok
    BY <1>5, <1>14, <1>17, <2>1
  <2>2. CASE ~job.ok
    BY <1>5, <1>14, <1>17, <2>2
  <2> QED BY <2>1, <2>2
<1>19. /\ R2 \in Seq(Rent) /\ DOMAIN R2 = DOMAIN R
       /\ \A r \in DOMAIN R : R2[r].state = R[r].state /\ R2[r].perBlock = R[r].perBlock
       /\ \A r \in DOMAIN R : Stands(R, r) => Stands(R2, r)
  BY <1>6, <1>15, <1>16, <1>18, RecordChanges
<1>20. S2 = S \/ \E p \in DOMAIN R : Stands(R, p) /\ S2 = [S EXCEPT ![R[p].state] = p]
  BY <1>2, <1>5, <1>7, <1>8, <1>17
<1>21. RefsOK(R2, o, S2)
  <2>1. /\ RefsOK(R, o, S) /\ R2 \in Seq(Rent) /\ DOMAIN R2 = DOMAIN R
        /\ \A r \in DOMAIN R : R2[r].state = R[r].state
        /\ \A r \in DOMAIN R : Stands(R, r) => Stands(R2, r)
        /\ S2 = S \/ \E p \in DOMAIN R : Stands(R, p) /\ S2 = [S EXCEPT ![R[p].state] = p]
    BY <1>6, <1>19, <1>20
  <2> QED BY ONLY <2>1, RefsMove
<1>22. /\ DOMAIN call' = Calls /\ call' = [d \in Calls |-> call'[d]]
       /\ \A d \in Calls : Follows(call'[d], f[d], records, order, stored, records', stored')
  BY <1>5, <1>12, OwingFollows
<1>23. ASSUME NEW d \in Calls PROVE Due(d)' = Due(d)
  <2>1. \A r \in DOMAIN records : records'[r].perBlock = records[r].perBlock
    BY <1>1, <1>17, <1>19
  <2>2. CASE d # c
    <3>1. Follows(call'[d], call[d], records, order, stored, records', stored')
      BY <1>12, <1>22, <2>2
    <3> QED BY <2>1, <3>1, SameDue
  <2>3. CASE d = c
    <3>1. Follows(call'[c], k2, records, order, stored, records', stored')
      BY <1>12, <1>22
    <3>2. call'[c].op = "settled" /\ call'[c].total = k2.total
      BY <1>11, <3>1 DEF Follows
    <3>3. Due(c)' = k2.total
      BY <3>2 DEF Due
    <3>4. Due(c) = IF job.ok THEN job.total + R[q].perBlock ELSE job.total
      BY <1>1, <1>5, <1>7 DEF Due
    <3> QED BY <1>11, <2>3, <3>3, <3>4
  <2> QED BY <2>2, <2>3
<1>24. \A d \in Calls : JobOK(f[d], records, order, stored)
  BY <1>1, <1>6, <1>12, <1>13
<1>25. \A d \in Calls : f[d].op = "debited" => Stands(records', f[d].record)
  <2>1. ASSUME NEW d \in Calls, f[d].op = "debited" PROVE Stands(records', f[d].record)
    <3>1. Stands(R, f[d].record) /\ f[d].record \in DOMAIN R
      BY <1>1, <1>24, <2>1 DEF JobOK
    <3> QED BY <1>17, <1>19, <3>1
  <2> QED BY <2>1
<1>26. \A d \in Calls : call[d].op = "settled" => f[d].op # "idle"
  BY <1>11, <1>12
<1>27. /\ DOMAIN records \subseteq DOMAIN records'
       /\ \A r \in DOMAIN records : records'[r].state = records[r].state
       /\ \A j \in DOMAIN order : j \in DOMAIN order' /\ order'[j] = order[j]
       /\ RefsOK(records', order', stored') /\ UNCHANGED <<balances, issued, fees, collected>>
  BY <1>1, <1>5, <1>17, <1>19, <1>21
<1>28. EconomyInv' /\ RentIsAsked
  BY <1>12, <1>22, <1>23, <1>24, <1>25, <1>26, <1>27, RecordsMove
<1>29. \A p \in RentStates : stored'[p] # stored[p] => stored'[p] # 0
  BY <1>1, <1>5, <1>10
<1> QED BY <1>27, <1>28, <1>29, StandsWhenStored

\* A record is reactivated.
LEMMA ResumeKeeps ==
    ASSUME EconomyInv, NEW c \in Calls, Resume(c)
    PROVE  EconomyInv' /\ RentIsAsked /\ RegistrationsStand
<1>1. PICK R, o, S, R2 : R = records /\ o = order /\ S = stored /\ R2 = records'
  OBVIOUS
<1>2. PICK w : w = S[R[call[c].record].state]
  OBVIOUS
<1>3. /\ call[c].op = "resumes" /\ UNCHANGED <<balances, issued, fees, order, stored, collected>>
      /\ call' = [call EXCEPT ![c] = Idle] /\ R2 = [R EXCEPT ![w].active = TRUE]
  BY <1>1, <1>2 DEF Resume
<1>4. /\ RefsOK(R, o, S) /\ R \in Seq(Rent) /\ call \in [Calls -> Jobs]
      /\ \A d \in Calls : JobOK(call[d], R, o, S)
  BY <1>1 DEF EconomyInv, EconomyTypes, RefsOK
<1>5. call[c].record \in DOMAIN R
  BY <1>3, <1>4 DEF JobOK
<1>6. /\ \A r \in DOMAIN R : R[r] \in Rent /\ R[r].state \in RentStates
  BY <1>4, RecordFacts
<1>7. w \in DOMAIN R
  BY <1>2, <1>4, <1>5, <1>6 DEF RefsOK
<1>8. PICK v : v = [R[w] EXCEPT !.active = TRUE]
  OBVIOUS
<1>9. /\ v \in Rent /\ v.state = R[w].state /\ v.perBlock = R[w].perBlock /\ v.overtaken = R[w].overtaken
      /\ v.active
  BY <1>6, <1>7, <1>8 DEF Rent
<1>10. R2 = [R EXCEPT ![w] = v]
  BY <1>3, <1>8
<1>11. /\ R2 \in Seq(Rent) /\ DOMAIN R2 = DOMAIN R
       /\ \A r \in DOMAIN R : R2[r].state = R[r].state /\ R2[r].perBlock = R[r].perBlock
       /\ \A r \in DOMAIN R : Stands(R, r) => Stands(R2, r)
  BY <1>4, <1>7, <1>9, <1>10, RecordChanges
<1>12. RefsOK(R2, o, S)
  <2>1. PICK S2 : S2 = S
    OBVIOUS
  <2>2. /\ RefsOK(R, o, S) /\ R2 \in Seq(Rent) /\ DOMAIN R2 = DOMAIN R
        /\ \A r \in DOMAIN R : R2[r].state = R[r].state
        /\ \A r \in DOMAIN R : Stands(R, r) => Stands(R2, r)
        /\ S2 = S \/ \E p \in DOMAIN R : Stands(R, p) /\ S2 = [S EXCEPT ![R[p].state] = p]
    BY <1>4, <1>11, <2>1
  <2>3. RefsOK(R2, o, S2)
    BY ONLY <2>2, RefsMove
  <2> QED BY <2>1, <2>3
<1>13. PICK f : f = [call EXCEPT ![c] = Idle]
  OBVIOUS
<1>14. /\ f \in [Calls -> Jobs] /\ f[c] = Idle /\ call' = f /\ \A d \in Calls \ {c} : f[d] = call[d]
  BY <1>3, <1>4, <1>13 DEF Jobs
<1>15. \A r \in DOMAIN R : R[r].active => R2[r].active
  BY <1>9, <1>10
<1>16. ASSUME NEW d \in Calls
       PROVE  Follows(call'[d], f[d], records, order, stored, records', stored')
  <2>1. PICK k : k = f[d]
    OBVIOUS
  <2>2. k \in Jobs /\ call'[d] = k
    BY <1>14, <2>1
  <2>3. \A r, n : Ahead(R, o, S, r, n) => R2[r].active /\ S[R2[r].state] = r
    BY <1>11, <1>15 DEF Ahead
  <2>4. Follows(k, k, R, o, S, R2, S)
    BY <2>2, <2>3 DEF Follows
  <2> QED BY <1>1, <1>3, <2>1, <2>2, <2>4
<1>17. ASSUME NEW d \in Calls PROVE Due(d)' = Due(d)
  <2>1. \A r \in DOMAIN records : records'[r].perBlock = records[r].perBlock
    BY <1>1, <1>11
  <2>2. CASE d # c
    <3>1. Follows(call'[d], call[d], records, order, stored, records', stored')
      BY <1>14, <1>16, <2>2
    <3> QED BY <2>1, <3>1, SameDue
  <2>3. CASE d = c
    BY <1>3, <1>14, <2>3 DEF Due, Idle
  <2> QED BY <2>2, <2>3
<1>18. \A d \in Calls : JobOK(f[d], records, order, stored)
  <2>1. JobOK(Idle, R, o, S)
    BY DEF JobOK, Idle
  <2> QED BY <1>1, <1>4, <1>14, <2>1
<1>19. \A d \in Calls : f[d].op = "debited" => Stands(records', f[d].record)
  <2>1. ASSUME NEW d \in Calls, f[d].op = "debited" PROVE Stands(records', f[d].record)
    <3>1. Stands(R, f[d].record) /\ f[d].record \in DOMAIN R
      BY <1>1, <1>18, <2>1 DEF JobOK
    <3> QED BY <1>1, <1>11, <3>1
  <2> QED BY <2>1
<1>20. \A d \in Calls : call[d].op = "settled" => f[d].op # "idle"
  BY <1>3, <1>14
<1>21. /\ DOMAIN records \subseteq DOMAIN records'
       /\ \A r \in DOMAIN records : records'[r].state = records[r].state
       /\ \A j \in DOMAIN order : j \in DOMAIN order' /\ order'[j] = order[j]
       /\ RefsOK(records', order', stored') /\ UNCHANGED <<balances, issued, fees, collected>>
  BY <1>1, <1>3, <1>11, <1>12
<1>22. DOMAIN call' = Calls /\ call' = [d \in Calls |-> call'[d]]
  BY <1>14
<1>23. EconomyInv' /\ RentIsAsked
  BY <1>14, <1>16, <1>17, <1>18, <1>19, <1>20, <1>21, <1>22, RecordsMove
<1>24. \A p \in RentStates : stored'[p] # stored[p] => stored'[p] # 0
  BY <1>3
<1> QED BY <1>21, <1>23, <1>24, StandsWhenStored

\* A record is registered: the newest of its state.
LEMMA RegisterKeeps ==
    ASSUME EconomyInv, height \in Nat, NEW s \in RentStates, NEW p \in Payers, NEW rate \in Rates,
           RegisterRent(s, p, rate)
    PROVE  EconomyInv' /\ RentIsAsked /\ RegistrationsStand
<1>1. PICK R, o, S, R2, o2, S2, n : /\ R = records /\ o = order /\ S = stored /\ R2 = records' /\ o2 = order'
                                    /\ S2 = stored' /\ n = Len(records)
  OBVIOUS
<1>2. PICK awaited : awaited = {call[c].record : c \in Doing("debited")}
  OBVIOUS
<1>3. PICK new : new = [state |-> s, payer |-> p, perBlock |-> rate,
                        active |-> TRUE, lastPaidHeight |-> height, overtaken |-> FALSE]
  OBVIOUS
<1>4. /\ R2 = [r \in 1..n + 1 |->
                 IF r > n THEN new
                 ELSE [R[r] EXCEPT !.overtaken = R[r].overtaken \/ (r \in awaited /\ R[r].state = s)]]
      /\ S2 = [S EXCEPT ![s] = n + 1]
      /\ o2 = IF S[s] = 0 THEN Append(o, s) ELSE o
      /\ call' = Owing(call) /\ UNCHANGED <<balances, issued, fees, collected>>
  BY <1>1, <1>2, <1>3 DEF RegisterRent
<1>5. /\ RefsOK(R, o, S) /\ R \in Seq(Rent) /\ o \in Seq(RentStates) /\ S \in [RentStates -> Nat]
      /\ call \in [Calls -> Jobs] /\ \A d \in Calls : JobOK(call[d], R, o, S)
  BY <1>1 DEF EconomyInv, EconomyTypes, RefsOK
<1>6. /\ n \in Nat /\ DOMAIN R = 1..n /\ Len(o) \in Nat /\ DOMAIN o = 1..Len(o)
      /\ \A r \in DOMAIN R : R[r] \in Rent /\ R[r].state \in RentStates
      /\ \A j \in DOMAIN o : o[j] \in RentStates
  BY <1>1, <1>5, RecordFacts
<1>7. new \in Rent /\ new.state = s
  BY <1>3, EconomicsAssumption DEF Rent
<1>8. ASSUME NEW r \in 1..n
      PROVE  /\ R2[r] \in Rent /\ R2[r].state = R[r].state /\ R2[r].perBlock = R[r].perBlock
             /\ R2[r].overtaken <=> R[r].overtaken \/ (r \in awaited /\ R[r].state = s)
  <2>1. PICK v, b : v = R[r] /\ b = (R[r].overtaken \/ (r \in awaited /\ R[r].state = s))
    OBVIOUS
  <2>2. v \in Rent /\ b \in BOOLEAN /\ r \in 1..n + 1 /\ ~(r > n)
    <3>1. (R[r].overtaken \/ (r \in awaited /\ R[r].state = s)) \in BOOLEAN
      OBVIOUS
    <3> QED BY <1>6, <2>1, <3>1
  <2>3. R2[r] = [v EXCEPT !.overtaken = b]
    BY <1>4, <2>1, <2>2
  <2>4. /\ [v EXCEPT !.overtaken = b] \in Rent
        /\ [v EXCEPT !.overtaken = b].state = v.state /\ [v EXCEPT !.overtaken = b].perBlock = v.perBlock
        /\ [v EXCEPT !.overtaken = b].overtaken = b
    BY <2>2 DEF Rent
  <2> QED BY <2>1, <2>3, <2>4
<1>9. R2[n + 1] = new /\ DOMAIN R2 = 1..n + 1
  BY <1>4, <1>6
<1>10. R2 \in Seq(Rent)
  <2>1. \A r \in 1..n + 1 : R2[r] \in Rent
    BY <1>6, <1>7, <1>8, <1>9
  <2>2. R2 \in [1..n + 1 -> Rent] /\ n + 1 \in Nat
    BY <1>4, <1>6, <2>1
  <2> QED BY <2>2, SeqDef
<1>11. /\ o2 \in Seq(RentStates)
       /\ \A j \in DOMAIN o : j \in DOMAIN o2 /\ o2[j] = o[j]
       /\ \A j \in DOMAIN o2 : j \in DOMAIN o \/ o2[j] = s
       /\ \E j \in DOMAIN o2 : o2[j] = s
  <2>1. CASE S[s] = 0
    <3>1. o2 = Append(o, s)
      BY <1>4, <2>1
    <3>2. /\ o2 \in Seq(RentStates) /\ Len(o2) = Len(o) + 1
          /\ \A j \in 1..Len(o) : o2[j] = o[j] /\ o2[Len(o) + 1] = s
          /\ o2[Len(o) + 1] = s
      BY <1>5, <3>1, AppendProperties
    <3>3. DOMAIN o2 = 1..Len(o) + 1
      BY <3>2, LenProperties
    <3> QED BY <1>6, <3>2, <3>3
  <2>2. CASE S[s] # 0
    <3>1. o2 = o
      BY <1>4, <2>2
    <3> QED BY <1>5, <2>2, <3>1 DEF RefsOK
  <2> QED BY <2>1, <2>2
<1>12. S2 \in [RentStates -> Nat] /\ S2[s] = n + 1 /\ \A t \in RentStates \ {s} : S2[t] = S[t]
  BY <1>4, <1>5, <1>6
<1>13. ASSUME NEW r \in 1..n, R[r].state # s, Stands(R, r)
       PROVE  Stands(R2, r)
  <2>1. CASE R[r].overtaken
    BY <1>8, <2>1 DEF Stands
  <2>2. CASE Newest(R, r)
    <3>1. ASSUME NEW q \in 1..n + 1, R2[q].state = R2[r].state PROVE q <= r
      <4>1. q # n + 1
        BY <1>7, <1>8, <1>9, <1>13, <3>1
      <4>2. q \in 1..n
        BY <1>6, <4>1
      <4>3. R[q].state = R[r].state
        BY <1>8, <3>1, <4>2
      <4> QED BY <1>6, <2>2, <4>2, <4>3 DEF Newest
    <3> QED BY <1>9, <3>1 DEF Stands, Newest
  <2> QED BY <1>13, <2>1, <2>2 DEF Stands
<1>14. RefsOK(R2, o2, S2)
  <2>1. ASSUME NEW t \in RentStates, S2[t] # 0
        PROVE  S2[t] \in DOMAIN R2 /\ R2[S2[t]].state = t /\ Stands(R2, S2[t]) /\ \E j \in DOMAIN o2 : o2[j] = t
    <3>1. CASE t = s
      <4>1. Newest(R2, n + 1)
        BY <1>6, <1>9 DEF Newest
      <4> QED BY <1>6, <1>7, <1>9, <1>11, <1>12, <3>1, <4>1 DEF Stands
    <3>2. CASE t # s
      <4>1. S[t] # 0 /\ S2[t] = S[t]
        BY <1>12, <2>1, <3>2
      <4>2. S[t] \in 1..n /\ R[S[t]].state = t /\ Stands(R, S[t]) /\ \E j \in DOMAIN o : o[j] = t
        BY <1>5, <1>6, <4>1 DEF RefsOK
      <4>3. Stands(R2, S[t]) /\ R2[S[t]].state = t
        BY <1>8, <1>13, <3>2, <4>2
      <4>4. \E j \in DOMAIN o2 : o2[j] = t
        BY <1>11, <4>2
      <4>5. S[t] \in DOMAIN R2
        BY <1>6, <1>9, <4>2
      <4> QED BY <4>1, <4>3, <4>4, <4>5
    <3> QED BY <3>1, <3>2
  <2>2. ASSUME NEW r \in DOMAIN R2 PROVE S2[R2[r].state] # 0
    <3>1. CASE r = n + 1
      BY <1>6, <1>7, <1>9, <1>12, <3>1
    <3>2. CASE r # n + 1
      <4>1. r \in 1..n
        BY <1>6, <1>9, <2>2, <3>2
      <4>2. S[R[r].state] # 0 /\ R[r].state \in RentStates /\ R2[r].state = R[r].state
        BY <1>5, <1>6, <1>8, <4>1 DEF RefsOK
      <4> QED BY <1>6, <1>12, <4>2
    <3> QED BY <3>1, <3>2
  <2>3. ASSUME NEW j \in DOMAIN o2 PROVE S2[o2[j]] # 0
    <3>1. CASE o2[j] = s
      BY <1>6, <1>12, <3>1
    <3>2. CASE o2[j] # s
      <4>1. j \in DOMAIN o /\ o2[j] = o[j]
        BY <1>11, <3>2
      <4>2. S[o[j]] # 0 /\ o[j] \in RentStates
        BY <1>5, <1>6, <4>1 DEF RefsOK
      <4> QED BY <1>12, <3>2, <4>1, <4>2
    <3> QED BY <3>1, <3>2
  <2> QED BY <1>10, <1>11, <1>12, <2>1, <2>2, <2>3 DEF RefsOK
<1>15. /\ DOMAIN call' = Calls /\ call' = [d \in Calls |-> call'[d]]
       /\ \A d \in Calls : Follows(call'[d], call[d], records, order, stored, records', stored')
  <2>1. PICK f : f = call
    OBVIOUS
  <2>2. f \in [Calls -> Jobs] /\ call' = Owing(f)
    BY <1>4, <1>5, <2>1
  <2> QED BY <2>1, <2>2, OwingFollows
<1>16. \A d \in Calls : Due(d)' = Due(d)
  <2>1. \A r \in DOMAIN records : records'[r].perBlock = records[r].perBlock
    BY <1>1, <1>6, <1>8
  <2> QED BY <1>15, <2>1, SameDue
<1>17. ASSUME NEW d \in Calls, call[d].op = "debited"
       PROVE  Stands(R2, call[d].record)
  <2>1. PICK q : q = call[d].record
    OBVIOUS
  <2>2. q \in 1..n /\ Stands(R, q) /\ q \in awaited
    BY <1>2, <1>5, <1>6, <1>17, <2>1 DEF JobOK, Doing
  <2>3. CASE R[q].state = s
    BY <1>8, <2>1, <2>2, <2>3 DEF Stands
  <2>4. CASE R[q].state # s
    BY <1>13, <2>1, <2>2, <2>4
  <2> QED BY <2>3, <2>4
<1>18. PICK f : f = call
  OBVIOUS
<1>19. /\ f \in [Calls -> Jobs]
       /\ \A d \in Calls : Follows(call'[d], f[d], records, order, stored, records', stored')
       /\ \A d \in Calls : JobOK(f[d], records, order, stored)
       /\ \A d \in Calls : f[d].op = "debited" => Stands(records', f[d].record)
       /\ \A d \in Calls : call[d].op = "settled" => f[d].op # "idle"
  BY <1>1, <1>5, <1>15, <1>17, <1>18
<1>20. /\ DOMAIN records \subseteq DOMAIN records'
       /\ \A r \in DOMAIN records : records'[r].state = records[r].state
       /\ \A j \in DOMAIN order : j \in DOMAIN order' /\ order'[j] = order[j]
       /\ RefsOK(records', order', stored') /\ UNCHANGED <<balances, issued, fees, collected>>
  BY <1>1, <1>4, <1>6, <1>8, <1>9, <1>11, <1>14
<1>21. EconomyInv' /\ RentIsAsked
  BY <1>15, <1>16, <1>19, <1>20, RecordsMove
<1>22. \A t \in RentStates : stored'[t] # stored[t] => stored'[t] # 0
  BY <1>1, <1>6, <1>12
<1> QED BY <1>20, <1>21, <1>22, StandsWhenStored

\* A step of the balances and the rents.
LEMMA EconomyMoves ==
    ASSUME EconomyInv, height \in Nat, EconomyStep
    PROVE  EconomyInv' /\ RentIsAsked /\ RegistrationsStand
<1>1. CASE \E a \in Addresses, n \in Credits : Credit(a, n) \/ \E b \in Addresses : Transfer(a, b, n)
  BY <1>1, CreditKeeps, TransferKeeps
<1>2. CASE \E s \in RentStates, a \in Payers, rate \in Rates : RegisterRent(s, a, rate)
  BY <1>2, RegisterKeeps
<1>3. CASE \E c \in Calls : \/ \E a \in Addresses, fee \in FeeAmounts : ChargeFee(c, a, fee)
                            \/ Distribute(c)
  BY <1>3, ChargeKeeps, DistributeKeeps
<1>4. CASE \E c \in Calls : (\E s \in RentStates : Reactivate(c, s)) \/ ReadBalance(c) \/ Resume(c)
  BY <1>4, ReactivateKeeps, ReadKeeps, ResumeKeeps
<1>5. CASE \E c \in Calls : CollectRent(c) \/ Settle(c) \/ Continue(c)
  BY <1>5, CollectKeeps, SettleKeeps, ContinueKeeps
<1> QED BY <1>1, <1>2, <1>3, <1>4, <1>5 DEF EconomyStep

\* Nothing is issued, registered or under way at first.
LEMMA EconomyStarts == EconomyInit => EconomyInv
<1> SUFFICES ASSUME EconomyInit PROVE EconomyInv
  OBVIOUS
<1>1. /\ balances = [a \in Addresses |-> 0] /\ issued = 0 /\ fees = [total |-> 0, kept |-> 0]
      /\ records = <<>> /\ order = <<>> /\ stored = [s \in RentStates |-> 0]
      /\ collected = 0 /\ call = [c \in Calls |-> Idle]
  BY DEF EconomyInit
<1>2. Idle \in Jobs
  BY DEF Jobs
<1>3. EconomyTypes
  BY <1>1, <1>2 DEF EconomyTypes
<1>4. RefsOK(records, order, stored)
  BY <1>1 DEF RefsOK
<1>5. \A c \in Calls : JobOK(call[c], records, order, stored)
  BY <1>1 DEF JobOK, Idle
<1>6. \A c \in Calls : DueOf[c] = 0
  BY <1>1 DEF DueOf, Due, Idle
<1>7. SumFunctionOnSet(balances, Addresses) = 0 /\ SumFunctionOnSet(DueOf, Calls) = 0
  BY <1>1, <1>6, SumOfZeros, EconomicsAssumption
<1> QED BY <1>1, <1>3, <1>4, <1>5, <1>7 DEF EconomyInv

\* The invariant says that the money adds up.
LEMMA EconomyImplies == EconomyInv => MoneyAddsUp
BY DEF EconomyInv, EconomyTypes, MoneyAddsUp, DueOf

\* Every step, of the balances' part or of the paymaster's, which leaves them alone.
LEMMA EconomyKeeps ==
    SponsorInv /\ EconomyInv /\ [SponsorNext]_<<vars, economy, part>> =>
        EconomyInv' /\ (economy' = economy \/ (RentIsAsked /\ RegistrationsStand))
<1> SUFFICES ASSUME SponsorInv, EconomyInv, [SponsorNext]_<<vars, economy, part>>
             PROVE  EconomyInv' /\ (economy' = economy \/ (RentIsAsked /\ RegistrationsStand))
  OBVIOUS
<1>1. CASE UNCHANGED economy
  <2>1. /\ balances' = balances /\ issued' = issued /\ fees' = fees /\ records' = records /\ order' = order
        /\ stored' = stored /\ collected' = collected /\ call' = call
    BY <1>1 DEF economy
  <2>2. EconomyTypes' /\ RefsOK(records, order, stored)'
        /\ \A c \in Calls : JobOK(call[c], records, order, stored)'
    BY <2>1 DEF EconomyInv, EconomyTypes
  <2>3. \A c \in Calls : Due(c)' = Due(c)
    BY <2>1 DEF Due
  <2>4. SumFunctionOnSet(DueOf', Calls) = SumFunctionOnSet(DueOf, Calls)
    BY <2>3, DueStays
  <2>5. issued' = SumFunctionOnSet(balances', Addresses) + collected' + fees'.kept
                  + SumFunctionOnSet(DueOf', Calls)
    BY <2>1, <2>4 DEF EconomyInv
  <2> QED BY <1>1, <2>2, <2>5 DEF EconomyInv
<1>2. CASE EconomyStep
  <2>1. height \in Nat
    BY SponsorFacts
  <2> QED BY <1>2, <2>1, EconomyMoves
<1> QED BY <1>1, <1>2 DEF SponsorNext

\* Whatever calls overlap, the balances and what the services took, or are about to
\* say, are together what was issued; a collection that ends has asked every record
\* that was due all along; and a registration stands until a later one, or until a
\* collection that awaited its payment puts its record back (chargeAndDistribute,
\* collectRent, registerRent).
THEOREM MoneyIsNotLost == SponsorSpec => EconomyAddsUp
<1>1. SponsorInit => SponsorInv /\ EconomyInv
  BY SponsorStarts, EconomyStarts DEF SponsorInit
<1>2. SponsorInv /\ EconomyInv /\ [SponsorNext]_<<vars, economy, part>> => SponsorInv' /\ EconomyInv'
  BY SponsorStep, EconomyKeeps
<1>3. SponsorInv /\ EconomyInv /\ [SponsorNext]_<<vars, economy, part>> =>
        [RentIsAsked /\ RegistrationsStand]_economy
  BY EconomyKeeps
<1>4. EconomyInv => MoneyAddsUp
  BY EconomyImplies
<1> QED BY <1>1, <1>2, <1>3, <1>4, PTL DEF SponsorSpec, EconomyAddsUp

-----------------------------------------------------------------------------
(* Tokens.                                                                   *)

(* The store.                                                                *)
StoreTypes(s) ==
    /\ s = [token |-> s.token, cls |-> s.cls, bal |-> s.bal, allow |-> s.allow, ops |-> s.ops,
            inst |-> s.inst, appr |-> s.appr]
    /\ s.token \in Token \cup {None} /\ s.cls \in Class \cup {None}
    /\ s.bal \in [Holders -> Int] /\ s.allow \in [Holders -> [Holders -> Int]]
    /\ s.inst \in [Instances -> Item \cup {None}] /\ DOMAIN s.appr = Instances
Active == {c \in TokenCalls : running[c] # NoCall}

(* Every version of the token, of its class and of an instance is one state of *)
(* it: a call whose version is the one that is stored read what is stored.   *)
SameToken(s, k) ==
    /\ s.token \in Token
    /\ k.tok.kind = s.token.kind /\ k.tok.max = s.token.max /\ k.tok.version <= s.token.version
    /\ k.tok.version = s.token.version => k.tok = s.token
SameClass(s, k) ==
    k.tok.kind = "SFT" /\ k.item # None =>
        /\ k.item \in Class /\ s.cls \in Class
        /\ k.item.max = s.cls.max /\ k.item.version <= s.cls.version
        /\ k.item.version = s.cls.version => k.item = s.cls
SameItem(s, k) ==
    k.tok.kind = "NFT" /\ k.item # None =>
        /\ k.item \in Item /\ k.id \in Instances /\ s.inst[k.id] \in Item
        /\ k.item.version <= s.inst[k.id].version
        /\ k.item.version = s.inst[k.id].version => k.item = s.inst[k.id]

(* What the checks of a call have left true by the time it writes.            *)
Checked(k) ==
    /\ k.op = "deploy" => k.tok.kind = "FT" /\ k.tok.supply = 0 /\ k.by = k.to /\ k.at \in {"initial", "supply"}
    /\ k.op = "deploy" /\ k.at = "supply" => Room(k.tok.max, 0, k.amt)
    /\ k.op = "mint" /\ k.at \in {"credit", "supply"} =>
          \/ k.tok.kind = "FT" /\ Room(k.tok.max, k.tok.supply, k.amt)
          \/ k.tok.kind = "NFT" /\ Room(k.tok.max, k.tok.supply, 1)
          \/ k.tok.kind = "SFT" /\ k.item # None /\ Room(k.item.max, k.item.supply, k.amt)
    /\ k.op = "burn" /\ k.at = "supply" /\ k.tok.kind = "SFT" => k.item # None
    /\ k.at \in {"balance", "allowance", "debit", "to", "credit", "class"} => k.tok.kind # "NFT"
    /\ k.at \in {"allowance", "debit"} => k.tok.kind = "FT"
    /\ k.at = "class" => k.tok.kind = "SFT"
    /\ k.at \in {"token", "initial"} => k.item = None
    /\ k.at \in {"instance", "approval"} => k.tok.kind = "NFT"
    /\ k.at \in {"approval", "operator"} /\ k.tok.kind = "NFT" => k.item # None
    /\ k.op \in {"mint", "transferFrom", "deploy"} => k.to \in Holders
    /\ k.op \in {"burn", "transferFrom"} /\ k.tok.kind # "NFT" => k.from \in Holders
    /\ k.op \in {"mint", "burn", "transferFrom", "approve"} /\ k.tok.kind = "NFT" => k.id \in Instances

Fits(s, k) == k \in Call /\ SameToken(s, k) /\ SameClass(s, k) /\ SameItem(s, k) /\ Checked(k)

SameCall(k, m) ==
    /\ m.op = k.op /\ m.by = k.by /\ m.from = k.from /\ m.to = k.to
    /\ m.amt = k.amt /\ m.id = k.id /\ m.tok = k.tok

(* What a step does to the records of the store: their versions only grow, and a *)
(* record with its old version is the old record.                            *)
Later(s, s2) ==
    /\ s.token \in Token =>
          /\ s2.token \in Token /\ s2.token.kind = s.token.kind /\ s2.token.max = s.token.max
          /\ s.token.version <= s2.token.version
          /\ s2.token.version = s.token.version => s2.token = s.token
    /\ s.cls \in Class =>
          /\ s2.cls \in Class /\ s2.cls.max = s.cls.max /\ s.cls.version <= s2.cls.version
          /\ s2.cls.version = s.cls.version => s2.cls = s.cls
    /\ \A i \in Instances : s.inst[i] \in Item =>
          /\ s2.inst[i] \in Item /\ s.inst[i].version <= s2.inst[i].version
          /\ s2.inst[i].version = s.inst[i].version => s2.inst[i] = s.inst[i]

(* What was issued is what is stored, within the maximum.                     *)
IssuedIn(s) ==
    CASE s.token = None -> 0
      [] s.token # None /\ s.token.kind = "SFT" -> IF s.cls = None THEN 0 ELSE s.cls.supply
      [] s.token # None /\ s.token.kind # "SFT" -> s.token.supply
Within(s) ==
    /\ s.token # None /\ s.token.max > 0 => s.token.supply <= s.token.max
    /\ s.cls # None /\ s.cls.max > 0 => s.cls.supply <= s.cls.max
    /\ s.token # None /\ s.token.kind = "SFT" => s.token.max = 0
    /\ s.token # None /\ s.token.kind # "SFT" => s.cls = None
    /\ s.token = None => s.cls = None

(* While calls are made one at a time: what the one under way read is stored,   *)
(* and what the holders have is the supply and what it has written of its own. *)
HeldIn(s) == SumFunctionOnSet(s.bal, Holders)
LeftOver(k) ==
    IF k.at = "supply" THEN IF k.op = "burn" THEN - k.amt ELSE k.amt
    ELSE IF k.op = "transferFrom" /\ k.at \in {"to", "credit"} THEN - k.amt ELSE 0
Alone(s, k) ==
    /\ k.tok = s.token
    /\ k.tok.kind # "NFT" => HeldIn(s) = IssuedIn(s) + LeftOver(k)
    /\ k.tok.kind = "SFT" /\ k.item # None => k.item = s.cls
    /\ k.at = "credit" => k.bal = s.bal[k.to]
    /\ k.op \in {"burn", "transferFrom"} /\ k.at \in {"balance", "allowance", "debit", "operator", "class"}
          /\ k.tok.kind # "NFT" => k.bal = s.bal[k.from]
    /\ k.at = "initial" => s.bal = [h \in Holders |-> 0]
OneByOne ==
    ~ overlapped =>
        /\ \A c, d \in Active : c = d
        /\ \A c \in Active : Alone(store, running[c])
        /\ Active = {} /\ store.token # None /\ store.token.kind # "NFT" => HeldIn(store) = IssuedIn(store)
        /\ store.token = None => store.bal = [h \in Holders |-> 0]

TokenInv ==
    /\ StoreTypes(store) /\ running \in [TokenCalls -> Call \cup {NoCall}]
    /\ store.token = None => Active = {}
    /\ \A c \in Active : Fits(store, running[c])
    /\ Within(store) /\ minted = IssuedIn(store) /\ overlapped \in BOOLEAN
    /\ OneByOne

-----------------------------------------------------------------------------
(* Records.                                                                  *)

\* A call goes on to another place, with what it read last.
LEMMA CallGoes ==
    ASSUME NEW k \in Call, NEW at \in Places, NEW m, m = [k EXCEPT !.at = at]
    PROVE  /\ m \in Call /\ SameCall(k, m) /\ m.at = at
           /\ m.bal = k.bal /\ m.item = k.item
BY DEF Call, SameCall

\* It goes on with a balance it read.
LEMMA CallReadsBalance ==
    ASSUME NEW k \in Call, NEW at \in Places, NEW n \in Int, NEW m, m = [k EXCEPT !.at = at, !.bal = n]
    PROVE  /\ m \in Call /\ SameCall(k, m) /\ m.at = at
           /\ m.bal = n /\ m.item = k.item
BY DEF Call, SameCall

\* It goes on with an allowance it read.
LEMMA CallReadsAllowance ==
    ASSUME NEW k \in Call, NEW at \in Places, NEW n \in Int, NEW m, m = [k EXCEPT !.at = at, !.ans = n]
    PROVE  /\ m \in Call /\ SameCall(k, m) /\ m.at = at
           /\ m.bal = k.bal /\ m.item = k.item
BY DEF Call, SameCall

\* It goes on knowing whether it has the right.
LEMMA CallReadsRight ==
    ASSUME NEW k \in Call, NEW at \in Places, NEW b \in BOOLEAN, NEW m, m = [k EXCEPT !.at = at, !.may = b]
    PROVE  /\ m \in Call /\ SameCall(k, m) /\ m.at = at
           /\ m.bal = k.bal /\ m.item = k.item
BY DEF Call, SameCall

\* It goes on with a class or an instance it read.
LEMMA CallReadsItem ==
    ASSUME NEW k \in Call, NEW at \in Places, NEW x \in Class \cup Item \cup {None}, NEW m,
           m = [k EXCEPT !.at = at, !.item = x]
    PROVE  /\ m \in Call /\ SameCall(k, m) /\ m.at = at
           /\ m.bal = k.bal /\ m.item = x
BY DEF Call, SameCall

-----------------------------------------------------------------------------
(* Calls and the records they read.                                          *)

\* What a call read stays a version of what is stored.
LEMMA FitsLater ==
    ASSUME NEW s, NEW s2, NEW k, Fits(s, k), Later(s, s2)
    PROVE  Fits(s2, k)
<1>1. SameToken(s2, k)
  BY DEF Fits, SameToken, Later, Call, Token
<1>2. SameClass(s2, k)
  BY DEF Fits, SameClass, Later, Class
<1>3. SameItem(s2, k)
  <2> SUFFICES ASSUME k.tok.kind = "NFT", k.item # None
               PROVE  /\ k.item \in Item /\ k.id \in Instances /\ s2.inst[k.id] \in Item
                      /\ k.item.version <= s2.inst[k.id].version
                      /\ k.item.version = s2.inst[k.id].version => k.item = s2.inst[k.id]
    BY DEF SameItem
  <2>1. /\ k.item \in Item /\ k.id \in Instances /\ s.inst[k.id] \in Item
        /\ k.item.version <= s.inst[k.id].version
        /\ k.item.version = s.inst[k.id].version => k.item = s.inst[k.id]
    BY DEF Fits, SameItem
  <2>2. /\ s2.inst[k.id] \in Item /\ s.inst[k.id].version <= s2.inst[k.id].version
        /\ s2.inst[k.id].version = s.inst[k.id].version => s2.inst[k.id] = s.inst[k.id]
    BY <2>1 DEF Later
  <2>3. k.item.version \in Nat /\ s.inst[k.id].version \in Nat /\ s2.inst[k.id].version \in Nat
    BY <2>1, <2>2 DEF Item
  <2> QED BY <2>1, <2>2, <2>3
<1> QED BY <1>1, <1>2, <1>3 DEF Fits

\* A call that goes on with the same token and item fits as before.
LEMMA FitsStill ==
    ASSUME NEW s, NEW k, NEW m, Fits(s, k), m \in Call, SameCall(k, m), m.item = k.item, Checked(m)
    PROVE  Fits(s, m)
BY DEF Fits, SameCall, SameToken, SameClass, SameItem

\* The store as it was, and with another table of balances, allowances, operators
\* and approvals.
LEMMA LaterSame ==
    ASSUME NEW s, NEW s2, StoreTypes(s), s2.token = s.token, s2.cls = s.cls, s2.inst = s.inst
    PROVE  Later(s, s2)
BY DEF StoreTypes, Later, Token, Class, Item

-----------------------------------------------------------------------------
(* Steps of one call.                                                        *)

\* What the invariant says of a call under way, and of the store.
LEMMA TokenFacts ==
    ASSUME TokenInv, NEW c \in Active
    PROVE  /\ c \in TokenCalls /\ running[c] \in Call /\ running[c] # NoCall
           /\ SameToken(store, running[c]) /\ SameClass(store, running[c]) /\ SameItem(store, running[c])
           /\ Checked(running[c]) /\ Fits(store, running[c])
           /\ store.token \in Token /\ store.token # None
           /\ StoreTypes(store) /\ Within(store) /\ minted = IssuedIn(store)
BY DEF TokenInv, Active, Fits, StoreTypes

\* A step of the call c keeps the invariant if it leaves the store later, within
\* the maximum and issued as it says, and the call returned or fits to it; and, if
\* no other call ever was under way with it, keeps the holders' side.
LEMMA OneCallMoves ==
    ASSUME TokenInv, NEW c \in Active, NEW m,
           running' = [running EXCEPT ![c] = m], overlapped' = overlapped,
           StoreTypes(store'), Later(store, store'), Within(store'), minted' = IssuedIn(store'),
           m = NoCall \/ Fits(store', m),
           ~ overlapped => IF m = NoCall
                           THEN store'.token.kind # "NFT" => HeldIn(store') = IssuedIn(store')
                           ELSE Alone(store', m)
    PROVE  TokenInv'
<1>1. /\ c \in TokenCalls /\ store.token \in Token /\ store'.token \in Token
      /\ running \in [TokenCalls -> Call \cup {NoCall}]
  BY TokenFacts DEF Later, TokenInv
<1>2. store'.token # None
  BY <1>1, NoneIsNoRecord
<1>3. running'[c] = m /\ \A d \in TokenCalls : d # c => running'[d] = running[d]
  BY <1>1
<1>4. running' \in [TokenCalls -> Call \cup {NoCall}]
  BY <1>1 DEF Fits
<1>5. ASSUME NEW d \in Active' PROVE Fits(store', running'[d])
  <2>1. CASE d = c
    BY <1>3, <2>1 DEF Active
  <2>2. CASE d # c
    <3>1. d \in Active /\ running'[d] = running[d]
      BY <1>3, <2>2 DEF Active
    <3>2. Fits(store, running[d])
      BY <3>1 DEF TokenInv
    <3> QED BY <3>1, <3>2, FitsLater
  <2> QED BY <2>1, <2>2
<1>6. OneByOne'
  <2> SUFFICES ASSUME ~ overlapped
               PROVE  /\ \A d, e \in Active' : d = e
                      /\ \A d \in Active' : Alone(store', running'[d])
                      /\ Active' = {} /\ store'.token # None /\ store'.token.kind # "NFT" =>
                            HeldIn(store') = IssuedIn(store')
                      /\ store'.token = None => store'.bal = [h \in Holders |-> 0]
    BY DEF OneByOne
  <2>1. \A d \in Active : d = c
    BY DEF TokenInv, OneByOne
  <2>2. \A d \in Active' : d = c
    BY <1>3, <2>1 DEF Active
  <2>3. CASE m = NoCall
    <3>1. Active' = {}
      BY <1>3, <2>2, <2>3 DEF Active
    <3> QED BY <1>2, <2>3, <3>1
  <2>4. CASE m # NoCall
    <3>1. c \in Active'
      BY <1>1, <1>3, <2>4 DEF Active
    <3> QED BY <1>2, <1>3, <2>2, <2>4, <3>1
  <2> QED BY <2>3, <2>4
<1>7. overlapped' \in BOOLEAN
  BY DEF TokenInv
<1> QED BY <1>2, <1>4, <1>5, <1>6, <1>7 DEF TokenInv

\* The records and the balances of the store as they were.
SameBooks(s, s2) ==
    /\ StoreTypes(s2)
    /\ s2.token = s.token /\ s2.cls = s.cls /\ s2.inst = s.inst /\ s2.bal = s.bal

\* A step that writes neither records nor balances, and returns.
LEMMA CallReturns ==
    ASSUME TokenInv, NEW c \in Active, SameBooks(store, store'),
           running' = [running EXCEPT ![c] = NoCall], overlapped' = overlapped, minted' = minted,
           running[c].at \notin {"supply", "to", "credit"}
    PROVE  TokenInv'
<1>1. Later(store, store')
  BY TokenFacts, LaterSame DEF SameBooks
<1>2. /\ Within(store') /\ IssuedIn(store') = IssuedIn(store) /\ HeldIn(store') = HeldIn(store)
      /\ store'.token = store.token
  BY TokenFacts DEF Within, IssuedIn, HeldIn, SameBooks
<1>3. ASSUME ~ overlapped, store.token.kind # "NFT"
      PROVE  HeldIn(store) = IssuedIn(store)
  <2>1. Alone(store, running[c])
    BY <1>3 DEF TokenInv, OneByOne
  <2>2. IssuedIn(store) \in Int
    BY TokenFacts DEF StoreTypes, IssuedIn, Token, Class
  <2>3. LeftOver(running[c]) = 0
    BY DEF LeftOver
  <2> QED BY <1>3, <2>1, <2>2, <2>3 DEF Alone
<1>4. minted' = IssuedIn(store')
  BY <1>2, TokenFacts
<1> QED BY <1>1, <1>2, <1>3, <1>4, OneCallMoves DEF SameBooks

\* A step that writes neither, and goes on with what the call has read.
Reading == {"balance", "allowance", "debit", "operator", "class"}
LEMMA CallGoesOn ==
    ASSUME TokenInv, NEW c \in Active, SameBooks(store, store'), NEW m \in Call,
           running' = [running EXCEPT ![c] = m], overlapped' = overlapped, minted' = minted,
           SameCall(running[c], m), Checked(m), LeftOver(m) = LeftOver(running[c]), m.at # "initial",
           \/ m.item = running[c].item
           \/ m.tok.kind = "SFT" /\ m.item = store.cls
           \/ m.tok.kind = "NFT" /\ m.id \in Instances /\ m.item = store.inst[m.id],
           ~ overlapped => /\ m.at = "credit" => m.bal = store.bal[m.to]
                           /\ m.op \in {"burn", "transferFrom"} /\ m.at \in Reading /\ m.tok.kind # "NFT" =>
                                 m.bal = store.bal[m.from]
    PROVE  TokenInv'
<1>1. Later(store, store')
  BY TokenFacts, LaterSame DEF SameBooks
<1>2. /\ Within(store') /\ IssuedIn(store') = IssuedIn(store) /\ HeldIn(store') = HeldIn(store)
      /\ store'.token = store.token /\ store'.cls = store.cls /\ store'.bal = store.bal
  BY TokenFacts DEF Within, IssuedIn, HeldIn, SameBooks
<1>3. Fits(store, m)
  <2>1. SameToken(store, m)
    BY TokenFacts DEF SameToken, SameCall
  <2>2. SameClass(store, m)
    <3>1. CASE m.item = running[c].item
      BY <3>1, TokenFacts DEF SameClass, SameCall
    <3>2. CASE m.tok.kind = "SFT" /\ m.item = store.cls
      BY <3>2, TokenFacts DEF SameClass, StoreTypes, Class
    <3>3. CASE m.tok.kind = "NFT"
      BY <3>3 DEF SameClass
    <3> QED BY <3>1, <3>2, <3>3
  <2>3. SameItem(store, m)
    <3>1. CASE m.item = running[c].item
      BY <3>1, TokenFacts DEF SameItem, SameCall
    <3>2. CASE m.tok.kind = "SFT"
      BY <3>2 DEF SameItem
    <3>3. CASE m.tok.kind = "NFT" /\ m.id \in Instances /\ m.item = store.inst[m.id]
      <4>1. store.inst[m.id] \in Item \cup {None}
        BY <3>3, TokenFacts DEF StoreTypes
      <4> QED BY <3>3, <4>1 DEF SameItem, Item
    <3> QED BY <3>1, <3>2, <3>3
  <2> QED BY <2>1, <2>2, <2>3 DEF Fits
<1>4. Fits(store', m)
  BY <1>1, <1>3, FitsLater
<1>5. ASSUME ~ overlapped PROVE Alone(store', m)
  <2>1. Alone(store, running[c])
    BY <1>5 DEF TokenInv, OneByOne
  <2>2. m.tok = store'.token /\ (m.tok.kind # "NFT" => HeldIn(store') = IssuedIn(store') + LeftOver(m))
    BY <1>2, <2>1 DEF Alone, SameCall
  <2>3. m.tok.kind = "SFT" /\ m.item # None => m.item = store'.cls
    BY <1>2, <2>1 DEF Alone, SameCall
  <2> QED BY <1>2, <1>5, <2>2, <2>3 DEF Alone, Reading
<1>6. minted' = IssuedIn(store') /\ m # NoCall
  BY <1>2, TokenFacts, NoneIsNoRecord
<1> QED BY <1>1, <1>2, <1>4, <1>5, <1>6, OneCallMoves DEF SameBooks

\* What issued counts is a number, and so is what the holders have.
LEMMA SupplyIsInt ==
    ASSUME StoreTypes(store)
    PROVE  IssuedIn(store) \in Int /\ HeldIn(store) \in Int /\ Summable(store.bal, Holders)
<1>1. Summable(store.bal, Holders)
  BY TokensAssumption DEF StoreTypes, Summable
<1>2. HeldIn(store) \in Int
  BY <1>1, SumFacts DEF HeldIn
<1>3. IssuedIn(store) \in Int
  BY DEF StoreTypes, IssuedIn, Token, Class
<1> QED BY <1>1, <1>2, <1>3

\* What a call has written ahead of the supply is a number.
LEMMA AheadIsInt ==
    ASSUME NEW k \in Call
    PROVE  LeftOver(k) \in Int
BY DEF LeftOver, Call

\* A step that writes one balance: what is ahead of the supply changes by it.
LEMMA CallWritesBalance ==
    ASSUME TokenInv, NEW c \in Active, NEW m, NEW h \in Holders, NEW n \in Int,
           running' = [running EXCEPT ![c] = m], overlapped' = overlapped, minted' = minted,
           store' = [store EXCEPT !.bal[h] = n], running[c].tok.kind # "NFT",
           \/ m = NoCall
           \/ /\ m \in Call /\ SameCall(running[c], m) /\ m.item = running[c].item /\ Checked(m)
              /\ m.at \in {"supply", "to"},
           ~ overlapped => LeftOver(running[c]) + (n - store.bal[h]) = IF m = NoCall THEN 0 ELSE LeftOver(m)
    PROVE  TokenInv'
<1>1. /\ store'.token = store.token /\ store'.cls = store.cls /\ store'.inst = store.inst
      /\ store'.bal = [store.bal EXCEPT ![h] = n]
      /\ StoreTypes(store')
  <2>1. PICK s, t : s = store /\ t = store'
    OBVIOUS
  <2>2. StoreTypes(s) /\ t = [s EXCEPT !.bal[h] = n]
    BY <2>1, TokenFacts
  <2>3. /\ t.token = s.token /\ t.cls = s.cls /\ t.inst = s.inst /\ t.allow = s.allow /\ t.appr = s.appr
        /\ t.ops = s.ops /\ t.bal = [s.bal EXCEPT ![h] = n]
        /\ t = [token |-> t.token, cls |-> t.cls, bal |-> t.bal, allow |-> t.allow, ops |-> t.ops,
                inst |-> t.inst, appr |-> t.appr]
    BY <2>2 DEF StoreTypes
  <2>4. t.bal \in [Holders -> Int]
    BY <2>2, <2>3 DEF StoreTypes
  <2>5. StoreTypes(t)
    BY <2>2, <2>3, <2>4 DEF StoreTypes
  <2> QED BY <2>1, <2>3, <2>5
<1>2. Later(store, store')
  BY <1>1, TokenFacts, LaterSame
<1>3. Within(store') /\ IssuedIn(store') = IssuedIn(store)
  BY <1>1, TokenFacts DEF Within, IssuedIn
<1>4. m = NoCall \/ Fits(store', m)
  <2>1. m = NoCall \/ Fits(store, m)
    BY TokenFacts, FitsStill
  <2> QED BY <1>2, <2>1, FitsLater
<1>5. HeldIn(store') = HeldIn(store) + (n - store.bal[h])
  <2>1. PICK f, g, S, x : f = store.bal /\ g = store'.bal /\ S = Holders /\ x = h
    OBVIOUS
  <2>2. x \in S /\ Summable(f, S) /\ f[x] \in Int /\ g[x] = n /\ SumFunctionOnSet(f, S) \in Int
    BY <1>1, <2>1, SupplyIsInt, TokenFacts, SumFacts DEF StoreTypes
  <2>3. /\ x \in S /\ Summable(f, S) /\ g[x] \in Int
        /\ \A y \in S \ {x} : g[y] = f[y]
    BY <1>1, <2>1, <2>2, TokenFacts DEF StoreTypes
  <2>4. SumFunctionOnSet(g, S) = SumFunctionOnSet(f, S) - f[x] + g[x]
    BY ONLY <2>3, SumChange
  <2> QED BY <2>1, <2>2, <2>4 DEF HeldIn
<1>6. ASSUME ~ overlapped
      PROVE  IF m = NoCall THEN store'.token.kind # "NFT" => HeldIn(store') = IssuedIn(store')
             ELSE Alone(store', m)
  <2>1. Alone(store, running[c])
    BY <1>6 DEF TokenInv, OneByOne
  <2>2. /\ HeldIn(store) = IssuedIn(store) + LeftOver(running[c])
        /\ LeftOver(running[c]) + (n - store.bal[h]) = IF m = NoCall THEN 0 ELSE LeftOver(m)
    BY <1>6, <2>1 DEF Alone
  <2>3. /\ HeldIn(store) \in Int /\ IssuedIn(store) \in Int /\ LeftOver(running[c]) \in Int /\ n - store.bal[h] \in Int
    BY TokenFacts, SupplyIsInt, AheadIsInt DEF StoreTypes
  <2>4. CASE m = NoCall
    BY <1>3, <1>5, <2>2, <2>3, <2>4
  <2>5. CASE m # NoCall
    <3>1. m \in Call /\ SameCall(running[c], m) /\ m.item = running[c].item /\ m.at \in {"supply", "to"}
      BY <2>5
    <3>2. LeftOver(m) \in Int
      BY <3>1, AheadIsInt
    <3>3. HeldIn(store') = IssuedIn(store') + LeftOver(m)
      BY <1>3, <1>5, <2>2, <2>3, <2>5, <3>2
    <3>4. m.tok = store'.token /\ (m.tok.kind = "SFT" /\ m.item # None => m.item = store'.cls)
      BY <1>1, <2>1, <3>1 DEF Alone, SameCall
    <3>5. Alone(store', m)
      BY <3>1, <3>3, <3>4 DEF Alone
    <3> QED BY <2>5, <3>5
  <2> QED BY <2>4, <2>5
<1>7. minted' = IssuedIn(store')
  BY <1>3, TokenFacts
<1> QED BY <1>1, <1>2, <1>3, <1>4, <1>6, <1>7, OneCallMoves

-----------------------------------------------------------------------------
(* The steps, one by one.  Each of them leaves overlapped as it was.          *)

\* A step that leaves the store leaves its books.
LEMMA StoreStays ==
    ASSUME TokenInv, NEW c \in Active, store' = store
    PROVE  SameBooks(store, store')
BY TokenFacts DEF SameBooks

\* Allowances, operators and approvals are no books.
LEMMA OtherTables ==
    ASSUME NEW s, StoreTypes(s), NEW s2,
           \/ \E o, p : \E n \in Int : s2 = [s EXCEPT !.allow[o][p] = n]
           \/ \E ops : s2 = [s EXCEPT !.ops = ops]
           \/ \E i, a : s2 = [s EXCEPT !.appr[i] = a]
    PROVE  SameBooks(s, s2)
<1>1. CASE \E o, p : \E n \in Int : s2 = [s EXCEPT !.allow[o][p] = n]
  <2>1. PICK o, p : \E n \in Int : s2 = [s EXCEPT !.allow[o][p] = n]
    BY <1>1
  <2>2. PICK n \in Int : s2 = [s EXCEPT !.allow[o][p] = n]
    BY <2>1
  <2>3. s2 = [s EXCEPT !.allow = [s.allow EXCEPT ![o] = [s.allow[o] EXCEPT ![p] = n]]]
    BY <2>2 DEF StoreTypes
  <2>4. [s.allow EXCEPT ![o] = [s.allow[o] EXCEPT ![p] = n]] \in [Holders -> [Holders -> Int]]
    BY DEF StoreTypes
  <2> QED BY <2>3, <2>4 DEF StoreTypes, SameBooks
<1>2. CASE \E ops : s2 = [s EXCEPT !.ops = ops]
  BY <1>2 DEF StoreTypes, SameBooks
<1>3. CASE \E i, a : s2 = [s EXCEPT !.appr[i] = a]
  <2>1. PICK i, a : s2 = [s EXCEPT !.appr[i] = a]
    BY <1>3
  <2>2. s2 = [s EXCEPT !.appr = [s.appr EXCEPT ![i] = a]]
    BY <2>1 DEF StoreTypes
  <2>3. DOMAIN [s.appr EXCEPT ![i] = a] = Instances
    BY DEF StoreTypes
  <2> QED BY <2>2, <2>3 DEF StoreTypes, SameBooks
<1> QED BY <1>1, <1>2, <1>3

\* A call at some place is under way.
LEMMA AtIsActive ==
    ASSUME TokenInv, NEW c \in TokenCalls, NEW op, NEW at, At(c, op, at)
    PROVE  c \in Active /\ running[c].op \in op /\ running[c].at = at
BY DEF At, Active

\* A call that returns and writes nothing.
LEMMA ReturnOnly ==
    ASSUME TokenInv, NEW c \in Active, Return(c), UNCHANGED store, UNCHANGED <<started, overlapped, minted>>,
           running[c].at \notin {"supply", "to", "credit"}
    PROVE  TokenInv'
<1>1. running' = [running EXCEPT ![c] = NoCall] /\ overlapped' = overlapped /\ minted' = minted
  BY DEF Return
<1> QED BY <1>1, StoreStays, CallReturns

\* handleDeploy, the initial supply.
LEMMA InitialSupplyStep ==
    ASSUME TokenInv, NEW c \in TokenCalls, InitialSupply(c), UNCHANGED <<started, overlapped, minted>>
    PROVE  TokenInv'
<1>1. c \in Active /\ running[c].op = "deploy" /\ running[c].at = "initial"
  BY AtIsActive DEF InitialSupply
<1>2. PICK k : k = running[c]
  OBVIOUS
<1>3. k \in Call /\ Checked(k) /\ k.op = "deploy" /\ k.at = "initial" /\ k.amt \in Nat /\ k.by \in Holders
  BY <1>1, <1>2, TokenFacts DEF Call
<1>4. CASE k.tok.max = 0 \/ k.amt <= k.tok.max
  <2>1. PICK m : m = [k EXCEPT !.at = "supply"]
    OBVIOUS
  <2>2. /\ m \in Call /\ SameCall(k, m) /\ m.at = "supply" /\ m.item = k.item
    BY <1>3, <2>1, CallGoes DEF Places
  <2>3. store' = [store EXCEPT !.bal[k.by] = k.amt] /\ running' = [running EXCEPT ![c] = m]
    BY <1>2, <1>4, <2>1 DEF InitialSupply, Require, SetBalance, Goto
  <2>4. k.tok.max \in Nat
    BY <1>3 DEF Call, Token
  <2>5. Room(m.tok.max, 0, m.amt)
    BY <1>3, <1>4, <2>2, <2>4 DEF Room, SameCall
  <2>6. Checked(m)
    BY <1>3, <2>2, <2>5 DEF Checked, SameCall
  <2>7. ~ overlapped => LeftOver(k) + (k.amt - store.bal[k.by]) = LeftOver(m)
    <3>1. LeftOver(k) = 0 /\ LeftOver(m) = k.amt
      BY <1>3, <2>2 DEF LeftOver, SameCall
    <3>2. ~ overlapped => store.bal[k.by] = 0
      BY <1>1, <1>2, <1>3 DEF TokenInv, OneByOne, Alone
    <3> QED BY <1>3, <3>1, <3>2
  <2>8. k.tok.kind # "NFT" /\ m # NoCall
    BY <1>3, <2>2, NoneIsNoRecord DEF Checked
  <2>9. k.amt \in Int
    BY <1>3
  <2> QED BY <1>1, <1>2, <1>3, <2>2, <2>3, <2>6, <2>7, <2>8, <2>9, CallWritesBalance
<1>5. CASE ~ (k.tok.max = 0 \/ k.amt <= k.tok.max)
  <2>1. Return(c) /\ UNCHANGED store
    BY <1>2, <1>5 DEF InitialSupply, Require
  <2> QED BY <1>1, <2>1, ReturnOnly
<1> QED BY <1>4, <1>5

\* The receiver's balance is read: handleMint and handleTransferFrom.
LEMMA ReadsReceiver ==
    ASSUME TokenInv, NEW c \in Active, Reads(c, "credit", "bal", store.bal[running[c].to]),
           UNCHANGED <<started, overlapped, minted>>,
           running[c].tok.kind # "NFT", running[c].to \in Holders,
           \/ /\ running[c].op = "mint" /\ running[c].at \in {"token", "class"}
              /\ \/ running[c].tok.kind = "FT" /\ Room(running[c].tok.max, running[c].tok.supply, running[c].amt)
                 \/ /\ running[c].tok.kind = "SFT" /\ running[c].item # None
                    /\ Room(running[c].item.max, running[c].item.supply, running[c].amt)
           \/ running[c].op = "transferFrom" /\ running[c].at = "to"
    PROVE  TokenInv'
<1>1. PICK k, n : k = running[c] /\ n = store.bal[running[c].to]
  OBVIOUS
<1>2. k \in Call /\ Checked(k) /\ n \in Int
  BY <1>1, TokenFacts DEF StoreTypes
<1>3. PICK m : m = [k EXCEPT !.at = "credit", !.bal = n]
  OBVIOUS
<1>4. running' = [running EXCEPT ![c] = m] /\ store' = store
  BY <1>1, <1>3 DEF Reads
<1>5. m \in Call /\ SameCall(k, m) /\ m.at = "credit" /\ m.bal = n /\ m.item = k.item
  BY <1>2, <1>3 DEF Call, SameCall, Places
<1>6. Checked(m)
  BY <1>1, <1>2, <1>5 DEF Checked, SameCall
<1>7. LeftOver(m) = LeftOver(k)
  BY <1>1, <1>5 DEF LeftOver, SameCall
<1>8. m.bal = store.bal[m.to]
  BY <1>1, <1>5 DEF SameCall
<1> QED BY <1>1, <1>4, <1>5, <1>6, <1>7, <1>8, StoreStays, CallGoesOn DEF Reading

\* A step that reads something and goes on.
LEMMA ReadsBalance ==
    ASSUME TokenInv, NEW c \in Active, Reads(c, "balance", "bal", store.bal[running[c].from]),
           UNCHANGED <<started, overlapped, minted>>,
           running[c].op \in {"burn", "transferFrom"}, running[c].at = "token", running[c].tok.kind # "NFT"
    PROVE  TokenInv'
<1>1. PICK k, n : k = running[c] /\ n = store.bal[running[c].from]
  OBVIOUS
<1>2. k \in Call /\ Checked(k) /\ n \in Int
  BY <1>1, TokenFacts DEF StoreTypes, Checked
<1>3. PICK m : m = [k EXCEPT !.at = "balance", !.bal = n]
  OBVIOUS
<1>4. running' = [running EXCEPT ![c] = m] /\ store' = store
  BY <1>1, <1>3 DEF Reads
<1>5. m \in Call /\ SameCall(k, m) /\ m.at = "balance" /\ m.bal = n /\ m.item = k.item
  BY <1>2, <1>3 DEF Call, SameCall, Places
<1>6. Checked(m)
  BY <1>1, <1>2, <1>5 DEF Checked, SameCall
<1>7. LeftOver(m) = LeftOver(k)
  BY <1>1, <1>5 DEF LeftOver, SameCall
<1>8. m.bal = store.bal[m.from]
  BY <1>1, <1>5 DEF SameCall
<1> QED BY <1>1, <1>4, <1>5, <1>6, <1>7, <1>8, StoreStays, CallGoesOn DEF Reading

\* A mint or a burn reads the class.
LEMMA ReadsClass ==
    ASSUME TokenInv, NEW c \in Active, Reads(c, "class", "item", store.cls),
           UNCHANGED <<started, overlapped, minted>>,
           \/ running[c].op = "mint" /\ running[c].at = "token"
           \/ running[c].op = "burn" /\ running[c].at \in {"balance", "operator"},
           running[c].tok.kind = "SFT"
    PROVE  TokenInv'
<1>1. PICK k, x : k = running[c] /\ x = store.cls
  OBVIOUS
<1>2. k \in Call /\ Checked(k) /\ x \in Class \cup {None}
  BY <1>1, TokenFacts DEF StoreTypes
<1>3. PICK m : m = [k EXCEPT !.at = "class", !.item = x]
  OBVIOUS
<1>4. running' = [running EXCEPT ![c] = m] /\ store' = store
  BY <1>1, <1>3 DEF Reads
<1>5. m \in Call /\ SameCall(k, m) /\ m.at = "class" /\ m.bal = k.bal /\ m.item = x
  BY <1>2, <1>3 DEF Call, SameCall, Places
<1>6. Checked(m)
  BY <1>1, <1>2, <1>5 DEF Checked, SameCall
<1>7. LeftOver(m) = LeftOver(k)
  BY <1>1, <1>5 DEF LeftOver, SameCall
<1>8. ~ overlapped => (m.op = "burn" => m.bal = store.bal[m.from])
  BY <1>1, <1>5 DEF SameCall, TokenInv, OneByOne, Alone
<1>9. m.tok.kind = "SFT" /\ m.op \notin {"transferFrom"} /\ m.item = store.cls
  BY <1>1, <1>5 DEF SameCall
<1> QED BY <1>1, <1>4, <1>5, <1>6, <1>7, <1>8, <1>9, StoreStays, CallGoesOn DEF Reading

\* A burn, a transfer or an approval reads the instance.
LEMMA ReadsInstance ==
    ASSUME TokenInv, NEW c \in Active, Reads(c, "instance", "item", store.inst[running[c].id]),
           UNCHANGED <<started, overlapped, minted>>,
           running[c].op \in {"burn", "transferFrom", "approve"}, running[c].at = "token", running[c].tok.kind = "NFT"
    PROVE  TokenInv'
<1>1. PICK k, x : k = running[c] /\ x = store.inst[running[c].id]
  OBVIOUS
<1>2. k \in Call /\ Checked(k) /\ k.id \in Instances /\ x \in Item \cup {None}
  BY <1>1, TokenFacts DEF StoreTypes, Checked
<1>3. PICK m : m = [k EXCEPT !.at = "instance", !.item = x]
  OBVIOUS
<1>4. running' = [running EXCEPT ![c] = m] /\ store' = store
  BY <1>1, <1>3 DEF Reads
<1>5. m \in Call /\ SameCall(k, m) /\ m.at = "instance" /\ m.bal = k.bal /\ m.item = x
  BY <1>2, <1>3 DEF Call, SameCall, Places
<1>6. Checked(m)
  BY <1>1, <1>2, <1>5 DEF Checked, SameCall
<1>7. LeftOver(m) = LeftOver(k)
  BY <1>1, <1>5 DEF LeftOver, SameCall
<1>8. m.tok.kind = "NFT" /\ m.id \in Instances /\ m.item = store.inst[m.id]
  BY <1>1, <1>2, <1>5 DEF SameCall
<1> QED BY <1>1, <1>4, <1>5, <1>6, <1>7, <1>8, StoreStays, CallGoesOn DEF Reading

\* A spender reads the allowance it was given.
LEMMA ReadsAllowance ==
    ASSUME TokenInv, NEW c \in Active,
           Reads(c, "allowance", "ans", store.allow[running[c].from][running[c].by]),
           UNCHANGED <<started, overlapped, minted>>,
           running[c].op \in {"burn", "transferFrom"}, running[c].at = "balance", running[c].tok.kind = "FT"
    PROVE  TokenInv'
<1>1. PICK k, n : k = running[c] /\ n = store.allow[running[c].from][running[c].by]
  OBVIOUS
<1>2. k \in Call /\ Checked(k) /\ k.from \in Holders /\ k.by \in Holders
  BY <1>1, TokenFacts DEF Checked, Call
<1>2a. n \in Int
  BY <1>1, <1>2, TokenFacts DEF StoreTypes
<1>3. PICK m : m = [k EXCEPT !.at = "allowance", !.ans = n]
  OBVIOUS
<1>4. running' = [running EXCEPT ![c] = m] /\ store' = store
  BY <1>1, <1>3 DEF Reads
<1>5. m \in Call /\ SameCall(k, m) /\ m.at = "allowance" /\ m.bal = k.bal /\ m.item = k.item
  BY <1>2, <1>2a, <1>3 DEF Call, SameCall, Places
<1>6. Checked(m)
  BY <1>1, <1>2, <1>5 DEF Checked, SameCall
<1>7. LeftOver(m) = LeftOver(k)
  BY <1>1, <1>5 DEF LeftOver, SameCall
<1>8. ~ overlapped => m.bal = store.bal[m.from]
  BY <1>1, <1>5 DEF SameCall, TokenInv, OneByOne, Alone
<1> QED BY <1>1, <1>4, <1>5, <1>6, <1>7, <1>8, StoreStays, CallGoesOn DEF Reading

\* A call asks for the approval of an instance, or for an operator.
LEMMA ReadsRight ==
    ASSUME TokenInv, NEW c \in Active, NEW at \in {"operator", "approval"}, NEW b \in BOOLEAN,
           Reads(c, at, "may", b),
           UNCHANGED <<started, overlapped, minted>>,
           running[c].op \in {"burn", "transferFrom"}, running[c].at \in {"balance", "instance", "approval"},
           IF running[c].tok.kind = "NFT" THEN running[c].item # None
           ELSE running[c].at = "balance" /\ at = "operator"
    PROVE  TokenInv'
<1>1. PICK k : k = running[c]
  OBVIOUS
<1>2. k \in Call /\ Checked(k)
  BY <1>1, TokenFacts
<1>3. PICK m : m = [k EXCEPT !.at = at, !.may = b]
  OBVIOUS
<1>4. running' = [running EXCEPT ![c] = m] /\ store' = store
  BY <1>1, <1>3 DEF Reads
<1>5. m \in Call /\ SameCall(k, m) /\ m.at = at /\ m.bal = k.bal /\ m.item = k.item
  BY <1>2, <1>3 DEF Call, SameCall, Places
<1>6. Checked(m)
  BY <1>1, <1>2, <1>5 DEF Checked, SameCall
<1>7. LeftOver(m) = LeftOver(k)
  BY <1>1, <1>5 DEF LeftOver, SameCall
<1>8. ~ overlapped /\ m.tok.kind # "NFT" => m.bal = store.bal[m.from]
  BY <1>1, <1>5 DEF SameCall, TokenInv, OneByOne, Alone
<1> QED BY <1>1, <1>4, <1>5, <1>6, <1>7, <1>8, StoreStays, CallGoesOn DEF Reading

-----------------------------------------------------------------------------
(* handleBurn and handleTransferFrom of a fungible token.                     *)

\* The balance that was read, less the amount.
LEMMA DebitStep ==
    ASSUME TokenInv, NEW c \in Active, Debit(c), UNCHANGED <<started, overlapped, minted>>,
           running[c].op \in {"burn", "transferFrom"}, running[c].at \in Reading, running[c].tok.kind # "NFT",
           running[c].op = "burn" /\ running[c].tok.kind = "SFT" => running[c].item # None
    PROVE  TokenInv'
<1>1. PICK k, at : k = running[c] /\ at = (IF running[c].op = "burn" THEN "supply" ELSE "to")
  OBVIOUS
<1>2. k \in Call /\ Checked(k) /\ k.from \in Holders /\ k.amt \in Nat /\ k.bal \in Int /\ at \in Places
  BY <1>1, TokenFacts DEF Checked, Call, Places
<1>3. PICK m : m = [k EXCEPT !.at = at]
  OBVIOUS
<1>4. PICK n : n = k.bal - k.amt
  OBVIOUS
<1>5. m \in Call /\ SameCall(k, m) /\ m.at = at /\ m.item = k.item
  BY <1>2, <1>3 DEF Call, SameCall
<1>6. n \in Int /\ k.tok.kind # "NFT" /\ k.op \in {"burn", "transferFrom"} /\ k.at \in Reading
  BY <1>1, <1>2, <1>4
<1>7. store' = [store EXCEPT !.bal[k.from] = n] /\ running' = [running EXCEPT ![c] = m]
  BY <1>1, <1>3, <1>4 DEF Debit, SetBalance, Goto
<1>8. Checked(m) /\ m.at \in {"supply", "to"}
  BY <1>1, <1>2, <1>5, <1>6 DEF Checked, SameCall
<1>9. ~ overlapped => LeftOver(k) + (n - store.bal[k.from]) = LeftOver(m)
  <2>1. LeftOver(k) = 0 /\ LeftOver(m) = - k.amt
    BY <1>1, <1>5, <1>6 DEF LeftOver, SameCall, Reading
  <2>2. ~ overlapped => store.bal[k.from] = k.bal
    BY <1>1, <1>6 DEF TokenInv, OneByOne, Alone, Reading
  <2> QED BY <1>2, <1>4, <2>1, <2>2
<1>10. m # NoCall
  BY <1>5, NoneIsNoRecord
<1> QED BY <1>1, <1>2, <1>5, <1>6, <1>7, <1>8, <1>9, <1>10, CallWritesBalance

\* The caller may spend: it debits, or reads the class it burns of first.
LEMMA AuthorizedStep ==
    ASSUME TokenInv, NEW c \in Active, Authorized(c), UNCHANGED <<started, overlapped, minted>>,
           running[c].op \in {"burn", "transferFrom"}, running[c].at \in {"balance", "operator"},
           running[c].tok.kind # "NFT"
    PROVE  TokenInv'
<1>1. CASE running[c].tok.kind = "SFT" /\ running[c].op = "burn"
  <2>1. Reads(c, "class", "item", store.cls)
    BY <1>1 DEF Authorized
  <2> QED BY <1>1, <2>1, ReadsClass
<1>2. CASE ~ (running[c].tok.kind = "SFT" /\ running[c].op = "burn")
  <2>1. Debit(c)
    BY <1>2 DEF Authorized
  <2>2. running[c].at \in Reading
    BY DEF Reading
  <2> QED BY <1>2, <2>1, <2>2, DebitStep
<1> QED BY <1>1, <1>2

\* What a step that was refused does.
LEMMA Refused ==
    ASSUME TokenInv, NEW c \in Active, Return(c) /\ UNCHANGED store,
           UNCHANGED <<started, overlapped, minted>>,
           running[c].at \notin {"supply", "to", "credit"}
    PROVE  TokenInv'
BY ReturnOnly

\* A call reads a token of one of the three types.
LEMMA KindOfCall ==
    ASSUME TokenInv, NEW c \in Active
    PROVE  running[c].tok.kind \in {"FT", "NFT", "SFT"}
BY TokenFacts DEF Call, Token, Kinds

\* handleBurn and handleTransferFrom, on the token that was read.
LEMMA SpendStep ==
    ASSUME TokenInv, NEW c \in TokenCalls, SpendFrom(c), UNCHANGED <<started, overlapped, minted>>
    PROVE  TokenInv'
<1>1. c \in Active /\ running[c].op \in {"burn", "transferFrom"} /\ running[c].at = "token"
  BY AtIsActive DEF SpendFrom
<1>2. CASE Return(c) /\ UNCHANGED store
  BY <1>1, <1>2, Refused
<1>3. CASE ~ (Return(c) /\ UNCHANGED store)
  <2>1. IF Fungible(running[c]) THEN Reads(c, "balance", "bal", store.bal[running[c].from])
        ELSE Reads(c, "instance", "item", store.inst[running[c].id])
    BY <1>3 DEF SpendFrom, Require
  <2>2. CASE Fungible(running[c])
    <3>1. running[c].tok.kind # "NFT"
      BY <2>2 DEF Fungible
    <3> QED BY <1>1, <2>1, <2>2, <3>1, ReadsBalance
  <2>3. CASE ~ Fungible(running[c])
    <3>1. running[c].tok.kind = "NFT"
      BY <1>1, <2>3, KindOfCall DEF Fungible
    <3> QED BY <1>1, <2>1, <2>3, <3>1, ReadsInstance
  <2> QED BY <2>2, <2>3
<1> QED BY <1>2, <1>3

\* They find the balance covers the amount, or return.
LEMMA BalanceStep ==
    ASSUME TokenInv, NEW c \in TokenCalls, Balance(c), UNCHANGED <<started, overlapped, minted>>
    PROVE  TokenInv'
<1>1. c \in Active /\ running[c].op \in {"burn", "transferFrom"} /\ running[c].at = "balance"
  BY AtIsActive DEF Balance
<1>2. running[c].tok.kind \in {"FT", "SFT"}
  BY <1>1, KindOfCall, TokenFacts DEF Checked
<1>3. CASE Return(c) /\ UNCHANGED store
  BY <1>1, <1>3, Refused
<1>4. CASE ~ (Return(c) /\ UNCHANGED store)
  <2>1. CASE running[c].from = running[c].by
    <3>1. Authorized(c)
      BY <1>4, <2>1 DEF Balance, Require
    <3> QED BY <1>1, <1>2, <3>1, AuthorizedStep
  <2>2. CASE running[c].from # running[c].by /\ running[c].tok.kind = "FT"
    <3>1. Reads(c, "allowance", "ans", store.allow[running[c].from][running[c].by])
      BY <1>4, <2>2 DEF Balance, Require
    <3> QED BY <1>1, <2>2, <3>1, ReadsAllowance
  <2>3. CASE running[c].from # running[c].by /\ running[c].tok.kind = "SFT"
    <3>1. PICK x, ops : x = <<running[c].from, running[c].by>> /\ ops = store.ops
      OBVIOUS
    <3>2. Reads(c, "operator", "may", x \in ops)
      BY <1>4, <2>3, <3>1 DEF Balance, Require
    <3>3. (x \in ops) \in BOOLEAN
      OBVIOUS
    <3> QED BY <1>1, <2>3, <3>2, <3>3, ReadsRight
  <2> QED BY <1>2, <2>1, <2>2, <2>3
<1> QED BY <1>3, <1>4

\* The allowance is spent before the balance.
LEMMA AllowanceStep ==
    ASSUME TokenInv, NEW c \in TokenCalls, Allowance(c), UNCHANGED <<started, overlapped, minted>>
    PROVE  TokenInv'
<1>1. c \in Active /\ running[c].op \in {"burn", "transferFrom"} /\ running[c].at = "allowance"
  BY AtIsActive DEF Allowance
<1>2. CASE Return(c) /\ UNCHANGED store
  BY <1>1, <1>2, Refused
<1>3. CASE ~ (Return(c) /\ UNCHANGED store)
  <2>1. PICK k : k = running[c]
    OBVIOUS
  <2>2. k \in Call /\ Checked(k) /\ k.ans - k.amt \in Int
    BY <1>1, <2>1, TokenFacts DEF Call
  <2>3. PICK m : m = [k EXCEPT !.at = "debit"]
    OBVIOUS
  <2>4. store' = [store EXCEPT !.allow[k.from][k.by] = k.ans - k.amt] /\ running' = [running EXCEPT ![c] = m]
    BY <1>3, <2>1, <2>3 DEF Allowance, Require, Goto
  <2>5. m \in Call /\ SameCall(k, m) /\ m.at = "debit" /\ m.bal = k.bal /\ m.item = k.item
    BY <2>2, <2>3 DEF Call, SameCall, Places
  <2>6. Checked(m)
    BY <1>1, <2>1, <2>2, <2>5 DEF Checked, SameCall
  <2>7. LeftOver(m) = LeftOver(k)
    BY <1>1, <2>1, <2>5 DEF LeftOver, SameCall
  <2>8. ~ overlapped => m.bal = store.bal[m.from]
    BY <1>1, <2>1, <2>2, <2>5 DEF SameCall, TokenInv, OneByOne, Alone, Checked
  <2>9. SameBooks(store, store')
    <3>1. PICK s, s2, o, p, n : /\ s = store /\ s2 = store'
                                /\ o = k.from /\ p = k.by /\ n = k.ans - k.amt
      OBVIOUS
    <3>2. StoreTypes(s)
      BY <1>1, <3>1, TokenFacts
    <3>3. n \in Int
      BY <2>2, <3>1
    <3>4. s2 = [s EXCEPT !.allow[o][p] = n]
      BY ONLY <2>4, <3>1
    <3>5. \E x, y : \E z \in Int : s2 = [s EXCEPT !.allow[x][y] = z]
      BY <3>3, <3>4
    <3>6. SameBooks(s, s2)
      BY ONLY <3>2, <3>5, OtherTables
    <3> QED BY ONLY <3>1, <3>6
  <2> QED BY <1>1, <2>1, <2>4, <2>5, <2>6, <2>7, <2>8, <2>9, CallGoesOn DEF Reading
<1> QED BY <1>2, <1>3

\* Then the balance is debited.
LEMMA AllowanceSpentStep ==
    ASSUME TokenInv, NEW c \in TokenCalls, AllowanceSpent(c), UNCHANGED <<started, overlapped, minted>>
    PROVE  TokenInv'
<1>1. c \in Active /\ running[c].op \in {"burn", "transferFrom"} /\ running[c].at = "debit" /\ Debit(c)
  BY AtIsActive DEF AllowanceSpent
<1>2. running[c].tok.kind = "FT" /\ running[c].at \in Reading
  BY <1>1, TokenFacts DEF Checked, Reading
<1> QED BY <1>1, <1>2, DebitStep

\* An operator of the holder spends.
LEMMA OperatorOfSFTStep ==
    ASSUME TokenInv, NEW c \in TokenCalls, OperatorOfSFT(c), UNCHANGED <<started, overlapped, minted>>
    PROVE  TokenInv'
<1>1. /\ c \in Active /\ running[c].op \in {"burn", "transferFrom"} /\ running[c].at = "operator"
      /\ running[c].tok.kind = "SFT"
  BY AtIsActive DEF OperatorOfSFT
<1>2. CASE Return(c) /\ UNCHANGED store
  BY <1>1, <1>2, Refused
<1>3. CASE ~ (Return(c) /\ UNCHANGED store)
  <2>1. Authorized(c)
    BY <1>3 DEF OperatorOfSFT, Require
  <2> QED BY <1>1, <2>1, AuthorizedStep
<1> QED BY <1>2, <1>3

\* A burn debits once it has read its class.
LEMMA BurnClassStep ==
    ASSUME TokenInv, NEW c \in TokenCalls, BurnClass(c), UNCHANGED <<started, overlapped, minted>>
    PROVE  TokenInv'
<1>1. c \in Active /\ running[c].op = "burn" /\ running[c].at = "class"
  BY AtIsActive DEF BurnClass
<1>2. CASE Return(c) /\ UNCHANGED store
  BY <1>1, <1>2, Refused
<1>3. CASE ~ (Return(c) /\ UNCHANGED store)
  <2>1. running[c].item # None /\ Debit(c)
    BY <1>3 DEF BurnClass, Require
  <2>2. running[c].at \in Reading /\ running[c].tok.kind # "NFT"
    BY <1>1, TokenFacts DEF Checked, Reading
  <2> QED BY <1>1, <2>1, <2>2, DebitStep
<1> QED BY <1>2, <1>3

\* A transfer reads the receiver's balance after the debit.
LEMMA ReadToStep ==
    ASSUME TokenInv, NEW c \in TokenCalls, ReadTo(c), UNCHANGED <<started, overlapped, minted>>
    PROVE  TokenInv'
<1>1. c \in Active /\ running[c].op = "transferFrom" /\ running[c].at = "to"
  BY AtIsActive DEF ReadTo
<1>2. running[c].tok.kind # "NFT" /\ running[c].to \in Holders
  BY <1>1, TokenFacts DEF Checked
<1>3. Reads(c, "credit", "bal", store.bal[running[c].to])
  BY DEF ReadTo
<1> QED BY <1>1, <1>2, <1>3, ReadsReceiver

\* A mint finds room in its class, and reads the receiver's balance.
LEMMA MintClassStep ==
    ASSUME TokenInv, NEW c \in TokenCalls, MintClass(c), UNCHANGED <<started, overlapped, minted>>
    PROVE  TokenInv'
<1>1. c \in Active /\ running[c].op = "mint" /\ running[c].at = "class"
  BY AtIsActive DEF MintClass
<1>2. CASE Return(c) /\ UNCHANGED store
  BY <1>1, <1>2, Refused
<1>3. CASE ~ (Return(c) /\ UNCHANGED store)
  <2>1. /\ running[c].item # None /\ Room(running[c].item.max, running[c].item.supply, running[c].amt)
        /\ Reads(c, "credit", "bal", store.bal[running[c].to])
    BY <1>3 DEF MintClass, Require
  <2>2. running[c].tok.kind = "SFT" /\ running[c].to \in Holders
    BY <1>1, TokenFacts DEF Checked
  <2> QED BY <1>1, <2>1, <2>2, ReadsReceiver
<1> QED BY <1>2, <1>3

-----------------------------------------------------------------------------
(* Instances.                                                                *)

\* A step that creates an instance, or moves it on to its next version.
LEMMA InstanceMoves ==
    ASSUME TokenInv, NEW c \in Active, NEW m \in Call, NEW i \in Instances, NEW r \in Item,
           store' = [store EXCEPT !.inst[i] = r],
           store.inst[i] = None \/ r.version > store.inst[i].version,
           running' = [running EXCEPT ![c] = m], overlapped' = overlapped, minted' = minted,
           SameCall(running[c], m), m.item = running[c].item, Checked(m), running[c].tok.kind = "NFT",
           m.at \in {"supply", "clear"}
    PROVE  TokenInv'
<1>1. PICK s, t : s = store /\ t = store'
  OBVIOUS
<1>2. StoreTypes(s) /\ t = [s EXCEPT !.inst = [s.inst EXCEPT ![i] = r]]
  BY <1>1, TokenFacts DEF StoreTypes
<1>3. /\ t.token = s.token /\ t.cls = s.cls /\ t.bal = s.bal /\ t.inst = [s.inst EXCEPT ![i] = r]
      /\ StoreTypes(t)
  <2>1. [s.inst EXCEPT ![i] = r] \in [Instances -> Item \cup {None}]
    BY <1>2 DEF StoreTypes
  <2> QED BY <1>2, <2>1 DEF StoreTypes
<1>4. Later(s, t)
  <2>1. ASSUME NEW j \in Instances, s.inst[j] \in Item
        PROVE  /\ t.inst[j] \in Item /\ s.inst[j].version <= t.inst[j].version
               /\ t.inst[j].version = s.inst[j].version => t.inst[j] = s.inst[j]
    <3>1. CASE j # i
      <4>1. t.inst[j] = s.inst[j]
        BY <1>2, <1>3, <3>1 DEF StoreTypes
      <4> QED BY <2>1, <4>1 DEF Item
    <3>2. CASE j = i
      <4>1. t.inst[j] = r /\ s.inst[j].version \in Nat /\ r.version \in Nat
        BY <1>2, <1>3, <2>1, <3>2 DEF StoreTypes, Item
      <4>2. s.inst[j] # None
        BY <2>1, NoneIsNoRecord
      <4>3. r.version > s.inst[j].version
        BY <1>1, <3>2, <4>2
      <4> QED BY <4>1, <4>3
    <3> QED BY <3>1, <3>2
  <2>2. /\ s.token \in Token => s.token.version <= s.token.version
        /\ s.cls \in Class => s.cls.version <= s.cls.version
    BY DEF Token, Class
  <2> QED BY <1>3, <2>1, <2>2 DEF Later
<1>5. /\ StoreTypes(store') /\ Later(store, store') /\ Within(store')
      /\ store'.token = store.token
      /\ minted' = IssuedIn(store')
  BY <1>1, <1>3, <1>4, TokenFacts DEF Within, IssuedIn
<1>6. Fits(store', m)
  BY <1>5, TokenFacts, FitsStill, FitsLater
<1>7. ASSUME ~ overlapped PROVE Alone(store', m)
  <2>1. Alone(store, running[c])
    BY <1>7 DEF TokenInv, OneByOne
  <2>2. m.tok = store'.token /\ m.tok.kind = "NFT"
    BY <1>5, <2>1 DEF Alone, SameCall
  <2> QED BY <2>2 DEF Alone
<1>8. m # NoCall
  BY NoneIsNoRecord
<1> QED BY <1>5, <1>6, <1>7, <1>8, OneCallMoves

\* handleMint, of a token of any type.
LEMMA MintStep ==
    ASSUME TokenInv, NEW c \in TokenCalls, Mint(c), UNCHANGED <<started, overlapped, minted>>
    PROVE  TokenInv'
<1>1. c \in Active /\ running[c].op = "mint" /\ running[c].at = "token"
  BY AtIsActive DEF Mint
<1>2. CASE Return(c) /\ UNCHANGED store
  BY <1>1, <1>2, Refused
<1>3. CASE ~ (Return(c) /\ UNCHANGED store)
  <2>1. CASE running[c].tok.kind = "FT"
    <3>1. /\ Room(running[c].tok.max, running[c].tok.supply, running[c].amt)
          /\ Reads(c, "credit", "bal", store.bal[running[c].to])
      BY <1>3, <2>1 DEF Mint, Require
    <3>2. running[c].to \in Holders
      BY <1>1, TokenFacts DEF Checked
    <3> QED BY <1>1, <2>1, <3>1, <3>2, ReadsReceiver
  <2>2. CASE running[c].tok.kind = "SFT"
    <3>1. Reads(c, "class", "item", store.cls)
      BY <1>3, <2>2 DEF Mint, Require
    <3> QED BY <1>1, <2>2, <3>1, ReadsClass
  <2>3. CASE running[c].tok.kind = "NFT"
    <3>1. PICK k, i, r : k = running[c] /\ i = running[c].id /\ r = [owner |-> running[c].to, version |-> 0]
      OBVIOUS
    <3>2. k \in Call /\ Checked(k) /\ i \in Instances /\ r \in Item
      BY <1>1, <2>3, <3>1, TokenFacts DEF Checked, Item
    <3>3. PICK m : m = [k EXCEPT !.at = "supply"]
      OBVIOUS
    <3>4. /\ Room(k.tok.max, k.tok.supply, 1) /\ store.inst[i] = None
          /\ store' = [store EXCEPT !.inst[i] = r] /\ running' = [running EXCEPT ![c] = m]
      BY <1>3, <2>3, <3>1, <3>3 DEF Mint, Require, Goto
    <3>5. m \in Call /\ SameCall(k, m) /\ m.at = "supply" /\ m.item = k.item
      BY <3>2, <3>3 DEF Call, SameCall, Places
    <3>6. Checked(m)
      BY <1>1, <2>3, <3>1, <3>2, <3>4, <3>5 DEF Checked, SameCall
    <3>7. overlapped' = overlapped /\ minted' = minted
      OBVIOUS
    <3> QED BY <1>1, <2>3, <3>1, <3>2, <3>4, <3>5, <3>6, <3>7, InstanceMoves
  <2> QED BY <1>1, <2>1, <2>2, <2>3, KindOfCall
<1> QED BY <1>2, <1>3

\* An instance that moves had the owner its call found.
LEMMA MoveFindsOwner ==
    ASSUME TokenInv, NEW c \in Active, Move(c), ~ (Return(c) /\ UNCHANGED store),
           running[c].item # None, running[c].tok.kind = "NFT"
    PROVE  /\ running[c].id \in Instances /\ running[c].item = store.inst[running[c].id] /\ running[c].item \in Item
           /\ store' = [store EXCEPT !.inst[running[c].id] =
                           [owner |-> IF running[c].op = "burn" THEN Zero ELSE running[c].to,
                            version |-> store.inst[running[c].id].version + 1]]
           /\ Goto(c, IF running[c].op = "burn" THEN "supply" ELSE "clear")
<1>1. /\ running[c].item \in Item /\ running[c].id \in Instances /\ store.inst[running[c].id] \in Item
      /\ running[c].item.version = store.inst[running[c].id].version => running[c].item = store.inst[running[c].id]
  BY TokenFacts DEF SameItem
<1>2. /\ store.inst[running[c].id].version = running[c].item.version
      /\ Goto(c, IF running[c].op = "burn" THEN "supply" ELSE "clear")
  BY DEF Move
<1>3. PICK s, t, k : s = store /\ t = store' /\ k = running[c]
  OBVIOUS
<1>4. t = [s EXCEPT !.inst[k.id] =
                [owner |-> IF k.op = "burn" THEN Zero ELSE k.to, version |-> @.version + 1]]
  BY <1>3 DEF Move
<1>5. t = [s EXCEPT !.inst[k.id] =
                [owner |-> IF k.op = "burn" THEN Zero ELSE k.to, version |-> s.inst[k.id].version + 1]]
  <2>1. k.id \in DOMAIN s.inst
    BY <1>1, <1>3, TokenFacts DEF StoreTypes
  <2> QED BY <1>4, <2>1
<1> QED BY <1>1, <1>2, <1>3, <1>5

\* A move by the version that was read.
LEMMA MoveStep ==
    ASSUME TokenInv, NEW c \in Active, Move(c), UNCHANGED <<started, overlapped, minted>>,
           running[c].op \in {"burn", "transferFrom"}, running[c].at \in {"instance", "approval", "operator"},
           running[c].item # None, running[c].tok.kind = "NFT"
    PROVE  TokenInv'
<1>1. CASE Return(c) /\ UNCHANGED store
  BY <1>1, Refused
<1>2. CASE ~ (Return(c) /\ UNCHANGED store)
  <2>1. /\ running[c].id \in Instances /\ running[c].item = store.inst[running[c].id] /\ running[c].item \in Item
        /\ store' = [store EXCEPT !.inst[running[c].id] =
                        [owner |-> IF running[c].op = "burn" THEN Zero ELSE running[c].to,
                         version |-> store.inst[running[c].id].version + 1]]
        /\ Goto(c, IF running[c].op = "burn" THEN "supply" ELSE "clear")
    BY <1>2, MoveFindsOwner
  <2>2. PICK k, i, r, at :
            /\ k = running[c] /\ i = running[c].id
            /\ r = [owner |-> IF running[c].op = "burn" THEN Zero ELSE running[c].to,
                    version |-> store.inst[running[c].id].version + 1]
            /\ at = IF running[c].op = "burn" THEN "supply" ELSE "clear"
    OBVIOUS
  <2>3. k \in Call /\ Checked(k) /\ i \in Instances /\ store.inst[i] \in Item
    BY <2>1, <2>2, TokenFacts
  <2>4. r \in Item /\ r.version > store.inst[i].version
    BY <2>2, <2>3 DEF Item, Checked
  <2>5. PICK m : m = [k EXCEPT !.at = at]
    OBVIOUS
  <2>6. store' = [store EXCEPT !.inst[i] = r] /\ running' = [running EXCEPT ![c] = m]
    BY <2>1, <2>2, <2>5 DEF Goto
  <2>7. m \in Call /\ SameCall(k, m) /\ m.at = at /\ m.item = k.item
    BY <2>2, <2>3, <2>5 DEF Call, SameCall, Places
  <2>8. Checked(m)
    BY <2>2, <2>3, <2>7 DEF Checked, SameCall
  <2>9. overlapped' = overlapped /\ minted' = minted /\ m.at \in {"supply", "clear"}
    BY <2>2, <2>7
  <2> QED BY <2>2, <2>3, <2>4, <2>6, <2>7, <2>8, <2>9, InstanceMoves
<1> QED BY <1>1, <1>2

\* An instance moves at its owner's word, or its approval is read.
LEMMA InstanceStep ==
    ASSUME TokenInv, NEW c \in TokenCalls, Instance(c), UNCHANGED <<started, overlapped, minted>>
    PROVE  TokenInv'
<1>1. /\ c \in Active /\ running[c].op \in {"burn", "transferFrom"} /\ running[c].at = "instance"
      /\ running[c].tok.kind = "NFT"
  BY AtIsActive, TokenFacts DEF Instance, Checked
<1>2. CASE Return(c) /\ UNCHANGED store
  BY <1>1, <1>2, Refused
<1>3. CASE ~ (Return(c) /\ UNCHANGED store)
  <2>0. running[c].item # None
    BY <1>3 DEF Instance, Require
  <2>1. CASE running[c].item.owner = running[c].by
    <3>1. Move(c)
      BY <1>3, <2>1 DEF Instance, Require
    <3> QED BY <1>1, <2>0, <3>1, MoveStep
  <2>2. CASE running[c].item.owner # running[c].by
    <3>1. PICK a : a = store.appr[running[c].id]
      OBVIOUS
    <3>2. Reads(c, "approval", "may", a # None /\ a.approved = running[c].by /\ a.until # "past")
      BY <1>3, <2>2, <3>1 DEF Instance, Require
    <3>3. (a # None /\ a.approved = running[c].by /\ a.until # "past") \in BOOLEAN
      OBVIOUS
    <3> QED BY <1>1, <2>0, <3>2, <3>3, ReadsRight
  <2> QED BY <2>1, <2>2
<1> QED BY <1>2, <1>3

\* It moves by its approval, or the owner's operators are read.
LEMMA ApprovalStep ==
    ASSUME TokenInv, NEW c \in TokenCalls, Approval(c), UNCHANGED <<started, overlapped, minted>>
    PROVE  TokenInv'
<1>1. /\ c \in Active /\ running[c].op \in {"burn", "transferFrom"} /\ running[c].at = "approval"
      /\ running[c].tok.kind = "NFT" /\ running[c].item # None
  BY AtIsActive, TokenFacts DEF Approval, Checked
<1>2. CASE running[c].may
  <2>1. Move(c)
    BY <1>2 DEF Approval
  <2> QED BY <1>1, <2>1, MoveStep
<1>3. CASE ~ running[c].may
  <2>1. PICK x, ops : x = <<running[c].item.owner, running[c].by>> /\ ops = store.ops
    OBVIOUS
  <2>2. Reads(c, "operator", "may", x \in ops)
    BY <1>3, <2>1 DEF Approval
  <2>3. (x \in ops) \in BOOLEAN
    OBVIOUS
  <2> QED BY <1>1, <2>2, <2>3, ReadsRight
<1> QED BY <1>2, <1>3

\* It moves at an operator's word.
LEMMA OperatorOfNFTStep ==
    ASSUME TokenInv, NEW c \in TokenCalls, OperatorOfNFT(c), UNCHANGED <<started, overlapped, minted>>
    PROVE  TokenInv'
<1>1. /\ c \in Active /\ running[c].op \in {"burn", "transferFrom"} /\ running[c].at = "operator"
      /\ running[c].tok.kind = "NFT" /\ running[c].item # None
  BY AtIsActive, TokenFacts DEF OperatorOfNFT, Checked
<1>2. CASE Return(c) /\ UNCHANGED store
  BY <1>1, <1>2, Refused
<1>3. CASE ~ (Return(c) /\ UNCHANGED store)
  <2>1. Move(c)
    BY <1>3 DEF OperatorOfNFT, Require
  <2> QED BY <1>1, <2>1, MoveStep
<1> QED BY <1>2, <1>3

-----------------------------------------------------------------------------
(* Approvals, allowances and operators that are set outright.                *)

\* A step that writes one of those tables and returns.
LEMMA TableStep ==
    ASSUME TokenInv, NEW c \in Active, Return(c), UNCHANGED <<started, overlapped, minted>>,
           SameBooks(store, store'), running[c].at \notin {"supply", "to", "credit"}
    PROVE  TokenInv'
<1>1. running' = [running EXCEPT ![c] = NoCall] /\ overlapped' = overlapped /\ minted' = minted
  BY DEF Return
<1> QED BY <1>1, CallReturns

\* The approval goes after a transfer.
LEMMA ClearApprovalStep ==
    ASSUME TokenInv, NEW c \in TokenCalls, ClearApproval(c), UNCHANGED <<started, overlapped, minted>>
    PROVE  TokenInv'
<1>1. c \in Active /\ running[c].at = "clear"
  BY AtIsActive DEF ClearApproval
<1>2. PICK s, s2, i : s = store /\ s2 = store' /\ i = running[c].id
  OBVIOUS
<1>3. StoreTypes(s) /\ s2 = [s EXCEPT !.appr[i] = None]
  BY <1>1, <1>2, TokenFacts DEF ClearApproval
<1>4. \E x, a : s2 = [s EXCEPT !.appr[x] = a]
  BY <1>3
<1>5. SameBooks(s, s2)
  BY <1>3, <1>4, OtherTables
<1>6. SameBooks(store, store') /\ Return(c)
  BY <1>2, <1>5 DEF ClearApproval
<1> QED BY <1>1, <1>6, TableStep

\* handleApprove.
LEMMA ApproveStep ==
    ASSUME TokenInv, NEW c \in TokenCalls, Approve(c), UNCHANGED <<started, overlapped, minted>>
    PROVE  TokenInv'
<1>1. c \in Active /\ running[c].op = "approve" /\ running[c].at = "token"
  BY AtIsActive DEF Approve
<1>2. CASE running[c].tok.kind = "FT"
  <2>1. PICK s, s2, o, p, n : /\ s = store /\ s2 = store'
                              /\ o = running[c].by /\ p = running[c].to /\ n = running[c].amt
    OBVIOUS
  <2>2. store' = [store EXCEPT !.allow[running[c].by][running[c].to] = running[c].amt] /\ Return(c)
    BY <1>2 DEF Approve
  <2>3. StoreTypes(s) /\ n \in Int
    BY <1>1, <2>1, TokenFacts DEF Call
  <2>4. s2 = [s EXCEPT !.allow[o][p] = n]
    BY ONLY <2>1, <2>2
  <2>5. \E x, y : \E z \in Int : s2 = [s EXCEPT !.allow[x][y] = z]
    BY <2>3, <2>4
  <2>6. SameBooks(s, s2)
    BY <2>3, <2>5, OtherTables
  <2>7. SameBooks(store, store')
    BY <2>1, <2>6
  <2> QED BY <1>1, <2>2, <2>7, TableStep
<1>3. CASE running[c].tok.kind = "NFT"
  <2>1. Reads(c, "instance", "item", store.inst[running[c].id])
    BY <1>3 DEF Approve
  <2> QED BY <1>1, <1>3, <2>1, ReadsInstance
<1>4. CASE running[c].tok.kind = "SFT"
  <2>1. Return(c) /\ UNCHANGED store
    BY <1>4 DEF Approve
  <2> QED BY <1>1, <2>1, Refused
<1> QED BY <1>1, <1>2, <1>3, <1>4, KindOfCall

\* handleApprove for an instance its caller owns.
LEMMA ApproveInstanceStep ==
    ASSUME TokenInv, NEW c \in TokenCalls, ApproveInstance(c), UNCHANGED <<started, overlapped, minted>>
    PROVE  TokenInv'
<1>1. c \in Active /\ running[c].at = "instance"
  BY AtIsActive DEF ApproveInstance
<1>2. CASE Return(c) /\ UNCHANGED store
  BY <1>1, <1>2, Refused
<1>3. CASE ~ (Return(c) /\ UNCHANGED store)
  <2>1. PICK u \in {"always", "later"} :
            store' = [store EXCEPT !.appr[running[c].id] =
                         [owner |-> running[c].by, approved |-> running[c].to, until |-> u]]
    BY <1>3 DEF ApproveInstance, Require
  <2>2. PICK s, s2, i, r :
            /\ s = store /\ s2 = store' /\ i = running[c].id
            /\ r = [owner |-> running[c].by, approved |-> running[c].to, until |-> u]
    OBVIOUS
  <2>3. StoreTypes(s) /\ s2 = [s EXCEPT !.appr[i] = r]
    BY <1>1, <2>1, <2>2, TokenFacts
  <2>4. \E x, a : s2 = [s EXCEPT !.appr[x] = a]
    BY <2>3
  <2>5. SameBooks(s, s2)
    BY <2>3, <2>4, OtherTables
  <2>6. SameBooks(store, store') /\ Return(c)
    BY <1>3, <2>2, <2>5 DEF ApproveInstance, Require
  <2> QED BY <1>1, <2>6, TableStep
<1> QED BY <1>2, <1>3

\* handleSetApprovalForAll.
LEMMA SetApprovalForAllStep ==
    ASSUME TokenInv, NEW c \in TokenCalls, SetApprovalForAll(c), UNCHANGED <<started, overlapped, minted>>
    PROVE  TokenInv'
<1>1. c \in Active /\ running[c].at = "token"
  BY AtIsActive DEF SetApprovalForAll
<1>2. CASE Return(c) /\ UNCHANGED store
  BY <1>1, <1>2, Refused
<1>3. CASE ~ (Return(c) /\ UNCHANGED store)
  <2>1. PICK s, s2, o : s = store /\ s2 = store' /\ o = store'.ops
    OBVIOUS
  <2>2. /\ \E x : store' = [store EXCEPT !.ops = x]
        /\ Return(c)
    BY <1>3 DEF SetApprovalForAll, Require
  <2>3. StoreTypes(s) /\ \E x : s2 = [s EXCEPT !.ops = x]
    BY <1>1, <2>1, <2>2, TokenFacts
  <2>4. SameBooks(s, s2)
    BY <2>3, OtherTables
  <2>5. SameBooks(store, store')
    BY <2>1, <2>4
  <2> QED BY <1>1, <2>2, <2>5, TableStep
<1> QED BY <1>2, <1>3

-----------------------------------------------------------------------------
(* Steps that write the record of the token or of its class.                 *)

\* The next version of the token, as the call that returns leaves it.
LEMMA TokenChanges ==
    ASSUME TokenInv, NEW c \in Active, NEW t \in Token,
           store' = [store EXCEPT !.token = t], running' = [running EXCEPT ![c] = NoCall], overlapped' = overlapped,
           t.kind = store.token.kind, t.max = store.token.max, t.version > store.token.version,
           t.max > 0 => t.supply <= t.max,
           minted' = IF t.kind = "SFT" THEN minted ELSE t.supply,
           ~ overlapped => /\ t.kind = "FT" => t.supply = store.token.supply + LeftOver(running[c])
                           /\ t.kind = "SFT" => LeftOver(running[c]) = 0
    PROVE  TokenInv'
<1>1. PICK s, s2 : s = store /\ s2 = store'
  OBVIOUS
<1>2. StoreTypes(s) /\ Within(s) /\ minted = IssuedIn(s) /\ s.token \in Token /\ s.token # None /\ t # None
  BY <1>1, TokenFacts, NoneIsNoRecord
<1>3. /\ s2.token = t /\ s2.cls = s.cls /\ s2.bal = s.bal /\ s2.inst = s.inst /\ StoreTypes(s2)
  BY <1>1, <1>2 DEF StoreTypes
<1>4. Later(s, s2)
  <2>1. s.token.version \in Nat /\ t.version \in Nat
    BY <1>2 DEF Token
  <2>2. s.token \in Token =>
            /\ s2.token \in Token /\ s2.token.kind = s.token.kind /\ s2.token.max = s.token.max
            /\ s.token.version <= s2.token.version
            /\ s2.token.version = s.token.version => s2.token = s.token
    BY <1>1, <1>3, <2>1
  <2>3. /\ s.cls \in Class => s.cls.version <= s.cls.version
        /\ \A i \in Instances : s.inst[i] \in Item => s.inst[i].version <= s.inst[i].version
    BY DEF Class, Item
  <2> QED BY <1>3, <2>2, <2>3 DEF Later
<1>5. Within(s2)
  BY <1>1, <1>2, <1>3 DEF Within
<1>6. minted' = IssuedIn(s2)
  BY <1>1, <1>2, <1>3 DEF IssuedIn
<1>7. ASSUME ~ overlapped, t.kind # "NFT" PROVE HeldIn(s2) = IssuedIn(s2)
  <2>1. Alone(s, running[c])
    BY <1>1, <1>7 DEF TokenInv, OneByOne
  <2>2. HeldIn(s2) = IssuedIn(s) + LeftOver(running[c])
    BY <1>1, <1>3, <1>7, <2>1 DEF Alone, HeldIn
  <2>3. IssuedIn(s) \in Int
    BY <1>1, <1>2, SupplyIsInt
  <2>4. CASE t.kind = "FT"
    BY <1>1, <1>2, <1>3, <1>7, <2>2, <2>4 DEF IssuedIn
  <2>5. CASE t.kind = "SFT"
    BY <1>1, <1>2, <1>3, <1>7, <2>2, <2>3, <2>5 DEF IssuedIn
  <2> QED BY <1>7, <2>4, <2>5 DEF Token, Kinds
<1>8. /\ StoreTypes(store') /\ Later(store, store') /\ Within(store') /\ minted' = IssuedIn(store')
      /\ ~ overlapped => (store'.token.kind # "NFT" => HeldIn(store') = IssuedIn(store'))
  BY <1>1, <1>3, <1>4, <1>5, <1>6, <1>7
<1>9. PICK m : m = NoCall
  OBVIOUS
<1>10. running' = [running EXCEPT ![c] = m] /\ overlapped' = overlapped
  BY <1>9
<1> QED BY <1>8, <1>9, <1>10, OneCallMoves

\* The class, created or in its next version, as the call that returns leaves it.
LEMMA ClassChanges ==
    ASSUME TokenInv, NEW c \in Active, NEW x \in Class,
           store' = [store EXCEPT !.cls = x], running' = [running EXCEPT ![c] = NoCall], overlapped' = overlapped,
           store.token.kind = "SFT",
           store.cls # None => x.max = store.cls.max /\ x.version > store.cls.version,
           x.max > 0 => x.supply <= x.max,
           minted' = x.supply,
           ~ overlapped => x.supply = minted + LeftOver(running[c])
    PROVE  TokenInv'
<1>1. PICK s, s2 : s = store /\ s2 = store'
  OBVIOUS
<1>2. StoreTypes(s) /\ Within(s) /\ minted = IssuedIn(s) /\ s.token \in Token /\ s.token # None /\ x # None
  BY <1>1, TokenFacts, NoneIsNoRecord
<1>3. /\ s2.token = s.token /\ s2.cls = x /\ s2.bal = s.bal /\ s2.inst = s.inst /\ StoreTypes(s2)
  BY <1>1, <1>2 DEF StoreTypes
<1>4. Later(s, s2)
  <2>1. s.cls \in Class =>
            /\ s2.cls \in Class /\ s2.cls.max = s.cls.max /\ s.cls.version <= s2.cls.version
            /\ s2.cls.version = s.cls.version => s2.cls = s.cls
    <3> SUFFICES ASSUME s.cls \in Class
                 PROVE  /\ s2.cls \in Class /\ s2.cls.max = s.cls.max /\ s.cls.version <= s2.cls.version
                        /\ s2.cls.version = s.cls.version => s2.cls = s.cls
      OBVIOUS
    <3>1. s.cls.version \in Nat /\ x.version \in Nat /\ s.cls # None
      BY NoneIsNoRecord DEF Class
    <3> QED BY <1>1, <1>3, <3>1
  <2>2. /\ s.token \in Token => s.token.version <= s.token.version
        /\ \A i \in Instances : s.inst[i] \in Item => s.inst[i].version <= s.inst[i].version
    BY DEF Token, Item
  <2> QED BY <1>3, <2>1, <2>2 DEF Later
<1>5. Within(s2)
  BY <1>1, <1>2, <1>3 DEF Within
<1>6. minted' = IssuedIn(s2)
  BY <1>1, <1>2, <1>3 DEF IssuedIn
<1>7. ASSUME ~ overlapped PROVE HeldIn(s2) = IssuedIn(s2)
  <2>1. Alone(s, running[c])
    BY <1>1, <1>7 DEF TokenInv, OneByOne
  <2>2. HeldIn(s2) = IssuedIn(s) + LeftOver(running[c])
    BY <1>1, <1>3, <1>7, <2>1 DEF Alone, HeldIn
  <2> QED BY <1>2, <1>6, <1>7, <2>2
<1>8. /\ StoreTypes(store') /\ Later(store, store') /\ Within(store') /\ minted' = IssuedIn(store')
      /\ ~ overlapped => (store'.token.kind # "NFT" => HeldIn(store') = IssuedIn(store'))
  BY <1>1, <1>3, <1>4, <1>5, <1>6, <1>7
<1>9. PICK m : m = NoCall
  OBVIOUS
<1>10. running' = [running EXCEPT ![c] = m] /\ overlapped' = overlapped
  BY <1>9
<1> QED BY <1>8, <1>9, <1>10, OneCallMoves

\* handlePause and handleUnpause.
LEMMA PauseStep ==
    ASSUME TokenInv, NEW c \in TokenCalls, Pause(c), UNCHANGED <<started, overlapped, minted>>
    PROVE  TokenInv'
<1>1. c \in Active /\ running[c].op \in {"pause", "unpause"} /\ running[c].at = "token" /\ Return(c)
  BY AtIsActive DEF Pause
<1>2. CASE UNCHANGED store
  BY <1>1, <1>2, Refused
<1>3. CASE ~ UNCHANGED store
  <2>1. /\ store.token.version = running[c].tok.version
        /\ store' = [store EXCEPT !.token = [@ EXCEPT !.paused = (running[c].op = "pause"),
                                                      !.version = running[c].tok.version + 1]]
    BY <1>3 DEF Pause, UpdateToken
  <2>2. PICK b : b = (running[c].op = "pause")
    OBVIOUS
  <2>3. b \in BOOLEAN
    BY <2>2
  <2>4. PICK t : t = [store.token EXCEPT !.paused = b, !.version = store.token.version + 1]
    OBVIOUS
  <2>5. store.token \in Token
    BY <1>1, TokenFacts
  <2>6. /\ t.version = store.token.version + 1 /\ t.version \in Nat
        /\ t.kind = store.token.kind /\ t.max = store.token.max /\ t.supply = store.token.supply
    BY <2>4, <2>5 DEF Token
  <2>7. t \in Token
    BY <2>3, <2>4, <2>5, <2>6 DEF Token
  <2>8. t.version > store.token.version
    BY <2>5, <2>6 DEF Token
  <2>9. PICK s, s2 : s = store /\ s2 = store'
    OBVIOUS
  <2>10. s2 = [s EXCEPT !.token = t]
    <3>1. s2 = [s EXCEPT !.token = [s.token EXCEPT !.paused = b, !.version = s.token.version + 1]]
      BY <1>1, <2>1, <2>2, <2>9, TokenFacts DEF StoreTypes
    <3> QED BY <2>4, <2>9, <3>1
  <2>11. store' = [store EXCEPT !.token = t] /\ running' = [running EXCEPT ![c] = NoCall] /\ overlapped' = overlapped
    BY <1>1, <2>9, <2>10 DEF Return
  <2>12. t.max > 0 => t.supply <= t.max
    BY <1>1, <2>6, TokenFacts DEF Within
  <2>13. minted' = IF t.kind = "SFT" THEN minted ELSE t.supply
    BY <1>1, <2>6, TokenFacts DEF IssuedIn
  <2>14. /\ t.kind = "FT" => t.supply = store.token.supply + LeftOver(running[c])
         /\ t.kind = "SFT" => LeftOver(running[c]) = 0
    <3>1. LeftOver(running[c]) = 0
      BY <1>1 DEF LeftOver
    <3> QED BY <2>5, <2>6, <3>1 DEF Token
  <2> QED BY <1>1, <2>6, <2>7, <2>8, <2>11, <2>12, <2>13, <2>14, TokenChanges
<1> QED BY <1>2, <1>3

\* handleCreateClass.
LEMMA CreateClassStep ==
    ASSUME TokenInv, NEW c \in TokenCalls, CreateClass(c), UNCHANGED <<started, overlapped, minted>>
    PROVE  TokenInv'
<1>1. c \in Active /\ running[c].op = "createClass" /\ running[c].at = "token"
  BY AtIsActive DEF CreateClass
<1>2. CASE Return(c) /\ UNCHANGED store
  BY <1>1, <1>2, Refused
<1>3. CASE ~ (Return(c) /\ UNCHANGED store)
  <2>1. PICK x : x = [supply |-> 0, max |-> running[c].amt, version |-> 0]
    OBVIOUS
  <2>2. /\ running[c].tok.kind = "SFT" /\ store.cls = None
        /\ store' = [store EXCEPT !.cls = x] /\ running' = [running EXCEPT ![c] = NoCall] /\ overlapped' = overlapped
    BY <1>3, <2>1 DEF CreateClass, Require, Return
  <2>3. x \in Class
    BY <1>1, <2>1, TokenFacts DEF Class, Call
  <2>4. store.token.kind = "SFT"
    BY <1>1, <2>2, TokenFacts DEF SameToken
  <2>5. minted = 0 /\ minted' = x.supply /\ x.supply = 0
    BY <1>1, <2>1, <2>2, <2>4, TokenFacts DEF IssuedIn
  <2>6. x.supply = minted + LeftOver(running[c])
    <3>1. LeftOver(running[c]) = 0
      BY <1>1 DEF LeftOver
    <3> QED BY <2>5, <3>1
  <2>7. x.max > 0 => x.supply <= x.max
    BY <2>3, <2>5 DEF Class
  <2> QED BY <1>1, <2>2, <2>3, <2>4, <2>5, <2>6, <2>7, ClassChanges
<1> QED BY <1>2, <1>3

\* setFTBalance or setSFTBalance of the receiver.
LEMMA CreditStep ==
    ASSUME TokenInv, NEW c \in TokenCalls, CreditTo(c), UNCHANGED <<started, overlapped, minted>>
    PROVE  TokenInv'
<1>1. c \in Active /\ running[c].op \in {"mint", "transferFrom"} /\ running[c].at = "credit"
  BY AtIsActive DEF CreditTo
<1>2. PICK k, n : k = running[c] /\ n = running[c].bal + running[c].amt
  OBVIOUS
<1>3. /\ k \in Call /\ Checked(k) /\ k.to \in Holders /\ n \in Int /\ k.tok.kind # "NFT"
      /\ k.bal \in Int /\ k.amt \in Int
  BY <1>1, <1>2, TokenFacts DEF Call, Checked
<1>4. store' = [store EXCEPT !.bal[k.to] = n] /\ overlapped' = overlapped /\ minted' = minted
  BY <1>2 DEF CreditTo, SetBalance
<1>5. ~ overlapped => n - store.bal[k.to] = k.amt
  <2>1. ~ overlapped => store.bal[k.to] = k.bal
    BY <1>1, <1>2 DEF TokenInv, OneByOne, Alone
  <2> QED BY <1>2, <1>3, <2>1
<1>6. CASE k.op = "mint"
  <2>1. PICK m : m = [k EXCEPT !.at = "supply"]
    OBVIOUS
  <2>2. m \in Call /\ SameCall(k, m) /\ m.at = "supply" /\ m.item = k.item
    BY <1>3, <2>1 DEF Call, SameCall, Places
  <2>3. running' = [running EXCEPT ![c] = m]
    BY <1>2, <1>6, <2>1 DEF CreditTo, Goto
  <2>4. Checked(m)
    BY <1>1, <1>2, <1>3, <1>6, <2>2 DEF Checked, SameCall
  <2>5. LeftOver(k) = 0 /\ LeftOver(m) = k.amt /\ m # NoCall
    BY <1>1, <1>2, <1>6, <2>2, NoneIsNoRecord DEF LeftOver, SameCall
  <2>6. ~ overlapped => LeftOver(k) + (n - store.bal[k.to]) = IF m = NoCall THEN 0 ELSE LeftOver(m)
    BY <1>3, <1>5, <2>5
  <2> QED BY <1>1, <1>2, <1>3, <1>4, <2>2, <2>3, <2>4, <2>6, CallWritesBalance
<1>7. CASE k.op = "transferFrom"
  <2>1. PICK m : m = NoCall
    OBVIOUS
  <2>2. running' = [running EXCEPT ![c] = m]
    BY <1>2, <1>7, <2>1 DEF CreditTo, Return
  <2>3. LeftOver(k) = - k.amt
    BY <1>1, <1>2, <1>7 DEF LeftOver
  <2>4. ~ overlapped => LeftOver(k) + (n - store.bal[k.to]) = IF m = NoCall THEN 0 ELSE LeftOver(m)
    BY <1>3, <1>5, <2>1, <2>3
  <2> QED BY <1>1, <1>2, <1>3, <1>4, <2>1, <2>2, <2>4, CallWritesBalance
<1> QED BY <1>1, <1>2, <1>6, <1>7

\* A step on a stale version writes nothing and returns: two calls overlapped.
LEMMA StaleReturns ==
    ASSUME TokenInv, NEW c \in Active, Return(c), UNCHANGED store, overlapped' = overlapped, minted' = minted,
           overlapped
    PROVE  TokenInv'
<1>1. PICK m : m = NoCall
  OBVIOUS
<1>2. running' = [running EXCEPT ![c] = m]
  BY <1>1 DEF Return
<1>3. StoreTypes(store') /\ Later(store, store') /\ Within(store') /\ minted' = IssuedIn(store')
  BY TokenFacts, LaterSame DEF Within, IssuedIn
<1> QED BY <1>1, <1>2, <1>3, OneCallMoves

\* The total supply, by the version read at the start.
LEMMA SupplyStep ==
    ASSUME TokenInv, NEW c \in TokenCalls, Supply(c), UNCHANGED <<started, overlapped>>
    PROVE  TokenInv'
<1>1. /\ c \in Active /\ running[c].op \in {"deploy", "mint", "burn"} /\ running[c].at = "supply"
      /\ Return(c) /\ overlapped' = overlapped
  BY AtIsActive DEF Supply
<1>2. PICK k, n, d : /\ k = running[c]
                     /\ n = IF Fungible(running[c]) THEN running[c].amt ELSE 1
                     /\ d = IF k.op = "burn" THEN - n ELSE n
  OBVIOUS
<1>3. /\ IF k.tok.kind = "SFT" THEN UpdateSFTClass(k.item.version, k.item.supply + d)
         ELSE UpdateToken(k.tok.version, "supply", k.tok.supply + d)
      /\ minted' = IF store' = store THEN minted ELSE minted + d
  BY <1>2 DEF Supply
<1>4. /\ k \in Call /\ Checked(k) /\ SameToken(store, k) /\ SameClass(store, k)
      /\ store.token \in Token /\ minted = IssuedIn(store)
  BY <1>1, <1>2, TokenFacts
<1>5. n \in Nat /\ d \in Int /\ (k.op # "burn" => d = n) /\ (k.op = "burn" => d <= 0)
  BY <1>2, <1>4 DEF Call
<1>6. k.tok.kind \in {"FT", "SFT"} => n = k.amt /\ LeftOver(k) = d
  BY <1>1, <1>2, <1>4 DEF LeftOver, Fungible
<1>7. k.tok.kind = "NFT" => n = 1
  BY <1>2 DEF Fungible
<1>8. CASE k.tok.kind = "SFT"
  <2>1. /\ k.item # None /\ k.item \in Class /\ store.cls \in Class /\ store.cls # None
        /\ k.item.version = store.cls.version => k.item = store.cls
        /\ store.token.kind = "SFT"
    BY <1>1, <1>2, <1>4, <1>8, NoneIsNoRecord DEF Checked, SameClass, SameToken
  <2>2. CASE store.cls.version = k.item.version
    <3>1. PICK x : x = [supply |-> store.cls.supply + d, max |-> store.cls.max, version |-> store.cls.version + 1]
      OBVIOUS
    <3>2. x \in Class /\ x.max = store.cls.max /\ x.version > store.cls.version /\ x.supply = store.cls.supply + d
      BY <1>5, <2>1, <3>1 DEF Class
    <3>3. store' = [store EXCEPT !.cls = x]
      <4>1. PICK s, s2 : s = store /\ s2 = store'
        OBVIOUS
      <4>2. s2 = [s EXCEPT !.cls = [@ EXCEPT !.supply = k.item.supply + d, !.version = k.item.version + 1]]
        BY <1>3, <1>8, <2>2, <4>1 DEF UpdateSFTClass
      <4>3. [s.cls EXCEPT !.supply = k.item.supply + d, !.version = k.item.version + 1] = x
        <5>1. k.item = s.cls /\ s.cls = store.cls
          BY <2>1, <2>2, <4>1
        <5>2. PICK y \in Class : y = s.cls
          BY <2>1, <5>1
        <5>3. y = [supply |-> y.supply, max |-> y.max, version |-> y.version]
          BY DEF Class
        <5>4. PICK z : z = [y EXCEPT !.supply = y.supply + d, !.version = y.version + 1]
          OBVIOUS
        <5>5. z \in [supply : {y.supply + d}, max : {y.max}, version : {y.version + 1}]
          BY <5>3, <5>4
        <5>6. z = [supply |-> y.supply + d, max |-> y.max, version |-> y.version + 1]
          BY <5>5
        <5> QED BY <3>1, <5>1, <5>2, <5>4, <5>6
      <4>4. StoreTypes(s)
        BY <1>1, <4>1, TokenFacts
      <4>5. s2 = [s EXCEPT !.cls = x]
        BY <4>2, <4>3, <4>4 DEF StoreTypes
      <4> QED BY <4>1, <4>5
    <3>4. store' # store
      <4>1. store'.cls = x
        BY <1>1, <3>3, TokenFacts DEF StoreTypes
      <4> QED BY <2>1, <3>2, <4>1 DEF Class
    <3>5. minted = store.cls.supply /\ minted' = x.supply
      <4>1. store.token # None
        BY <1>1, TokenFacts
      <4>2. IssuedIn(store) = store.cls.supply
        BY <2>1, <4>1 DEF IssuedIn
      <4> QED BY <1>3, <1>4, <3>2, <3>4, <4>2
    <3>6. x.max > 0 => x.supply <= x.max
      <4>1. store.cls.max > 0 => store.cls.supply <= store.cls.max
        BY <1>1, <2>1, TokenFacts DEF Within
      <4>2. k.op = "mint" => Room(store.cls.max, store.cls.supply, n)
        BY <1>1, <1>2, <1>4, <1>6, <1>8, <2>1, <2>2 DEF Checked
      <4>3. k.op \in {"mint", "burn"}
        BY <1>1, <1>2, <1>4, <1>8 DEF Checked
      <4>4. store.cls.supply \in Int /\ store.cls.max \in Nat
        BY <2>1 DEF Class
      <4> QED BY <1>5, <3>2, <4>1, <4>2, <4>3, <4>4 DEF Room
    <3>7. x.supply = minted + LeftOver(running[c])
      BY <1>2, <1>6, <1>8, <3>2, <3>5
    <3>8. running' = [running EXCEPT ![c] = NoCall]
      BY <1>1 DEF Return
    <3> QED BY <1>1, <2>1, <3>2, <3>3, <3>5, <3>6, <3>7, <3>8, ClassChanges
  <2>3. CASE store.cls.version # k.item.version
    <3>1. store' = store /\ minted' = minted
      BY <1>3, <1>8, <2>3 DEF UpdateSFTClass
    <3>2. overlapped
      BY <1>1, <1>2, <1>8, <2>1, <2>3 DEF TokenInv, OneByOne, Alone
    <3> QED BY <1>1, <3>1, <3>2, StaleReturns
  <2> QED BY <2>2, <2>3
<1>9. CASE k.tok.kind # "SFT"
  <2>1. CASE store.token.version = k.tok.version
    <3>1. k.tok = store.token
      BY <1>4, <2>1 DEF SameToken
    <3>2. PICK t : t = [store.token EXCEPT !.supply = store.token.supply + d, !.version = store.token.version + 1]
      OBVIOUS
    <3>3. /\ t.kind = store.token.kind /\ t.max = store.token.max
          /\ t.supply = store.token.supply + d /\ t.version > store.token.version
          /\ t.supply \in Int /\ t.version \in Nat
      BY <1>4, <1>5, <3>2 DEF Token
    <3>4. t \in Token
      BY <1>4, <3>2, <3>3 DEF Token
    <3>5. store' = [store EXCEPT !.token = t]
      <4>1. PICK s, s2 : s = store /\ s2 = store'
        OBVIOUS
      <4>2. s2 = [s EXCEPT !.token = [@ EXCEPT !.supply = k.tok.supply + d, !.version = k.tok.version + 1]]
        BY <1>3, <1>9, <2>1, <4>1 DEF UpdateToken
      <4>3. [s.token EXCEPT !.supply = k.tok.supply + d, !.version = k.tok.version + 1] = t
        BY <3>1, <3>2, <4>1
      <4>4. StoreTypes(s)
        BY <1>1, <4>1, TokenFacts
      <4>5. s2 = [s EXCEPT !.token = t]
        BY <4>2, <4>3, <4>4 DEF StoreTypes
      <4> QED BY <4>1, <4>5
    <3>6. store' # store
      <4>1. store'.token = t
        BY <1>1, <3>5, TokenFacts DEF StoreTypes
      <4> QED BY <1>4, <3>3, <4>1 DEF Token
    <3>7. store.token # None
      BY <1>1, TokenFacts
    <3>8. minted = store.token.supply /\ minted' = t.supply
      BY <1>3, <1>4, <1>9, <3>1, <3>3, <3>6, <3>7 DEF IssuedIn
    <3>9. t.max > 0 => t.supply <= t.max
      <4>1. store.token.max > 0 => store.token.supply <= store.token.max
        BY <1>1, TokenFacts DEF Within
      <4>2. k.op # "burn" => Room(store.token.max, store.token.supply, n)
        BY <1>1, <1>2, <1>4, <1>6, <1>7, <1>9, <3>1 DEF Checked
      <4>3. store.token.supply \in Int /\ store.token.max \in Nat
        BY <1>4 DEF Token
      <4> QED BY <1>5, <3>3, <4>1, <4>2, <4>3 DEF Room
    <3>10. t.kind = "FT" => t.supply = store.token.supply + LeftOver(running[c])
      BY <1>2, <1>6, <3>1, <3>3
    <3>11. running' = [running EXCEPT ![c] = NoCall] /\ t.kind # "SFT"
      BY <1>1, <1>9, <3>1, <3>3 DEF Return
    <3> QED BY <1>1, <3>3, <3>4, <3>5, <3>8, <3>9, <3>10, <3>11, TokenChanges
  <2>2. CASE store.token.version # k.tok.version
    <3>1. store' = store /\ minted' = minted
      BY <1>3, <1>9, <2>2 DEF UpdateToken
    <3>2. overlapped
      BY <1>1, <1>2, <2>2 DEF TokenInv, OneByOne, Alone
    <3> QED BY <1>1, <3>1, <3>2, StaleReturns
  <2> QED BY <2>1, <2>2
<1> QED BY <1>8, <1>9

-----------------------------------------------------------------------------
(* Calls that begin, and approvals that end.                                 *)

\* The payloads the handlers are called with.
LEMMA PayloadFacts ==
    ASSUME NEW kind \in Kinds, NEW p \in Payloads(kind)
    PROVE  /\ p.op \in Ops \ {"deploy"} /\ p.by \in Holders /\ p.from \in Names /\ p.to \in Names
           /\ p.amt \in Nat /\ p.id \in Instances \cup {None}
           /\ p.op \in {"mint", "transferFrom"} => p.to \in Holders
           /\ p.op \in {"burn", "transferFrom"} /\ kind # "NFT" => p.from \in Holders
           /\ p.op \in {"mint", "burn", "transferFrom", "approve"} /\ kind = "NFT" => p.id \in Instances
<1>1. PICK A, I, F : /\ A = IF kind = "NFT" THEN {0} ELSE Quantities
                     /\ I = IF kind = "NFT" THEN Instances ELSE {None}
                     /\ F = IF kind = "NFT" THEN Holders \cup {Zero} ELSE Holders
  OBVIOUS
<1>2. /\ A \subseteq Nat /\ Caps \subseteq Nat /\ I \subseteq Instances \cup {None} /\ F \subseteq Names
      /\ Zero \in Names /\ Holders \subseteq Names
      /\ kind = "NFT" => I = Instances
      /\ kind # "NFT" => F = Holders
  BY <1>1, TokensAssumption DEF Names
<1>3. \/ p \in [op : {"mint"}, by : Holders, from : {Zero}, to : Holders, amt : A, id : I]
      \/ p \in [op : {"burn"}, by : Holders, from : IF kind = "NFT" THEN {Zero} ELSE Holders,
                to : {Zero}, amt : A, id : I]
      \/ p \in [op : {"transferFrom"}, by : Holders, from : F, to : Holders, amt : A, id : I]
      \/ p \in [op : {"approve"}, by : Holders, from : {Zero}, to : Holders, amt : A, id : I]
      \/ p \in [op : {"approveAll", "revokeAll"}, by : Holders, from : {Zero}, to : Holders,
                amt : {0}, id : {None}]
      \/ p \in [op : {"pause", "unpause"}, by : Holders, from : {Zero}, to : {Zero}, amt : {0}, id : {None}]
      \/ p \in [op : {"createClass"}, by : Holders, from : {Zero}, to : {Zero}, amt : Caps, id : {None}]
  BY <1>1 DEF Payloads
<1>4. CASE p \in [op : {"mint"}, by : Holders, from : {Zero}, to : Holders, amt : A, id : I]
  BY <1>2, <1>4 DEF Ops
<1>5. CASE p \in [op : {"burn"}, by : Holders, from : IF kind = "NFT" THEN {Zero} ELSE Holders,
                  to : {Zero}, amt : A, id : I]
  BY <1>2, <1>5 DEF Ops
<1>6. CASE p \in [op : {"transferFrom"}, by : Holders, from : F, to : Holders, amt : A, id : I]
  BY <1>2, <1>6 DEF Ops
<1>7. CASE p \in [op : {"approve"}, by : Holders, from : {Zero}, to : Holders, amt : A, id : I]
  BY <1>2, <1>7 DEF Ops
<1>8. CASE p \in [op : {"approveAll", "revokeAll"}, by : Holders, from : {Zero}, to : Holders,
                  amt : {0}, id : {None}]
  BY <1>2, <1>8 DEF Ops
<1>9. CASE p \in [op : {"pause", "unpause"}, by : Holders, from : {Zero}, to : {Zero}, amt : {0}, id : {None}]
  BY <1>2, <1>9 DEF Ops
<1>10. CASE p \in [op : {"createClass"}, by : Holders, from : {Zero}, to : {Zero}, amt : Caps, id : {None}]
  BY <1>2, <1>10 DEF Ops
<1> QED BY <1>3, <1>4, <1>5, <1>6, <1>7, <1>8, <1>9, <1>10

\* A call that begins fits, and finds what the calls before it left.
LEMMA StartStep ==
    ASSUME TokenInv, NEW c \in TokenCalls, Start(c), UNCHANGED minted
    PROVE  TokenInv'
<1>1. running[c] = NoCall /\ store.token # None /\ store' = store /\ minted' = minted
  BY DEF Start, Starts
<1>2. StoreTypes(store) /\ Within(store) /\ minted = IssuedIn(store) /\ store.token \in Token
  BY <1>1 DEF TokenInv, StoreTypes
<1>3. PICK p \in Payloads(store.token.kind) :
          running' = [running EXCEPT ![c] = [op |-> p.op, by |-> p.by, from |-> p.from, to |-> p.to,
                      amt |-> p.amt, id |-> p.id, at |-> "token", tok |-> store.token,
                      bal |-> 0, ans |-> 0, may |-> FALSE, item |-> None]]
  BY DEF Start
<1>4. PICK k : k = [op |-> p.op, by |-> p.by, from |-> p.from, to |-> p.to,
                      amt |-> p.amt, id |-> p.id, at |-> "token", tok |-> store.token,
                      bal |-> 0, ans |-> 0, may |-> FALSE, item |-> None]
  OBVIOUS
<1>5. /\ p.op \in Ops \ {"deploy"} /\ p.by \in Holders /\ p.from \in Names /\ p.to \in Names
      /\ p.amt \in Nat /\ p.id \in Instances \cup {None}
      /\ p.op \in {"mint", "transferFrom"} => p.to \in Holders
      /\ p.op \in {"burn", "transferFrom"} /\ store.token.kind # "NFT" => p.from \in Holders
      /\ p.op \in {"mint", "burn", "transferFrom", "approve"} /\ store.token.kind = "NFT" => p.id \in Instances
  <2>1. store.token.kind \in Kinds
    BY <1>2 DEF Token
  <2> QED BY ONLY <1>3, <2>1, PayloadFacts
<1>6. k \in Call
  BY <1>2, <1>4, <1>5 DEF Call, Places
<1>7. /\ k.op = p.op /\ k.by = p.by /\ k.from = p.from /\ k.to = p.to /\ k.amt = p.amt /\ k.id = p.id
      /\ k.at = "token" /\ k.tok = store.token /\ k.item = None
  BY <1>4
<1>8. Checked(k)
  BY <1>5, <1>7 DEF Checked
<1>9. Fits(store, k)
  <2>1. SameToken(store, k)
    BY <1>2, <1>7 DEF SameToken, Token
  <2>2. SameClass(store, k) /\ SameItem(store, k)
    BY <1>7 DEF SameClass, SameItem
  <2> QED BY <1>6, <1>8, <2>1, <2>2 DEF Fits
<1>10. /\ running' = [running EXCEPT ![c] = k] /\ running \in [TokenCalls -> Call \cup {NoCall}] /\ k # NoCall
  BY <1>3, <1>4, <1>6, NoneIsNoRecord DEF TokenInv
<1>11. running'[c] = k /\ \A d \in TokenCalls : d # c => running'[d] = running[d]
  BY <1>10
<1>12. running' \in [TokenCalls -> Call \cup {NoCall}]
  BY <1>6, <1>10
<1>13. ASSUME NEW d \in Active' PROVE Fits(store', running'[d])
  <2>1. CASE d = c
    BY <1>1, <1>9, <1>11, <2>1
  <2>2. CASE d # c
    <3>1. d \in Active /\ running'[d] = running[d]
      BY <1>11, <2>2 DEF Active
    <3> QED BY <1>1, <3>1 DEF TokenInv
  <2> QED BY <2>1, <2>2
<1>14. overlapped' = (overlapped \/ Active # {}) /\ overlapped' \in BOOLEAN
  BY DEF Start, Starts, Active
<1>15. OneByOne'
  <2> SUFFICES ASSUME ~ overlapped'
               PROVE  /\ \A d, e \in Active' : d = e
                      /\ \A d \in Active' : Alone(store', running'[d])
                      /\ Active' = {} /\ store'.token # None /\ store'.token.kind # "NFT" =>
                            HeldIn(store') = IssuedIn(store')
                      /\ store'.token = None => store'.bal = [h \in Holders |-> 0]
    BY DEF OneByOne
  <2>1. Active = {} /\ ~ overlapped
    BY <1>14
  <2>2. Active' = {c}
    BY <1>10, <1>11, <2>1 DEF Active
  <2>3. store.token.kind # "NFT" => HeldIn(store) = IssuedIn(store)
    BY <1>1, <2>1 DEF TokenInv, OneByOne
  <2>4. LeftOver(k) = 0 /\ IssuedIn(store) \in Int
    BY <1>2, <1>7, SupplyIsInt DEF LeftOver
  <2>5. Alone(store, k)
    BY <1>7, <2>3, <2>4 DEF Alone
  <2> QED BY <1>1, <1>11, <2>2, <2>5
<1>16. StoreTypes(store') /\ Within(store') /\ minted' = IssuedIn(store') /\ store'.token # None
  BY <1>1, <1>2
<1> QED BY <1>12, <1>13, <1>14, <1>15, <1>16 DEF TokenInv

\* handleDeploy creates the token, and goes on if there is a supply to mint.
LEMMA DeployStep ==
    ASSUME TokenInv, NEW c \in TokenCalls, Deploy(c), UNCHANGED minted
    PROVE  TokenInv'
<1>1. store.token = None /\ Active = {} /\ minted' = minted /\ overlapped' = overlapped
  BY DEF Deploy, Starts, TokenInv, Active
<1>2. PICK kind \in Kinds, by \in Holders, initial \in Quantities \cup {0}, cap \in Caps,
           mintable \in BOOLEAN, burnable \in BOOLEAN :
           LET token == [kind |-> kind, owner |-> by, supply |-> 0, max |-> cap, paused |-> FALSE,
                         mintable |-> mintable, burnable |-> burnable, version |-> 0]
           IN  /\ kind = "FT" \/ initial = 0
               /\ kind = "SFT" => cap = 0
               /\ store' = [store EXCEPT !.token = token]
               /\ running' = [running EXCEPT ![c] =
                      IF initial = 0 THEN NoCall
                      ELSE [op |-> "deploy", by |-> by, from |-> Zero, to |-> by, amt |-> initial,
                            id |-> None, at |-> "initial", tok |-> token,
                            bal |-> 0, ans |-> 0, may |-> FALSE, item |-> None]]
  BY DEF Deploy
<1>3. PICK t, k, m :
          /\ t = [kind |-> kind, owner |-> by, supply |-> 0, max |-> cap, paused |-> FALSE,
                  mintable |-> mintable, burnable |-> burnable, version |-> 0]
          /\ k = [op |-> "deploy", by |-> by, from |-> Zero, to |-> by, amt |-> initial,
                  id |-> None, at |-> "initial", tok |-> t,
                  bal |-> 0, ans |-> 0, may |-> FALSE, item |-> None]
          /\ m = IF initial = 0 THEN NoCall ELSE k
  OBVIOUS
<1>4. /\ kind = "FT" \/ initial = 0
      /\ kind = "SFT" => cap = 0
      /\ store' = [store EXCEPT !.token = t] /\ running' = [running EXCEPT ![c] = m]
  BY <1>2, <1>3
<1>5. initial \in Nat /\ cap \in Nat
  BY TokensAssumption
<1>6. t \in Token /\ t.kind = kind /\ t.supply = 0 /\ t.max = cap /\ t.version = 0 /\ t # None
  <2>1. t.kind = kind /\ t.supply = 0 /\ t.max = cap /\ t.version = 0
    BY <1>3
  <2>2. t \in Token
    BY <1>3, <1>5 DEF Token
  <2> QED BY <2>1, <2>2, NoneIsNoRecord
<1>7. PICK s, s2 : s = store /\ s2 = store'
  OBVIOUS
<1>8. StoreTypes(s) /\ Within(s) /\ minted = IssuedIn(s) /\ s.token = None /\ s.cls = None
  BY <1>1, <1>7 DEF TokenInv, Within
<1>9. /\ s2.token = t /\ s2.cls = s.cls /\ s2.bal = s.bal /\ s2.inst = s.inst /\ StoreTypes(s2)
  BY <1>4, <1>6, <1>7, <1>8 DEF StoreTypes
<1>10. Within(s2) /\ IssuedIn(s2) = 0 /\ minted' = 0
  <2>1. minted' = 0
    BY <1>1, <1>8 DEF IssuedIn
  <2>2. IssuedIn(s2) = 0
    BY <1>6, <1>8, <1>9 DEF IssuedIn
  <2>3. Within(s2)
    BY <1>4, <1>5, <1>6, <1>8, <1>9 DEF Within
  <2> QED BY <2>1, <2>2, <2>3
<1>11. ASSUME ~ overlapped PROVE s2.bal = [h \in Holders |-> 0] /\ HeldIn(s2) = 0
  <2>1. s2.bal = [h \in Holders |-> 0]
    BY <1>1, <1>7, <1>9, <1>11 DEF TokenInv, OneByOne
  <2>2. PICK v, S : v = s2.bal /\ S = Holders
    OBVIOUS
  <2>3. IsFiniteSet(S) /\ \A x \in S : v[x] = 0
    BY <2>1, <2>2, TokensAssumption
  <2>4. SumFunctionOnSet(v, S) = 0
    BY ONLY <2>3, SumOfZeros
  <2> QED BY <2>1, <2>2, <2>4 DEF HeldIn
<1>12. running \in [TokenCalls -> Call \cup {NoCall}] /\ \A d \in TokenCalls : running[d] = NoCall
  BY <1>1 DEF TokenInv, Active
<1>13. /\ running'[c] = m /\ \A d \in TokenCalls : d # c => running'[d] = NoCall
  BY <1>4, <1>12
<1>14. /\ StoreTypes(store') /\ Within(store') /\ minted' = IssuedIn(store') /\ store'.token # None
       /\ store'.token = t /\ overlapped' \in BOOLEAN
  BY <1>1, <1>6, <1>7, <1>9, <1>10 DEF TokenInv
<1>15. CASE initial = 0
  <2>1. Active' = {} /\ running' \in [TokenCalls -> Call \cup {NoCall}]
    BY <1>3, <1>4, <1>12, <1>13, <1>15 DEF Active
  <2>2. OneByOne'
    <3>1. ~ overlapped => HeldIn(store') = IssuedIn(store')
      BY <1>7, <1>10, <1>11
    <3> QED BY <1>1, <1>14, <2>1, <3>1 DEF OneByOne
  <2> QED BY <1>14, <2>1, <2>2 DEF TokenInv
<1>16. CASE initial # 0
  <2>1. m = k /\ kind = "FT"
    BY <1>3, <1>4, <1>16
  <2>2. k \in Call
    BY <1>3, <1>5, <1>6 DEF Call, Places, Ops, Names
  <2>3. /\ k.op = "deploy" /\ k.by = by /\ k.to = by /\ k.at = "initial" /\ k.tok = t /\ k.item = None
    BY <1>3
  <2>4. Checked(k)
    BY <1>6, <2>1, <2>3 DEF Checked
  <2>5. Fits(s2, k)
    <3>1. SameToken(s2, k)
      BY <1>6, <1>9, <2>3 DEF SameToken
    <3>2. SameClass(s2, k) /\ SameItem(s2, k)
      BY <2>3 DEF SameClass, SameItem
    <3> QED BY <2>2, <2>4, <3>1, <3>2 DEF Fits
  <2>6. ~ overlapped => Alone(s2, k)
    <3>1. LeftOver(k) = 0
      BY <2>3 DEF LeftOver
    <3> QED BY <1>9, <1>10, <1>11, <2>3, <3>1 DEF Alone
  <2>7. k # NoCall
    BY <2>2, NoneIsNoRecord
  <2>8. Active' = {c} /\ running' \in [TokenCalls -> Call \cup {NoCall}]
    BY <1>4, <1>12, <1>13, <2>1, <2>2, <2>7 DEF Active
  <2>9. \A d \in Active' : Fits(store', running'[d])
    BY <1>7, <1>13, <2>1, <2>5, <2>8
  <2>10. OneByOne'
    BY <1>1, <1>7, <1>13, <1>14, <2>1, <2>6, <2>8 DEF OneByOne
  <2> QED BY <1>14, <2>8, <2>9, <2>10 DEF TokenInv
<1> QED BY <1>15, <1>16

\* An approval that ends.
LEMMA ExpireStep ==
    ASSUME TokenInv, Expire, UNCHANGED <<started, overlapped, minted>>
    PROVE  TokenInv'
<1>1. PICK i \in Instances : store' = [store EXCEPT !.appr[i].until = "past"]
  BY DEF Expire
<1>2. PICK s, s2, a : s = store /\ s2 = store' /\ a = [store.appr[i] EXCEPT !.until = "past"]
  OBVIOUS
<1>3. StoreTypes(s)
  BY <1>2 DEF TokenInv
<1>4. s2 = [s EXCEPT !.appr[i] = a]
  BY <1>1, <1>2, <1>3 DEF StoreTypes
<1>5. \E x, y : s2 = [s EXCEPT !.appr[x] = y]
  BY <1>4
<1>6. SameBooks(s, s2)
  BY <1>3, <1>5, OtherTables
<1>7. /\ store'.token = store.token /\ store'.cls = store.cls /\ store'.inst = store.inst
      /\ store'.bal = store.bal /\ StoreTypes(store')
  BY <1>2, <1>6 DEF SameBooks
<1>8. Later(store, store')
  BY <1>2, <1>3, <1>7, LaterSame
<1>9. running' = running /\ overlapped' = overlapped /\ minted' = minted /\ Active' = Active
  BY DEF Expire, Active
<1>10. \A d \in Active' : Fits(store', running'[d])
  BY <1>8, <1>9, FitsLater DEF TokenInv
<1>11. Within(store') /\ IssuedIn(store') = IssuedIn(store) /\ HeldIn(store') = HeldIn(store)
  BY <1>7 DEF TokenInv, Within, IssuedIn, HeldIn
<1>12. ASSUME NEW d \in Active, Alone(store, running[d]) PROVE Alone(store', running'[d])
  BY <1>7, <1>9, <1>11, <1>12 DEF Alone
<1>13. OneByOne'
  BY <1>7, <1>9, <1>11, <1>12 DEF TokenInv, OneByOne
<1> QED BY <1>7, <1>9, <1>10, <1>11, <1>13 DEF TokenInv

-----------------------------------------------------------------------------
(* The specification.                                                        *)

\* No call is under way and nothing is issued.
LEMMA TokenInit == TokensInit => TokenInv
<1> SUFFICES ASSUME TokensInit PROVE TokenInv
  OBVIOUS
<1>1. StoreTypes(store)
  BY DEF TokensInit, StoreTypes
<1>2. running \in [TokenCalls -> Call \cup {NoCall}] /\ Active = {}
  BY DEF TokensInit, Active
<1>3. store.token = None /\ store.cls = None /\ minted = 0 /\ store.bal = [h \in Holders |-> 0]
  BY DEF TokensInit
<1>4. Within(store) /\ minted = IssuedIn(store)
  BY <1>3 DEF Within, IssuedIn
<1>5. OneByOne /\ overlapped \in BOOLEAN
  BY <1>2, <1>3 DEF TokensInit, OneByOne
<1> QED BY <1>1, <1>2, <1>3, <1>4, <1>5 DEF TokenInv

\* Every step keeps the invariant.
LEMMA TokenNext == TokenInv /\ [TokensNext]_tokensVars => TokenInv'
<1> SUFFICES ASSUME TokenInv, [TokensNext]_tokensVars PROVE TokenInv'
  OBVIOUS
<1>1. CASE \E c \in TokenCalls : (Start(c) \/ Deploy(c)) /\ UNCHANGED minted
  BY <1>1, StartStep, DeployStep
<1>2. ASSUME NEW c \in TokenCalls, Step(c), UNCHANGED <<started, overlapped, minted>>
      PROVE  TokenInv'
  <2>1. CASE InitialSupply(c) \/ Mint(c) \/ MintClass(c) \/ CreditTo(c)
    BY <1>2, <2>1, InitialSupplyStep, MintStep, MintClassStep, CreditStep
  <2>2. CASE SpendFrom(c) \/ Balance(c) \/ Allowance(c) \/ AllowanceSpent(c) \/ OperatorOfSFT(c)
    BY <1>2, <2>2, SpendStep, BalanceStep, AllowanceStep, AllowanceSpentStep, OperatorOfSFTStep
  <2>3. CASE BurnClass(c) \/ ReadTo(c) \/ Instance(c) \/ Approval(c) \/ OperatorOfNFT(c) \/ ClearApproval(c)
    BY <1>2, <2>3, BurnClassStep, ReadToStep, InstanceStep, ApprovalStep, OperatorOfNFTStep, ClearApprovalStep
  <2>4. CASE Approve(c) \/ ApproveInstance(c) \/ SetApprovalForAll(c) \/ Pause(c) \/ CreateClass(c)
    BY <1>2, <2>4, ApproveStep, ApproveInstanceStep, SetApprovalForAllStep, PauseStep, CreateClassStep
  <2> QED BY <1>2, <2>1, <2>2, <2>3, <2>4 DEF Step
<1>3. ASSUME NEW c \in TokenCalls, Supply(c), UNCHANGED <<started, overlapped>>
      PROVE  TokenInv'
  BY <1>3, SupplyStep
<1>4. CASE Expire /\ UNCHANGED <<started, overlapped, minted>>
  BY <1>4, ExpireStep
<1>5. CASE UNCHANGED tokensVars
  <2>1. store' = store /\ running' = running /\ overlapped' = overlapped /\ minted' = minted
    BY <1>5 DEF tokensVars
  <2>2. Active' = Active
    BY <2>1 DEF Active
  <2>3. OneByOne'
    BY <2>1, <2>2 DEF TokenInv, OneByOne, Alone, LeftOver
  <2>4. \A c \in Active' : Fits(store', running'[c])
    BY <2>1, <2>2 DEF TokenInv
  <2> QED BY <2>1, <2>2, <2>3, <2>4 DEF TokenInv
<1> QED BY <1>1, <1>2, <1>3, <1>4, <1>5 DEF TokensNext

\* What the invariant says of the supply.
LEMMA SupplyIsCounted == TokenInv => SupplyAddsUp
<1> SUFFICES ASSUME TokenInv PROVE SupplyAddsUp
  OBVIOUS
<1>1. Issued = IssuedIn(store) /\ Held = HeldIn(store)
  BY DEF Issued, IssuedIn, Held, HeldIn
<1>2. SupplyCountsSuccess
  BY <1>1 DEF TokenInv, Within, SupplyCountsSuccess
<1>3. HoldersHaveTheSupply
  BY <1>1 DEF TokenInv, OneByOne, Active, Quiet, HoldersHaveTheSupply
<1> QED BY <1>2, <1>3 DEF SupplyAddsUp

(* Whatever the calls and however they interleave, the total supply is what    *)
(* the deployments, mints and burns that succeeded add up to, within its        *)
(* maximum; and when calls are made one at a time the holders of a fungible     *)
(* token have it between them.                                               *)
THEOREM SupplyIsTrue == TokensSpec => []SupplyAddsUp
BY TokenInit, TokenNext, SupplyIsCounted, PTL DEF TokensSpec

-----------------------------------------------------------------------------
(* Owners of instances.                                                      *)

\* What a step may do to the store: move or create one instance, or write
\* something else.
ElsewhereOnly(s, s2) ==
    \/ s2 = s
    \/ \E h, n : s2 = [s EXCEPT !.bal[h] = n]
    \/ \E o, p, n : s2 = [s EXCEPT !.allow[o][p] = n]
    \/ \E x : s2 = [s EXCEPT !.ops = x]
    \/ \E i, a : s2 = [s EXCEPT !.appr[i] = a]
    \/ \E t : s2 = [s EXCEPT !.token = t]
    \/ \E x : s2 = [s EXCEPT !.cls = x]

\* Such a step leaves the instances.
LEMMA OtherTablesKeepInstances ==
    ASSUME NEW s, StoreTypes(s), NEW s2, ElsewhereOnly(s, s2)
    PROVE  s2.inst = s.inst
BY DEF StoreTypes, ElsewhereOnly

\* Every instance whose owner changes was moved by a call that found its owner and is
\* that owner or was told that it may.
OwnerWasFound ==
    \A i \in Instances :
        store.inst[i] # None /\ store'.inst[i].owner # store.inst[i].owner =>
            \E c \in TokenCalls :
                LET k == running[c]
                IN  /\ k # NoCall /\ running'[c] # k /\ k.id = i /\ k.item.owner = store.inst[i].owner
                    /\ k.by = k.item.owner \/ k.may

\* Such a step takes no instance from its owner.
LEMMA ElsewhereKeepsOwners ==
    ASSUME TokenInv, ElsewhereOnly(store, store')
    PROVE  OwnerWasFound
<1>1. PICK s, s2 : s = store /\ s2 = store'
  OBVIOUS
<1>2. ElsewhereOnly(s, s2)
  BY <1>1
<1>3. StoreTypes(s)
  BY <1>1 DEF TokenInv
<1>4. s2.inst = s.inst
  BY ONLY <1>2, <1>3, OtherTablesKeepInstances
<1> QED BY <1>1, <1>4 DEF OwnerWasFound

\* The move itself.
LEMMA MoveKeepsOwners ==
    ASSUME TokenInv, NEW c \in Active, Move(c), running[c].item # None, running[c].tok.kind = "NFT",
           running[c].at \in {"instance", "approval", "operator"},
           running[c].by = running[c].item.owner \/ running[c].may
    PROVE  OwnerWasFound
<1>1. CASE Return(c) /\ UNCHANGED store
  <2>1. ElsewhereOnly(store, store')
    BY <1>1 DEF ElsewhereOnly
  <2> QED BY <2>1, ElsewhereKeepsOwners
<1>2. CASE ~ (Return(c) /\ UNCHANGED store)
  <2>1. /\ running[c].id \in Instances /\ running[c].item = store.inst[running[c].id] /\ running[c].item \in Item
        /\ store' = [store EXCEPT !.inst[running[c].id] =
                        [owner |-> IF running[c].op = "burn" THEN Zero ELSE running[c].to,
                         version |-> store.inst[running[c].id].version + 1]]
        /\ Goto(c, IF running[c].op = "burn" THEN "supply" ELSE "clear")
    BY <1>2, MoveFindsOwner
  <2>2. PICK s, s2, j, r :
            /\ s = store /\ s2 = store' /\ j = running[c].id
            /\ r = [owner |-> IF running[c].op = "burn" THEN Zero ELSE running[c].to,
                    version |-> store.inst[running[c].id].version + 1]
    OBVIOUS
  <2>3. StoreTypes(s) /\ s2 = [s EXCEPT !.inst[j] = r]
    BY <2>1, <2>2, TokenFacts
  <2>4. \A i \in Instances : i # j => s2.inst[i] = s.inst[i]
    BY <2>3 DEF StoreTypes
  <2>5. PICK k, at : k = running[c] /\ at = IF running[c].op = "burn" THEN "supply" ELSE "clear"
    OBVIOUS
  <2>6. k \in Call /\ k # NoCall /\ c \in TokenCalls /\ running \in [TokenCalls -> Call \cup {NoCall}]
    BY <2>5, TokenFacts DEF TokenInv
  <2>7. running' = [running EXCEPT ![c] = [k EXCEPT !.at = at]]
    BY <2>1, <2>5, <2>6 DEF Goto
  <2>8. [k EXCEPT !.at = at].at = at
    BY <2>6 DEF Call
  <2>9. running'[c] # running[c]
    <3>1. running'[c] = [k EXCEPT !.at = at]
      BY <2>6, <2>7
    <3>2. running'[c].at = at
      BY <2>8, <3>1
    <3>3. running[c].at # at
      BY <2>5
    <3> QED BY <3>2, <3>3
  <2>10. running[c].item.owner = store.inst[j].owner /\ c \in TokenCalls /\ running[c] # NoCall /\ running[c].id = j
    BY <2>1, <2>2, <2>5, <2>6
  <2> QED BY <2>2, <2>4, <2>9, <2>10 DEF OwnerWasFound
<1> QED BY <1>1, <1>2

\* A new instance has no owner to lose.
LEMMA MintKeepsOwners ==
    ASSUME TokenInv, NEW c \in TokenCalls, Mint(c)
    PROVE  OwnerWasFound
<1>1. c \in Active
  BY AtIsActive DEF Mint
<1>2. CASE store' = store
  <2>1. ElsewhereOnly(store, store')
    BY <1>2 DEF ElsewhereOnly
  <2> QED BY <2>1, ElsewhereKeepsOwners
<1>3. CASE store' # store
  <2>1. PICK s, s2, j, r : /\ s = store /\ s2 = store' /\ j = running[c].id
                           /\ r = [owner |-> running[c].to, version |-> 0]
    OBVIOUS
  <2>2. s.inst[j] = None /\ s2 = [s EXCEPT !.inst[j] = r]
    BY <1>1, <1>3, <2>1, KindOfCall DEF Mint, Require, Reads
  <2>3. StoreTypes(s)
    BY <1>1, <2>1, TokenFacts
  <2>4. \A i \in Instances : i # j => s2.inst[i] = s.inst[i]
    BY <2>2, <2>3 DEF StoreTypes
  <2> QED BY <2>1, <2>2, <2>4 DEF OwnerWasFound
<1> QED BY <1>2, <1>3

\* Instances move from the owner their call found.
LEMMA InstanceKeepsOwners ==
    ASSUME TokenInv, NEW c \in TokenCalls, Instance(c) \/ Approval(c) \/ OperatorOfNFT(c)
    PROVE  OwnerWasFound
<1>1. c \in Active /\ running[c].tok.kind = "NFT" /\ running[c].at \in {"instance", "approval", "operator"}
  <2>1. CASE Instance(c)
    BY <2>1, AtIsActive, TokenFacts DEF Instance, Checked
  <2>2. CASE Approval(c)
    BY <2>2, AtIsActive, TokenFacts DEF Approval, Checked
  <2>3. CASE OperatorOfNFT(c)
    BY <2>3, AtIsActive, TokenFacts DEF OperatorOfNFT
  <2> QED BY <2>1, <2>2, <2>3
<1>2. CASE store' = store
  <2>1. ElsewhereOnly(store, store')
    BY <1>2 DEF ElsewhereOnly
  <2> QED BY <2>1, ElsewhereKeepsOwners
<1>3. CASE store' # store
  <2>1. CASE Instance(c)
    <3>1. running[c].item # None /\ Move(c) /\ running[c].by = running[c].item.owner
      BY <1>3, <2>1 DEF Instance, Require, Reads
    <3> QED BY <1>1, <3>1, MoveKeepsOwners
  <2>2. CASE Approval(c)
    <3>1. Move(c) /\ running[c].may
      BY <1>3, <2>2 DEF Approval, Reads
    <3>2. running[c].at = "approval"
      BY <2>2, AtIsActive DEF Approval
    <3>3. running[c].item # None
      BY <1>1, <3>2, TokenFacts DEF Checked
    <3> QED BY <1>1, <3>1, <3>3, MoveKeepsOwners
  <2>3. CASE OperatorOfNFT(c)
    <3>1. Move(c) /\ running[c].may
      BY <1>3, <2>3 DEF OperatorOfNFT, Require
    <3>2. running[c].at = "operator"
      BY <2>3, AtIsActive DEF OperatorOfNFT
    <3>3. running[c].item # None
      BY <1>1, <3>2, TokenFacts DEF Checked
    <3> QED BY <1>1, <3>1, <3>3, MoveKeepsOwners
  <2> QED BY <2>1, <2>2, <2>3
<1> QED BY <1>2, <1>3

\* Every other action writes elsewhere.
LEMMA OthersWriteElsewhere ==
    ASSUME TokenInv, NEW c \in TokenCalls,
           \/ Start(c) \/ Deploy(c) \/ InitialSupply(c) \/ MintClass(c) \/ CreditTo(c) \/ Supply(c)
           \/ SpendFrom(c) \/ Balance(c) \/ Allowance(c) \/ AllowanceSpent(c) \/ OperatorOfSFT(c)
           \/ BurnClass(c) \/ ReadTo(c) \/ ClearApproval(c) \/ Approve(c) \/ ApproveInstance(c)
           \/ SetApprovalForAll(c) \/ Pause(c) \/ CreateClass(c)
    PROVE  ElsewhereOnly(store, store')
<1>1. CASE Start(c)
  BY <1>1 DEF Start, ElsewhereOnly
<1>2. CASE Deploy(c)
  <2>1. \E t : store' = [store EXCEPT !.token = t]
    <3>1. PICK kind \in Kinds, by \in Holders, initial \in Quantities \cup {0}, cap \in Caps,
               mintable \in BOOLEAN, burnable \in BOOLEAN :
               LET token == [kind |-> kind, owner |-> by, supply |-> 0, max |-> cap, paused |-> FALSE,
                             mintable |-> mintable, burnable |-> burnable, version |-> 0]
               IN  /\ kind = "FT" \/ initial = 0
                   /\ kind = "SFT" => cap = 0
                   /\ store' = [store EXCEPT !.token = token]
                   /\ running' = [running EXCEPT ![c] =
                          IF initial = 0 THEN NoCall
                          ELSE [op |-> "deploy", by |-> by, from |-> Zero, to |-> by, amt |-> initial,
                                id |-> None, at |-> "initial", tok |-> token,
                                bal |-> 0, ans |-> 0, may |-> FALSE, item |-> None]]
      BY <1>2 DEF Deploy
    <3> QED BY <3>1
  <2> QED BY <2>1 DEF ElsewhereOnly
<1>3. CASE InitialSupply(c)
  BY <1>3 DEF InitialSupply, Require, SetBalance, ElsewhereOnly
<1>4. CASE MintClass(c) \/ SpendFrom(c) \/ ReadTo(c)
  BY <1>4 DEF MintClass, SpendFrom, ReadTo, Require, Reads, ElsewhereOnly
<1>5. CASE CreditTo(c)
  BY <1>5 DEF CreditTo, SetBalance, ElsewhereOnly
<1>6. CASE Supply(c)
  <2>1. \/ store' = store
        \/ \E t : store' = [store EXCEPT !.token = t]
        \/ \E x : store' = [store EXCEPT !.cls = x]
    BY <1>6 DEF Supply, UpdateToken, UpdateSFTClass
  <2> QED BY <2>1 DEF ElsewhereOnly
<1>7. CASE Balance(c) \/ OperatorOfSFT(c)
  <2>1. store' = store \/ Authorized(c)
    <3>1. CASE Balance(c)
      <4>1. c \in Active /\ running[c].at = "balance"
        BY <3>1, AtIsActive DEF Balance
      <4>2. running[c].tok.kind \in {"FT", "SFT"}
        BY <4>1, KindOfCall, TokenFacts DEF Checked
      <4> QED BY <3>1, <4>2 DEF Balance, Require, Reads
    <3>2. CASE OperatorOfSFT(c)
      BY <3>2 DEF OperatorOfSFT, Require
    <3> QED BY <1>7, <3>1, <3>2
  <2> QED BY <2>1 DEF Authorized, Debit, SetBalance, Reads, ElsewhereOnly
<1>8. CASE Allowance(c)
  BY <1>8 DEF Allowance, Require, ElsewhereOnly
<1>9. CASE AllowanceSpent(c) \/ BurnClass(c)
  BY <1>9 DEF AllowanceSpent, BurnClass, Require, Debit, SetBalance, ElsewhereOnly
<1>10. CASE ClearApproval(c)
  BY <1>10 DEF ClearApproval, ElsewhereOnly
<1>11. CASE Approve(c)
  <2>1. c \in Active
    BY <1>11, AtIsActive DEF Approve
  <2>2. \/ store' = store
        \/ store' = [store EXCEPT !.allow[running[c].by][running[c].to] = running[c].amt]
    BY <1>11, <2>1, KindOfCall DEF Approve, Reads
  <2> QED BY <2>2 DEF ElsewhereOnly
<1>12. CASE ApproveInstance(c)
  BY <1>12 DEF ApproveInstance, Require, ElsewhereOnly
<1>13. CASE SetApprovalForAll(c)
  BY <1>13 DEF SetApprovalForAll, Require, ElsewhereOnly
<1>14. CASE Pause(c)
  <2>1. store' = store \/ \E t : store' = [store EXCEPT !.token = t]
    BY <1>14 DEF Pause, UpdateToken
  <2> QED BY <2>1 DEF ElsewhereOnly
<1>15. CASE CreateClass(c)
  <2>1. store' = store \/ \E x : store' = [store EXCEPT !.cls = x]
    BY <1>15 DEF CreateClass, Require
  <2> QED BY <2>1 DEF ElsewhereOnly
<1> QED BY <1>1, <1>2, <1>3, <1>4, <1>5, <1>6, <1>7, <1>8, <1>9, <1>10, <1>11, <1>12, <1>13, <1>14, <1>15

\* No step but a move or a mint touches an instance.
LEMMA StepKeepsOwners == TokenInv /\ [TokensNext]_tokensVars => OwnerWasFound
<1> SUFFICES ASSUME TokenInv, [TokensNext]_tokensVars PROVE OwnerWasFound
  OBVIOUS
<1>1. ASSUME NEW c \in TokenCalls, Start(c) \/ Deploy(c) \/ Supply(c)
      PROVE  OwnerWasFound
  BY <1>1, OthersWriteElsewhere, ElsewhereKeepsOwners
<1>2. ASSUME NEW c \in TokenCalls, Step(c)
      PROVE  OwnerWasFound
  <2>1. CASE Mint(c)
    BY <2>1, MintKeepsOwners
  <2>2. CASE Instance(c) \/ Approval(c) \/ OperatorOfNFT(c)
    BY <2>2, InstanceKeepsOwners
  <2>3. CASE ~ (Mint(c) \/ Instance(c) \/ Approval(c) \/ OperatorOfNFT(c))
    <3>1. ElsewhereOnly(store, store')
      BY <1>2, <2>3, OthersWriteElsewhere DEF Step
    <3> QED BY <3>1, ElsewhereKeepsOwners
  <2> QED BY <2>1, <2>2, <2>3
<1>3. CASE Expire
  <2>1. PICK i \in Instances : store' = [store EXCEPT !.appr[i].until = "past"]
    BY <1>3 DEF Expire
  <2>2. PICK s, s2, a : s = store /\ s2 = store' /\ a = [store.appr[i] EXCEPT !.until = "past"]
    OBVIOUS
  <2>3. StoreTypes(s)
    BY <2>2 DEF TokenInv
  <2>4. s2 = [s EXCEPT !.appr[i] = a]
    BY <2>1, <2>2, <2>3 DEF StoreTypes
  <2>5. ElsewhereOnly(s, s2)
    BY <2>4 DEF ElsewhereOnly
  <2>6. ElsewhereOnly(store, store')
    BY <2>2, <2>5
  <2> QED BY <2>6, ElsewhereKeepsOwners
<1>4. CASE UNCHANGED tokensVars
  <2>1. ElsewhereOnly(store, store')
    BY <1>4 DEF tokensVars, ElsewhereOnly
  <2> QED BY <2>1, ElsewhereKeepsOwners
<1> QED BY <1>1, <1>2, <1>3, <1>4 DEF TokensNext

\* A call that is told that it may move an instance is told what the store holds.
NewAnswer(c) ==
    /\ running'[c] # NoCall /\ running'[c].may /\ running'[c].tok.kind = "NFT"
    /\ running[c] = NoCall \/ ~running[c].may
AnswersAreTrue == \A c \in TokenCalls : NewAnswer(c) => Entitled(running'[c])

\* A step of one call is one whatever it does to it but tell it what is not so.
LEMMA OneAnswers ==
    ASSUME TokenInv, NEW c \in TokenCalls, NEW k, running' = [running EXCEPT ![c] = k],
           \/ k = NoCall \/ k.may = FALSE \/ k.tok.kind # "NFT"
           \/ running[c] # NoCall /\ k.may = running[c].may
           \/ Entitled(k)
    PROVE  AnswersAreTrue
<1>1. running'[c] = k /\ \A d \in TokenCalls : d # c => running'[d] = running[d]
  BY DEF TokenInv
<1> QED BY <1>1 DEF AnswersAreTrue, NewAnswer

\* Going on, reading something else and returning.
LEMMA GoingOnAnswers ==
    ASSUME TokenInv, NEW c \in Active, NEW at,
           \/ Goto(c, at) \/ Return(c) \/ running' = running
           \/ \E value : Reads(c, at, "bal", value) \/ Reads(c, at, "ans", value) \/ Reads(c, at, "item", value)
    PROVE  AnswersAreTrue
<1>1. PICK k : k = running[c]
  OBVIOUS
<1>2. k \in Call /\ k # NoCall /\ c \in TokenCalls
  BY <1>1, TokenFacts
<1>3. CASE Goto(c, at)
  <2>1. [k EXCEPT !.at = at].may = k.may
    BY <1>2 DEF Call
  <2>2. running' = [running EXCEPT ![c] = [k EXCEPT !.at = at]]
    BY <1>1, <1>3, <1>2 DEF Goto, TokenInv
  <2> QED BY <1>1, <1>2, <2>1, <2>2, OneAnswers
<1>4. CASE Return(c)
  BY <1>2, <1>4, OneAnswers DEF Return
<1>5. CASE running' = running
  BY <1>5 DEF AnswersAreTrue, NewAnswer
<1>6. ASSUME NEW value, Reads(c, at, "bal", value) \/ Reads(c, at, "ans", value) \/ Reads(c, at, "item", value)
      PROVE  AnswersAreTrue
  <2>1. PICK field \in {"bal", "ans", "item"} : Reads(c, at, field, value)
    BY <1>6
  <2>2. PICK m : m = [[k EXCEPT !.at = at] EXCEPT ![field] = value]
    OBVIOUS
  <2>3. m.may = k.may
    BY <1>2, <2>2 DEF Call
  <2>4. running' = [running EXCEPT ![c] = m]
    BY <1>1, <1>2, <2>1, <2>2 DEF Reads, TokenInv
  <2> QED BY <1>1, <1>2, <2>3, <2>4, OneAnswers
<1> QED BY <1>3, <1>4, <1>5, <1>6

\* What a call reads of approvals and operators.
LEMMA MayIsRead ==
    ASSUME TokenInv, NEW c \in Active, NEW at, NEW answer \in BOOLEAN, Reads(c, at, "may", answer),
           \/ running[c].tok.kind # "NFT"
           \/ answer => Entitled(running[c])
    PROVE  AnswersAreTrue
<1>1. PICK k : k = running[c]
  OBVIOUS
<1>2. k \in Call /\ k # NoCall /\ c \in TokenCalls
  BY <1>1, TokenFacts
<1>3. PICK m : m = [[k EXCEPT !.at = at] EXCEPT !["may"] = answer]
  OBVIOUS
<1>4. m.may = answer /\ m.tok = k.tok /\ m.id = k.id /\ m.by = k.by /\ m.item = k.item
  BY <1>2, <1>3 DEF Call
<1>5. running' = [running EXCEPT ![c] = m]
  BY <1>1, <1>2, <1>3 DEF Reads, TokenInv
<1>6. Entitled(k) => Entitled(m)
  BY <1>4 DEF Entitled
<1> QED BY <1>1, <1>2, <1>4, <1>5, <1>6, OneAnswers

\* The two reads of checkNFTAuthorization, and the move after them.
LEMMA InstanceAnswers ==
    ASSUME TokenInv, NEW c \in TokenCalls, Instance(c) \/ Approval(c) \/ OperatorOfNFT(c)
    PROVE  AnswersAreTrue
<1>1. c \in Active
  BY AtIsActive DEF Instance, Approval, OperatorOfNFT
<1>2. CASE Move(c)
  BY <1>1, <1>2, GoingOnAnswers DEF Move
<1>3. CASE Return(c)
  BY <1>1, <1>3, GoingOnAnswers
<1>4. CASE Instance(c) /\ ~Move(c) /\ ~Return(c)
  <2>1. PICK answer \in BOOLEAN : answer = (/\ store.appr[running[c].id] # None
                                           /\ store.appr[running[c].id].approved = running[c].by
                                           /\ store.appr[running[c].id].until # "past")
    <3> DEFINE held == /\ store.appr[running[c].id] # None
                       /\ store.appr[running[c].id].approved = running[c].by
                       /\ store.appr[running[c].id].until # "past"
    <3>1. held \in BOOLEAN
      OBVIOUS
    <3> HIDE DEF held
    <3>2. \E answer \in BOOLEAN : answer = held
      BY <3>1
    <3> QED BY <3>2 DEF held
  <2>2. Reads(c, "approval", "may", answer)
    BY <1>4, <2>1 DEF Instance, Require
  <2>3. answer => Entitled(running[c])
    BY <2>1, Zenon DEF Entitled
  <2> QED BY <1>1, <2>2, <2>3, MayIsRead
<1>5. CASE Approval(c) /\ ~Move(c)
  <2>1. PICK answer \in BOOLEAN : answer = (<<running[c].item.owner, running[c].by>> \in store.ops)
    <3> DEFINE held == <<running[c].item.owner, running[c].by>> \in store.ops
    <3>1. held \in BOOLEAN
      OBVIOUS
    <3> HIDE DEF held
    <3>2. \E answer \in BOOLEAN : answer = held
      BY <3>1
    <3> QED BY <3>2 DEF held
  <2>2. Reads(c, "operator", "may", answer)
    BY <1>5, <2>1 DEF Approval
  <2>3. answer => Entitled(running[c])
    BY <2>1, Zenon DEF Entitled
  <2> QED BY <1>1, <2>2, <2>3, MayIsRead
<1>6. CASE OperatorOfNFT(c) /\ ~Move(c) /\ ~Return(c)
  BY <1>6 DEF OperatorOfNFT, Require
<1> QED BY <1>2, <1>3, <1>4, <1>5, <1>6

\* A call that starts was told nothing.
LEMMA StartAnswers ==
    ASSUME TokenInv, NEW c \in TokenCalls, Start(c) \/ Deploy(c)
    PROVE  AnswersAreTrue
<1>1. \E k : running' = [running EXCEPT ![c] = k] /\ (k = NoCall \/ k.may = FALSE)
  <2>1. CASE Start(c)
    <3>1. PICK p \in Payloads(store.token.kind) :
              running' = [running EXCEPT ![c] = [op |-> p.op, by |-> p.by, from |-> p.from, to |-> p.to,
                         amt |-> p.amt, id |-> p.id, at |-> "token", tok |-> store.token,
                         bal |-> 0, ans |-> 0, may |-> FALSE, item |-> None]]
      BY <2>1 DEF Start
    <3>2. PICK k : k = [op |-> p.op, by |-> p.by, from |-> p.from, to |-> p.to,
                        amt |-> p.amt, id |-> p.id, at |-> "token", tok |-> store.token,
                        bal |-> 0, ans |-> 0, may |-> FALSE, item |-> None]
      OBVIOUS
    <3>3. k.may = FALSE
      BY ONLY <3>2
    <3> QED BY <3>1, <3>2, <3>3
  <2>2. CASE Deploy(c)
    <3>1. PICK kind \in Kinds, by \in Holders, initial \in Quantities \cup {0}, cap \in Caps,
               mintable \in BOOLEAN, burnable \in BOOLEAN :
               LET token == [kind |-> kind, owner |-> by, supply |-> 0, max |-> cap, paused |-> FALSE,
                             mintable |-> mintable, burnable |-> burnable, version |-> 0]
               IN  /\ kind = "FT" \/ initial = 0
                   /\ kind = "SFT" => cap = 0
                   /\ store' = [store EXCEPT !.token = token]
                   /\ running' = [running EXCEPT ![c] =
                          IF initial = 0 THEN NoCall
                          ELSE [op |-> "deploy", by |-> by, from |-> Zero, to |-> by, amt |-> initial,
                                id |-> None, at |-> "initial", tok |-> token,
                                bal |-> 0, ans |-> 0, may |-> FALSE, item |-> None]]
      BY <2>2 DEF Deploy
    <3> DEFINE token == [kind |-> kind, owner |-> by, supply |-> 0, max |-> cap, paused |-> FALSE,
                         mintable |-> mintable, burnable |-> burnable, version |-> 0]
    <3>2. PICK k : k = IF initial = 0 THEN NoCall
                       ELSE [op |-> "deploy", by |-> by, from |-> Zero, to |-> by, amt |-> initial,
                             id |-> None, at |-> "initial", tok |-> token,
                             bal |-> 0, ans |-> 0, may |-> FALSE, item |-> None]
      OBVIOUS
    <3>3. k = NoCall \/ k.may = FALSE
      BY ONLY <3>2
    <3>4. running' = [running EXCEPT ![c] = k]
      BY <3>1, <3>2
    <3> QED BY <3>3, <3>4
  <2> QED BY <2>1, <2>2
<1> QED BY <1>1, OneAnswers

\* The other steps of calls.
LEMMA OthersAnswer ==
    ASSUME TokenInv, NEW c \in TokenCalls,
           \/ InitialSupply(c) \/ Mint(c) \/ MintClass(c) \/ CreditTo(c) \/ Supply(c)
           \/ SpendFrom(c) \/ Balance(c) \/ Allowance(c) \/ AllowanceSpent(c) \/ OperatorOfSFT(c)
           \/ BurnClass(c) \/ ReadTo(c) \/ ClearApproval(c) \/ Approve(c) \/ ApproveInstance(c)
           \/ SetApprovalForAll(c) \/ Pause(c) \/ CreateClass(c)
    PROVE  AnswersAreTrue
<1>1. CASE InitialSupply(c)
  <2>1. c \in Active
    BY <1>1, AtIsActive DEF InitialSupply
  <2> QED BY <1>1, <2>1, GoingOnAnswers DEF InitialSupply, Require
<1>2. CASE Mint(c)
  <2>1. c \in Active
    BY <1>2, AtIsActive DEF Mint
  <2> QED BY <1>2, <2>1, KindOfCall, GoingOnAnswers DEF Mint, Require
<1>3. CASE MintClass(c)
  <2>1. c \in Active
    BY <1>3, AtIsActive DEF MintClass
  <2> QED BY <1>3, <2>1, GoingOnAnswers DEF MintClass, Require
<1>4. CASE CreditTo(c)
  <2>1. c \in Active
    BY <1>4, AtIsActive DEF CreditTo
  <2> QED BY <1>4, <2>1, GoingOnAnswers DEF CreditTo
<1>5. CASE Supply(c)
  <2>1. c \in Active
    BY <1>5, AtIsActive DEF Supply
  <2> QED BY <1>5, <2>1, GoingOnAnswers DEF Supply
<1>6. CASE SpendFrom(c)
  <2>1. c \in Active
    BY <1>6, AtIsActive DEF SpendFrom
  <2> QED BY <1>6, <2>1, GoingOnAnswers DEF SpendFrom, Require
<1>7. CASE Authorized(c) /\ c \in Active
  BY <1>7, GoingOnAnswers DEF Authorized, Debit
<1>8. CASE Balance(c)
  <2>1. c \in Active /\ running[c].at = "balance"
    BY <1>8, AtIsActive DEF Balance
  <2>2. running[c].tok.kind \in {"FT", "SFT"}
    BY <2>1, KindOfCall, TokenFacts DEF Checked
  <2>3. PICK answer \in BOOLEAN : answer = (<<running[c].from, running[c].by>> \in store.ops)
    <3> DEFINE held == <<running[c].from, running[c].by>> \in store.ops
    <3>1. held \in BOOLEAN
      OBVIOUS
    <3> HIDE DEF held
    <3>2. \E answer \in BOOLEAN : answer = held
      BY <3>1
    <3> QED BY <3>2 DEF held
  <2>4. \/ Authorized(c) \/ Return(c) \/ \E value : Reads(c, "allowance", "ans", value)
        \/ Reads(c, "operator", "may", answer)
    BY <1>8, <2>2, <2>3 DEF Balance, Require
  <2>5. CASE Reads(c, "operator", "may", answer)
    BY <2>1, <2>2, <2>3, <2>5, MayIsRead
  <2> QED BY <1>7, <2>1, <2>4, <2>5, GoingOnAnswers
<1>9. CASE Allowance(c)
  <2>1. c \in Active
    BY <1>9, AtIsActive DEF Allowance
  <2> QED BY <1>9, <2>1, GoingOnAnswers DEF Allowance, Require
<1>10. CASE AllowanceSpent(c)
  <2>1. c \in Active
    BY <1>10, AtIsActive DEF AllowanceSpent
  <2> QED BY <1>10, <2>1, GoingOnAnswers DEF AllowanceSpent, Debit
<1>11. CASE OperatorOfSFT(c)
  <2>1. c \in Active
    BY <1>11, AtIsActive DEF OperatorOfSFT
  <2> QED BY <1>7, <1>11, <2>1, GoingOnAnswers DEF OperatorOfSFT, Require
<1>12. CASE BurnClass(c)
  <2>1. c \in Active
    BY <1>12, AtIsActive DEF BurnClass
  <2> QED BY <1>12, <2>1, GoingOnAnswers DEF BurnClass, Require, Debit
<1>13. CASE ReadTo(c)
  <2>1. c \in Active
    BY <1>13, AtIsActive DEF ReadTo
  <2> QED BY <1>13, <2>1, GoingOnAnswers DEF ReadTo
<1>14. CASE ClearApproval(c)
  <2>1. c \in Active
    BY <1>14, AtIsActive DEF ClearApproval
  <2> QED BY <1>14, <2>1, GoingOnAnswers DEF ClearApproval
<1>15. CASE Approve(c)
  <2>1. c \in Active
    BY <1>15, AtIsActive DEF Approve
  <2> QED BY <1>15, <2>1, KindOfCall, GoingOnAnswers DEF Approve
<1>16. CASE ApproveInstance(c)
  <2>1. c \in Active
    BY <1>16, AtIsActive DEF ApproveInstance
  <2> QED BY <1>16, <2>1, GoingOnAnswers DEF ApproveInstance, Require
<1>17. CASE SetApprovalForAll(c) \/ Pause(c) \/ CreateClass(c)
  <2>1. c \in Active /\ Return(c)
    BY <1>17, AtIsActive DEF SetApprovalForAll, Pause, CreateClass, Require
  <2> QED BY <2>1, GoingOnAnswers
<1> QED BY <1>1, <1>2, <1>3, <1>4, <1>5, <1>6, <1>8, <1>9, <1>10, <1>11, <1>12, <1>13, <1>14,
           <1>15, <1>16, <1>17

LEMMA StepAnswers == TokenInv /\ [TokensNext]_tokensVars => AnswersAreTrue
<1> SUFFICES ASSUME TokenInv, [TokensNext]_tokensVars PROVE AnswersAreTrue
  OBVIOUS
<1>1. ASSUME NEW c \in TokenCalls, Start(c) \/ Deploy(c)
      PROVE  AnswersAreTrue
  BY <1>1, StartAnswers
<1>2. ASSUME NEW c \in TokenCalls, Step(c) \/ Supply(c)
      PROVE  AnswersAreTrue
  BY <1>2, InstanceAnswers, OthersAnswer DEF Step
<1>3. CASE Expire \/ UNCHANGED tokensVars
  BY <1>3 DEF Expire, tokensVars, AnswersAreTrue, NewAnswer
<1> QED BY <1>1, <1>2, <1>3 DEF TokensNext

(* An instance changes hands only by a call that read it with the owner it has, and   *)
(* that is its owner's or was told of an approval or an operator the store held when   *)
(* it asked: of calls that overlap, one moves it and the others find their version     *)
(* stale.                                                                              *)
THEOREM InstancesMoveFromTheirOwner == TokensSpec => MovesFromItsOwner
<1>1. TokenInv /\ [TokensNext]_tokensVars => [OwnerWasFound /\ AnswersAreTrue]_tokensVars
  BY StepKeepsOwners, StepAnswers
<1>2. [OwnerWasFound /\ AnswersAreTrue]_tokensVars =>
          [/\ \A i \in Instances :
                 store.inst[i] # None /\ store'.inst[i].owner # store.inst[i].owner =>
                     \E c \in TokenCalls :
                         LET k == running[c]
                         IN  /\ k # NoCall /\ running'[c] # k /\ k.id = i /\ k.item.owner = store.inst[i].owner
                             /\ k.by = k.item.owner \/ k.may
           /\ \A c \in TokenCalls :
                 LET k == running'[c]
                 IN  k # NoCall /\ k.may /\ k.tok.kind = "NFT" /\ (running[c] = NoCall \/ ~running[c].may)
                         => Entitled(k)]_tokensVars
  BY DEF OwnerWasFound, AnswersAreTrue, NewAnswer
<1> QED BY <1>1, <1>2, TokenInit, TokenNext, PTL DEF TokensSpec, MovesFromItsOwner

===============================================================================
