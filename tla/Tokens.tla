------------------------------- MODULE Tokens -------------------------------
(***************************************************************************)
(* The token handlers (tokens/handlers.ts) over the in-memory store        *)
(* (tokens/store.ts), for one token of any type with one class (SFT) and a *)
(* few instances (NFT).  Every await on the store ends a step: a call      *)
(* checks what its last read returned and makes its next store call, and   *)
(* other calls run between its steps.  The store replaces balances,        *)
(* allowances and approvals; only the token, its class and its instances   *)
(* carry a version that an update must match.                              *)
(***************************************************************************)
EXTENDS Integers, FiniteSets, Functions

CONSTANTS
    Holders,      \* callers and holders
    Zero,         \* the zero address, which owns what was burnt
    Instances,    \* the ids of NFT instances
    Quantities,   \* amounts a payload may name
    Caps,         \* maxSupply of tokens and classes; 0 is no maximum
    TokenCalls,   \* slots for the calls in flight
    MaxCalls,     \* for each type, how many calls are made in all
    None, NoCall

ASSUME TokensAssumption ==
    /\ IsFiniteSet(Holders) /\ Zero \notin Holders /\ None \notin Instances
    /\ Quantities \subseteq Nat /\ Caps \subseteq Nat

VARIABLES
    store,        \* InMemoryTokenStore, one field per map
    running,      \* the calls in flight: payload, position, what was read
    started,      \* number of calls made
    overlapped,   \* whether two calls ever were in flight together
    minted        \* what the deployments, mints and burns that succeeded add up to

tokensVars == <<store, running, started, overlapped, minted>>

Kinds == {"FT", "NFT", "SFT"}

(* The records of the store, and those of the calls under way: the payload,  *)
(* the place the call has come to, and what it has read.                   *)
Token == [kind : Kinds, owner : Holders, supply : Int, max : Nat, paused : BOOLEAN,
          mintable : BOOLEAN, burnable : BOOLEAN, version : Nat]
Class == [supply : Int, max : Nat, version : Nat]
Item == [owner : Holders \cup {Zero}, version : Nat]
Names == Holders \cup {Zero}
Places == {"token", "initial", "supply", "class", "credit", "balance", "allowance", "debit",
           "operator", "to", "instance", "approval", "clear"}
Ops == {"deploy", "mint", "burn", "transferFrom", "approve", "approveAll", "revokeAll",
        "pause", "unpause", "createClass"}
Call == [op : Ops, by : Holders, from : Names, to : Names, amt : Nat, id : Instances \cup {None},
         at : Places, tok : Token, bal : Int, ans : Int, may : BOOLEAN,
         item : Class \cup Item \cup {None}]

ASSUME NoneIsNoRecord == None \notin Token \cup Class \cup Item /\ NoCall \notin Call

Fungible(k) == k.tok.kind \in {"FT", "SFT"}

-----------------------------------------------------------------------------
(* The versioned updates of the store: a stale one throws and changes      *)
(* nothing.                                                                *)

UpdateTokenBug(v, field, value) ==
    store' = [store EXCEPT !.token = [@ EXCEPT ![field] = value, !.version = @ + 1]]

UpdateToken(v, field, value) ==
    IF store.token.version = v
    THEN store' = [store EXCEPT !.token = [@ EXCEPT ![field] = value, !.version = v + 1]]
    ELSE UNCHANGED store

UpdateSFTClass(v, supply) ==
    IF store.cls.version = v
    THEN store' = [store EXCEPT !.cls = [@ EXCEPT !.supply = supply, !.version = v + 1]]
    ELSE UNCHANGED store

SetBalance(h, n) == store' = [store EXCEPT !.bal[h] = n]

-----------------------------------------------------------------------------
(* How a call goes on: to its next position, or back to its caller.        *)

At(c, op, at) == running[c] # NoCall /\ running[c].op \in op /\ running[c].at = at
Goto(c, at) == running' = [running EXCEPT ![c].at = at]
Reads(c, at, field, value) ==
    /\ running' = [running EXCEPT ![c] = [@ EXCEPT !.at = at, ![field] = value]]
    /\ UNCHANGED store
Return(c) == running' = [running EXCEPT ![c] = NoCall]
Require(c, ok, step) == IF ok THEN step ELSE Return(c) /\ UNCHANGED store

(* Payloads that make sense for a token of the type: amounts for the       *)
(* fungible ones, an instance for an NFT.                                  *)
Payloads(kind) ==
    LET amt == IF kind = "NFT" THEN {0} ELSE Quantities
        ids == IF kind = "NFT" THEN Instances ELSE {None}
        from == IF kind = "NFT" THEN Holders \cup {Zero} ELSE Holders
        P(op, f, t, a, i) ==
            [op : op, by : Holders, from : f, to : t, amt : a, id : i]
    IN  P({"mint"}, {Zero}, Holders, amt, ids)
            \cup P({"burn"}, IF kind = "NFT" THEN {Zero} ELSE Holders, {Zero}, amt, ids)
            \cup P({"transferFrom"}, from, Holders, amt, ids)
            \cup P({"approve"}, {Zero}, Holders, amt, ids)
            \cup P({"approveAll", "revokeAll"}, {Zero}, Holders, {0}, {None})
            \cup P({"pause", "unpause"}, {Zero}, {Zero}, {0}, {None})
            \cup P({"createClass"}, {Zero}, {Zero}, Caps, {None})

TokensInit ==
    /\ store = [token |-> None, cls |-> None,
                bal |-> [h \in Holders |-> 0],
                allow |-> [o \in Holders |-> [s \in Holders |-> 0]],
                ops |-> {},
                inst |-> [i \in Instances |-> None],
                appr |-> [i \in Instances |-> None]]
    /\ running = [c \in TokenCalls |-> NoCall]
    /\ started = 0 /\ overlapped = FALSE /\ minted = 0

Starts(c) ==
    /\ running[c] = NoCall /\ \A kind \in {t.kind : t \in {store.token} \ {None}} : started < MaxCalls[kind]
    /\ started' = started + 1
    /\ overlapped' = (overlapped \/ \E d \in TokenCalls : running[d] # NoCall)

(* The first segment of every handler but the deployment reads the token.  *)
Start(c) ==
    /\ Starts(c) /\ store.token # None
    /\ \E p \in Payloads(store.token.kind) :
           running' = [running EXCEPT ![c] = [op |-> p.op, by |-> p.by, from |-> p.from, to |-> p.to,
                      amt |-> p.amt, id |-> p.id, at |-> "token", tok |-> store.token,
                      bal |-> 0, ans |-> 0, may |-> FALSE, item |-> None]]
    /\ UNCHANGED store

(* handleDeploy creates the token first, then mints the initial supply.    *)
Deploy(c) ==
    /\ Starts(c) /\ store.token = None
    /\ \E kind \in Kinds, by \in Holders, initial \in Quantities \cup {0}, cap \in Caps,
          mintable, burnable \in BOOLEAN :
           LET token == [kind |-> kind, owner |-> by, supply |-> 0, max |-> cap, paused |-> FALSE,
                         mintable |-> mintable, burnable |-> burnable, version |-> 0]
           IN  /\ kind = "FT" \/ initial = 0
               /\ kind = "SFT" => cap = 0
               /\ store' = [store EXCEPT !.token = token]
               /\ running' = [running EXCEPT ![c] =
                      IF initial = 0 THEN NoCall
                      ELSE [op |-> "deploy", by |-> by, from |-> Zero, to |-> by, amt |-> initial,
                            id |-> None, at |-> "initial", tok |-> token,
                            bal |-> 0, ans |-> 0, may |-> FALSE, item |-> None]]

InitialSupply(c) ==
    LET k == running[c]
    IN  /\ At(c, {"deploy"}, "initial")
        /\ Require(c, k.tok.max = 0 \/ k.amt <= k.tok.max,
                   SetBalance(k.by, k.amt) /\ Goto(c, "supply"))

-----------------------------------------------------------------------------
(* handleMint.                                                             *)

Room(max, supply, n) == max = 0 \/ supply + n <= max

Mint(c) ==
    LET k == running[c]
    IN  /\ At(c, {"mint"}, "token")
        /\ Require(c, ~k.tok.paused /\ k.tok.mintable /\ k.by = k.tok.owner,
             CASE k.tok.kind = "FT" ->
                      Require(c, Room(k.tok.max, k.tok.supply, k.amt),
                              Reads(c, "credit", "bal", store.bal[k.to]))
               [] k.tok.kind = "NFT" ->
                      Require(c, Room(k.tok.max, k.tok.supply, 1) /\ store.inst[k.id] = None,
                              /\ store' = [store EXCEPT !.inst[k.id] = [owner |-> k.to, version |-> 0]]
                              /\ Goto(c, "supply"))
               [] k.tok.kind = "SFT" -> Reads(c, "class", "item", store.cls))

MintClass(c) ==
    LET k == running[c]
    IN  /\ At(c, {"mint"}, "class")
        /\ Require(c, k.item # None /\ Room(k.item.max, k.item.supply, k.amt),
                   Reads(c, "credit", "bal", store.bal[k.to]))

(* setFTBalance or setSFTBalance of the receiver: what was read plus the   *)
(* amount, whatever has been written since.                                *)
CreditTo(c) ==
    LET k == running[c]
    IN  /\ At(c, {"mint", "transferFrom"}, "credit")
        /\ SetBalance(k.to, k.bal + k.amt)
        /\ IF k.op = "mint" THEN Goto(c, "supply") ELSE Return(c)

(* The last step of a deployment, mint or burn: the new total supply, by   *)
(* the version read at the start.                                          *)
Supply(c) ==
    LET k == running[c]
        n == IF Fungible(k) THEN k.amt ELSE 1
        d == IF k.op = "burn" THEN -n ELSE n
    IN  /\ At(c, {"deploy", "mint", "burn"}, "supply")
        /\ IF k.tok.kind = "SFT" THEN UpdateSFTClass(k.item.version, k.item.supply + d)
           ELSE UpdateToken(k.tok.version, "supply", k.tok.supply + d)
        /\ minted' = IF store' = store THEN minted ELSE minted + d
        /\ Return(c)

-----------------------------------------------------------------------------
(* handleBurn and handleTransferFrom; handleTransfer is a transfer from    *)
(* the caller.  A pause stops transfers and not burns.                     *)

SpendFrom(c) ==
    LET k == running[c]
    IN  /\ At(c, {"burn", "transferFrom"}, "token")
        /\ Require(c, IF k.op = "burn" THEN k.tok.burnable ELSE ~k.tok.paused,
                   IF Fungible(k) THEN Reads(c, "balance", "bal", store.bal[k.from])
                   ELSE Reads(c, "instance", "item", store.inst[k.id]))

(* Debits the balance that was read; what comes next depends on the call.  *)
Debit(c) ==
    LET k == running[c]
    IN  /\ SetBalance(k.from, k.bal - k.amt)
        /\ Goto(c, IF k.op = "burn" THEN "supply" ELSE "to")

(* An SFT burn reads its class before it debits.                           *)
Authorized(c) ==
    IF running[c].tok.kind = "SFT" /\ running[c].op = "burn"
    THEN Reads(c, "class", "item", store.cls)
    ELSE Debit(c)

Balance(c) ==
    LET k == running[c]
    IN  /\ At(c, {"burn", "transferFrom"}, "balance")
        /\ Require(c, k.bal >= k.amt,
             CASE k.from = k.by -> Authorized(c)
               [] k.from # k.by /\ k.tok.kind = "FT" ->
                      Reads(c, "allowance", "ans", store.allow[k.from][k.by])
               [] k.from # k.by /\ k.tok.kind = "SFT" ->
                      Reads(c, "operator", "may", <<k.from, k.by>> \in store.ops))

Allowance(c) ==
    LET k == running[c]
    IN  /\ At(c, {"burn", "transferFrom"}, "allowance")
        /\ Require(c, k.ans >= k.amt,
             /\ store' = [store EXCEPT !.allow[k.from][k.by] = k.ans - k.amt]
             /\ Goto(c, "debit"))

AllowanceSpent(c) == At(c, {"burn", "transferFrom"}, "debit") /\ Debit(c)

OperatorOfSFT(c) ==
    /\ At(c, {"burn", "transferFrom"}, "operator") /\ running[c].tok.kind = "SFT"
    /\ Require(c, running[c].may, Authorized(c))

BurnClass(c) ==
    /\ At(c, {"burn"}, "class")
    /\ Require(c, running[c].item # None, Debit(c))

(* The receiver's balance is read only now, so that a transfer to oneself  *)
(* adds to the debited balance.                                            *)
ReadTo(c) ==
    /\ At(c, {"transferFrom"}, "to")
    /\ Reads(c, "credit", "bal", store.bal[running[c].to])

-----------------------------------------------------------------------------
(* Instances: the move is by the version that was read; afterwards a       *)
(* transfer clears the approval, a burn leaves it.                         *)

MoveBug(c) ==
    LET k == running[c]
    IN  /\ store' = [store EXCEPT !.inst[k.id] =
                         [owner |-> IF k.op = "burn" THEN Zero ELSE k.to,
                          version |-> @.version + 1]]
        /\ Goto(c, IF k.op = "burn" THEN "supply" ELSE "clear")

Move(c) ==
    LET k == running[c]
    IN  IF store.inst[k.id].version = k.item.version
        THEN /\ store' = [store EXCEPT !.inst[k.id] =
                             [owner |-> IF k.op = "burn" THEN Zero ELSE k.to,
                              version |-> @.version + 1]]
             /\ Goto(c, IF k.op = "burn" THEN "supply" ELSE "clear")
        ELSE Return(c) /\ UNCHANGED store

Instance(c) ==
    LET k == running[c]
    IN  /\ At(c, {"burn", "transferFrom"}, "instance")
        /\ Require(c, k.item # None /\ (k.op = "burn" \/ k.item.owner = k.from),
             IF k.item.owner = k.by THEN Move(c)
             ELSE Reads(c, "approval", "may",
                        LET a == store.appr[k.id]
                        IN  a # None /\ a.approved = k.by /\ a.until # "past"))

ApprovalBug(c) ==    \* goes on whatever checkNFTAuthorization finds
    At(c, {"burn", "transferFrom"}, "approval") /\ Move(c)

(* checkNFTAuthorization: the approval of the instance, or an operator of  *)
(* the owner that was read.                                                *)
Approval(c) ==
    LET k == running[c]
    IN  /\ At(c, {"burn", "transferFrom"}, "approval")
        /\ IF k.may THEN Move(c)
           ELSE Reads(c, "operator", "may", <<k.item.owner, k.by>> \in store.ops)

OperatorOfNFT(c) ==
    /\ At(c, {"burn", "transferFrom"}, "operator") /\ running[c].tok.kind = "NFT"
    /\ Require(c, running[c].may, Move(c))

ClearApproval(c) ==
    /\ At(c, {"transferFrom"}, "clear")
    /\ store' = [store EXCEPT !.appr[running[c].id] = None]
    /\ Return(c)

-----------------------------------------------------------------------------
(* handleApprove, handleSetApprovalForAll, handlePause, handleUnpause and  *)
(* handleCreateClass.                                                      *)

Approve(c) ==
    LET k == running[c]
    IN  /\ At(c, {"approve"}, "token")
        /\ CASE k.tok.kind = "FT" ->
                    store' = [store EXCEPT !.allow[k.by][k.to] = k.amt] /\ Return(c)
             [] k.tok.kind = "NFT" -> Reads(c, "instance", "item", store.inst[k.id])
             [] k.tok.kind = "SFT" -> Return(c) /\ UNCHANGED store

ApproveInstance(c) ==
    LET k == running[c]
    IN  /\ At(c, {"approve"}, "instance")
        /\ Require(c, k.item # None /\ k.item.owner = k.by,
             /\ \E until \in {"always", "later"} :
                    store' = [store EXCEPT !.appr[k.id] = [owner |-> k.by, approved |-> k.to, until |-> until]]
             /\ Return(c))

SetApprovalForAll(c) ==
    LET k == running[c]
    IN  /\ At(c, {"approveAll", "revokeAll"}, "token")
        /\ Require(c, k.tok.kind # "FT",
             /\ store' = [store EXCEPT !.ops = IF k.op = "approveAll" THEN @ \cup {<<k.by, k.to>>}
                                               ELSE @ \ {<<k.by, k.to>>}]
             /\ Return(c))

Pause(c) ==
    LET k == running[c]
    IN  /\ At(c, {"pause", "unpause"}, "token")
        /\ IF k.by = k.tok.owner THEN UpdateToken(k.tok.version, "paused", k.op = "pause") ELSE UNCHANGED store
        /\ Return(c)

CreateClass(c) ==
    LET k == running[c]
    IN  /\ At(c, {"createClass"}, "token")
        /\ Require(c, k.tok.kind = "SFT" /\ k.by = k.tok.owner /\ store.cls = None,
             /\ store' = [store EXCEPT !.cls = [supply |-> 0, max |-> k.amt, version |-> 0]]
             /\ Return(c))

(* Time passes for the approvals that end.                                 *)
Expire ==
    \E i \in Instances :
        /\ store.appr[i] # None /\ store.appr[i].until = "later"
        /\ store' = [store EXCEPT !.appr[i].until = "past"]
        /\ UNCHANGED running

Step(c) ==
    \/ InitialSupply(c) \/ Mint(c) \/ MintClass(c) \/ CreditTo(c)
    \/ SpendFrom(c) \/ Balance(c) \/ Allowance(c) \/ AllowanceSpent(c) \/ OperatorOfSFT(c)
    \/ BurnClass(c) \/ ReadTo(c)
    \/ Instance(c) \/ Approval(c) \/ OperatorOfNFT(c) \/ ClearApproval(c)
    \/ Approve(c) \/ ApproveInstance(c) \/ SetApprovalForAll(c) \/ Pause(c) \/ CreateClass(c)

TokensNext ==
    \/ \E c \in TokenCalls : (Start(c) \/ Deploy(c)) /\ UNCHANGED minted
    \/ \E c \in TokenCalls : Step(c) /\ UNCHANGED <<started, overlapped, minted>>
    \/ \E c \in TokenCalls : Supply(c) /\ UNCHANGED <<started, overlapped>>
    \/ Expire /\ UNCHANGED <<started, overlapped, minted>>

TokensSpec == TokensInit /\ [][TokensNext]_tokensVars

-----------------------------------------------------------------------------
Quiet == \A c \in TokenCalls : running[c] = NoCall
Held == SumFunctionOnSet(store.bal, Holders)
Issued == CASE store.token = None -> 0
            [] store.token # None /\ store.token.kind = "SFT" -> IF store.cls = None THEN 0 ELSE store.cls.supply
            [] store.token # None /\ store.token.kind # "SFT" -> store.token.supply

(* The total supply is what the mints and burns that returned success add  *)
(* up to, and within the maximum: each computes it from a supply read      *)
(* several awaits earlier, and of two that overlap one has to fail.        *)
SupplyCountsSuccess ==
    /\ Issued = minted
    /\ store.token # None /\ store.token.max > 0 => store.token.supply <= store.token.max
    /\ store.cls # None /\ store.cls.max > 0 => store.cls.supply <= store.cls.max

(* While calls are made one at a time, what the holders of a fungible      *)
(* token have is its total supply, after every call, failed ones included. *)
HoldersHaveTheSupply ==
    Quiet /\ ~overlapped /\ store.token # None /\ store.token.kind # "NFT" => Held = Issued

(* "No free mint, no supply break" (README.md:898), as far as it holds.    *)
SupplyAddsUp == SupplyCountsSuccess /\ HoldersHaveTheSupply

(* What the store holds for the caller of k: an approval of the instance   *)
(* that has not ended, or the place of an operator of the owner k found.   *)
Entitled(k) ==
    LET a == store.appr[k.id]
    IN  \/ a # None /\ a.approved = k.by /\ a.until # "past"
        \/ <<k.item.owner, k.by>> \in store.ops

(* An instance changes hands only from the owner the moving call found, by *)
(* that owner or by a caller with an answer that allows it; and a call     *)
(* gets such an answer only at a step at which the store held an approval  *)
(* of the instance or an operator for its caller.  Of calls that overlap   *)
(* one moves the instance and the others find their version stale.  The    *)
(* approval or the operator may be gone when the instance moves, and the   *)
(* approval may be one that an earlier owner gave (handleTransferFrom,     *)
(* handleBurn, checkNFTAuthorization).                                     *)
MovesFromItsOwner ==
    [][/\ \A i \in Instances :
             store.inst[i] # None /\ store'.inst[i].owner # store.inst[i].owner =>
                 \E c \in TokenCalls :
                     LET k == running[c]
                     IN  /\ k # NoCall /\ running'[c] # k /\ k.id = i /\ k.item.owner = store.inst[i].owner
                         /\ k.by = k.item.owner \/ k.may
       /\ \A c \in TokenCalls :
             LET k == running'[c]
             IN  k # NoCall /\ k.may /\ k.tok.kind = "NFT" /\ (running[c] = NoCall \/ ~running[c].may)
                     => Entitled(k)]_tokensVars

=============================================================================
