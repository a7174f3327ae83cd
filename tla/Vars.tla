-------------------------------- MODULE Vars --------------------------------
(***************************************************************************)
(* The variable store, src/src/vars/store.ts: versioned variables in       *)
(* namespaces with access lists, as the service (vars/service.ts) calls    *)
(* it.  A call checks a permission, awaits the answer and then reads and   *)
(* writes at once; other calls run at each await.  An access list is an    *)
(* object: a grant or revoke changes the one it found before its await, an *)
(* update puts a changed copy of it in its place.                          *)
(*                                                                         *)
(* Keys are valid, values and metadata are data, and reads, which change   *)
(* nothing, are left out with the permission to read.  What the            *)
(* organisation store grants does not change while a call is under way.    *)
(***************************************************************************)
EXTENDS Integers, Sequences, SequencesExt

CONSTANTS
    Addresses, Namespaces, Keys,
    Type,          \* namespace -> "account", "global", "org" or "app"
    Holder,        \* namespace -> the address of the account or the owner of the organisation
    OrgGrants,     \* namespace -> address -> permissions of the organisation store
    Operations,    \* sequences of [var, expected] that a set or batch may carry
    Creations,     \* [ns, owner, defaults] a namespace may be created with
    Grants,        \* [perms, expires] a grant may carry; expires 0 is never
    Updates,       \* partial access lists an update may carry
    Slots,         \* places for the calls under way
    MaxCalls,      \* bound: calls made in all
    MaxTime,       \* bound: the clock
    None, Idle

Permissions == {"write", "delete", "admin"}
Variables == Namespaces \X Keys

ASSUME BoundsAssumption == MaxCalls \in Nat /\ MaxTime \in Nat \ {0}
ASSUME TypesAssumption ==
    /\ Type \in [Namespaces -> {"account", "global", "org", "app"}]
    /\ Operations \subseteq Seq([var : Variables, expected : Nat \cup {None}]) \ {<<>>}
    /\ \A n \in Creations : n.ns \in Namespaces /\ n.owner \in Addresses
    /\ \A u \in Updates :
          /\ "owner" \in DOMAIN u => u.owner \in Addresses
          /\ "grants" \in DOMAIN u => u.grants \in [Addresses -> Grants \cup {None}]
    /\ None \notin [version : Nat, updatedBy : Addresses]

VARIABLES
    namespaces,    \* namespace -> which of acls it has, 0 when it was not created
    acls,          \* every NamespaceACL object that was made
    variables,     \* variable -> [version, updatedBy] or None
    now,           \* Date.now()
    call,          \* the calls under way
    started,       \* number of calls made
    acked,         \* variable -> the versions its writers were told since it was created
    granted,       \* namespace -> what the changes of its grants that returned amount to
    raced          \* namespaces whose list was updated while another call changed it

varstore == <<namespaces, acls, variables, now, call, started, acked, granted, raced>>

VarsInit ==
    /\ namespaces = [ns \in Namespaces |-> 0]
    /\ acls = <<>>
    /\ variables = [v \in Variables |-> None]
    /\ now = 1
    /\ call = [c \in Slots |-> Idle]
    /\ started = 0
    /\ acked = [v \in Variables |-> <<>>]
    /\ granted = [ns \in Namespaces |-> [a \in Addresses |-> None]]
    /\ raced = {}

-----------------------------------------------------------------------------
(* checkPermission.  The default permissions of a namespace the service    *)
(* made may be undefined: for a caller who is neither the owner nor        *)
(* granted the permission the check then throws, before it gets to the     *)
(* organisation.                                                           *)

checkGrant(acl, a, perm) ==
    LET g == acl.grants[a]
    IN  /\ g # None
        /\ g.expires = 0 \/ g.expires > now
        /\ perm \in g.perms

ListAllows(ns, acl, a, perm) ==
    \/ acl.owner = a
    \/ checkGrant(acl, a, perm)
    \/ /\ Type[ns] # "global"
       /\ acl.defaultPermissions # None
       /\ \/ perm \in acl.defaultPermissions
          \/ Type[ns] = "org" /\ perm \in OrgGrants[ns][a]

Permits(ns, a, perm) ==
    \/ Type[ns] = "account" /\ Holder[ns] = a
    \/ Type[ns] = "org" /\ namespaces[ns] = 0 /\ Holder[ns] = a
    \/ /\ Type[ns] # "account" /\ namespaces[ns] # 0
       /\ ListAllows(ns, acls[namespaces[ns]], a, perm)

HasNoDefaults(ns) ==
    /\ Type[ns] \in {"org", "app"} /\ namespaces[ns] # 0
    /\ acls[namespaces[ns]].defaultPermissions = None

Verdicts == {"granted", "denied", "throws"}
checkPermission(ns, a, perm) ==
    CASE Permits(ns, a, perm)                        -> "granted"
      [] ~Permits(ns, a, perm) /\ HasNoDefaults(ns)  -> "throws"
      [] ~Permits(ns, a, perm) /\ ~HasNoDefaults(ns) -> "denied"

\* `alone`: nothing else happened to the store since the call began.
Disturbed(f) == IF f = Idle THEN Idle ELSE [f EXCEPT !.alone = FALSE]

\* Anybody may create any namespace, that of another's organisation included.
createNamespace(ns, owner, defaults) ==
    /\ namespaces[ns] = 0
    /\ acls' = Append(acls, [owner |-> owner, defaultPermissions |-> defaults,
                             grants |-> [a \in Addresses |-> None]])
    /\ namespaces' = [namespaces EXCEPT ![ns] = Len(acls')]
    /\ call' = [c \in Slots |-> Disturbed(call[c])]
    /\ UNCHANGED <<variables, now, started, acked, granted, raced>>

-----------------------------------------------------------------------------
(* A call up to its first await: it has asked for its permission.          *)

NobodyElse == \A c \in Slots : call[c] = Idle
Begin(c, frame) ==
    /\ call[c] = Idle
    /\ started < MaxCalls
    /\ started' = started + 1
    /\ call' = [d \in Slots |-> IF d = c THEN frame ELSE Disturbed(call[d])]
    /\ UNCHANGED <<namespaces, acls, variables, now, acked, granted>>

MayWrite(a, op) == checkPermission(op.var[1], a, "write")

Write(c, a, ops, atomic) ==
    /\ Begin(c, [at |-> IF atomic THEN "validate" ELSE "set", caller |-> a, ops |-> ops,
                 atomic |-> atomic, i |-> 1, may |-> MayWrite(a, ops[1]),
                 validations |-> <<>>, results |-> <<>>, alone |-> NobodyElse])
    /\ UNCHANGED raced

Delete(c, a, op) ==
    /\ Begin(c, [at |-> "delete", op |-> op, may |-> checkPermission(op.var[1], a, "delete"),
                 alone |-> NobodyElse])
    /\ UNCHANGED raced

\* The list is looked up before the await.
ChangeList(c, a, ns, change) ==
    /\ namespaces[ns] # 0
    /\ Begin(c, [at |-> "list", ns |-> ns, list |-> namespaces[ns], change |-> change,
                 may |-> checkPermission(ns, a, "admin"), alone |-> NobodyElse])
    /\ raced' = raced \cup
           {n \in {ns} : \E d \in Slots : /\ call[d] # Idle /\ call[d].at = "list"
                                          /\ call[d].ns = n
                                          /\ "update" \in {change.op, call[d].change.op}}

-----------------------------------------------------------------------------
(* The calls after an await.                                               *)

Goto(c, frame) == call' = [call EXCEPT ![c] = frame]

\* (bug) without an expected version a variable is written as if it were new
NextVersionBug(op) == IF op.expected = None THEN 0 ELSE variables[op.var].version + 1
NextVersion(op) == IF variables[op.var] = None THEN 0 ELSE variables[op.var].version + 1

VersionMatches(op) ==
    \/ op.expected = None
    \/ variables[op.var] # None /\ variables[op.var].version = op.expected

\* set, for the operation the call has come to.  A batch awaits its result
\* before it goes on; an atomic one no longer looks at it.  What the check
\* throws the batch throws, and what it wrote before stays.
Set(c) ==
    /\ call[c] # Idle /\ call[c].at = "set"
    /\ LET f == call[c]
           op == f.ops[f.i]
           ok == f.may = "granted" /\ VersionMatches(op)
       IN  /\ Goto(c, IF f.may = "throws" THEN [f EXCEPT !.at = "thrown"]
                      ELSE [f EXCEPT !.results = Append(@, ok), !.at = "results"])
           /\ IF ok
              THEN /\ variables' = [variables EXCEPT ![op.var] =
                                       [version |-> NextVersion(op), updatedBy |-> f.caller]]
                   /\ acked' = [acked EXCEPT ![op.var] = Append(@, NextVersion(op))]
              ELSE UNCHANGED <<variables, acked>>
    /\ UNCHANGED <<namespaces, acls, now, started, granted, raced>>

NextOperation(c) ==
    /\ call[c] # Idle /\ call[c].at = "results" /\ call[c].i < Len(call[c].ops)
    /\ LET f == call[c]
       IN  Goto(c, [f EXCEPT !.i = @ + 1, !.at = "set",
                             !.may = MayWrite(f.caller, f.ops[f.i + 1])])
    /\ UNCHANGED <<namespaces, acls, variables, now, started, acked, granted, raced>>

\* (bug) the verdict is that of the last operation
ValidatedBug(f, ok) ==
    IF f.i < Len(f.ops)
    THEN [f EXCEPT !.i = @ + 1, !.may = MayWrite(f.caller, f.ops[f.i + 1])]
    ELSE IF ~ ok THEN [f EXCEPT !.at = "refused"]
    ELSE [f EXCEPT !.at = "set", !.i = 1, !.may = MayWrite(f.caller, f.ops[1])]
\* What follows the validation of an operation of an atomic batch: the next
\* one, or the verdict; the execution begins with the first operation.
Validated(f, ok) ==
    LET valid == Append(f.validations, ok)
    IN  IF f.i < Len(f.ops)
        THEN [f EXCEPT !.i = @ + 1, !.may = MayWrite(f.caller, f.ops[f.i + 1]),
                       !.validations = valid]
        ELSE IF FALSE \in ToSet(valid) THEN [f EXCEPT !.at = "refused"]
        ELSE [f EXCEPT !.at = "set", !.i = 1, !.may = MayWrite(f.caller, f.ops[1]),
                       !.validations = <<>>]

Validate(c) ==
    /\ call[c] # Idle /\ call[c].at = "validate"
    /\ LET f == call[c]
       IN  Goto(c, IF f.may = "throws" THEN [f EXCEPT !.at = "thrown"]
                   ELSE Validated(f, f.may = "granted" /\ VersionMatches(f.ops[f.i])))
    /\ UNCHANGED <<namespaces, acls, variables, now, started, acked, granted, raced>>

Return(c) ==
    /\ call[c] # Idle
    /\ \/ call[c].at \in {"refused", "thrown"}
       \/ call[c].at = "results" /\ call[c].i = Len(call[c].ops)
    /\ Goto(c, Idle)
    /\ UNCHANGED <<namespaces, acls, variables, now, started, acked, granted, raced>>

DeleteVar(c) ==
    /\ call[c] # Idle /\ call[c].at = "delete"
    /\ LET f == call[c]
           v == f.op.var
       IN  IF f.may = "granted" /\ variables[v] # None /\ VersionMatches(f.op)
           THEN /\ variables' = [variables EXCEPT ![v] = None]
                /\ acked' = [acked EXCEPT ![v] = <<>>]
           ELSE UNCHANGED <<variables, acked>>
    /\ Goto(c, Idle)
    /\ UNCHANGED <<namespaces, acls, now, started, granted, raced>>

\* (bug) the changed grants go into a copy, as an update does it
WithGrantBug(f) ==
    /\ acls' = Append(acls, [acls[f.list] EXCEPT !.grants[f.change.grantee] = f.change.grant])
    /\ namespaces' = [namespaces EXCEPT ![f.ns] = Len(acls')]
\* grantPermission and revokePermission change the list they hold.
WithGrant(f) ==
    /\ acls' = [acls EXCEPT ![f.list].grants[f.change.grantee] = f.change.grant]
    /\ UNCHANGED namespaces

\* updateNamespaceACL makes another from the one it holds.
Overlaid(acl, updates) ==
    [x \in DOMAIN acl \cup DOMAIN updates |-> IF x \in DOMAIN updates THEN updates[x] ELSE acl[x]]
WithUpdate(f) ==
    /\ acls' = Append(acls, Overlaid(acls[f.list], f.change.updates))
    /\ namespaces' = [namespaces EXCEPT ![f.ns] = Len(acls')]

ListChanged(c) ==
    /\ call[c] # Idle /\ call[c].at = "list"
    /\ LET f == call[c]
       IN  \/ /\ f.may # "granted"
              /\ UNCHANGED <<namespaces, acls, granted>>
           \/ /\ f.may = "granted" /\ f.change.op = "grant"
              /\ WithGrant(f)
              /\ granted' = [granted EXCEPT ![f.ns][f.change.grantee] = f.change.grant]
           \/ /\ f.may = "granted" /\ f.change.op = "update"
              /\ WithUpdate(f)
              /\ granted' = IF "grants" \in DOMAIN f.change.updates
                            THEN [granted EXCEPT ![f.ns] = f.change.updates.grants] ELSE granted
    /\ Goto(c, Idle)
    /\ UNCHANGED <<variables, now, started, acked, raced>>

TimePasses ==
    /\ now < MaxTime
    /\ now' = now + 1
    /\ call' = [c \in Slots |-> Disturbed(call[c])]
    /\ UNCHANGED <<namespaces, acls, variables, started, acked, granted, raced>>

Changes ==
    [op : {"grant"}, grantee : Addresses, grant : Grants \cup {None}]
    \cup [op : {"update"}, updates : Updates]

Resume(c) ==
    \/ Set(c) \/ NextOperation(c) \/ Validate(c) \/ Return(c)
    \/ DeleteVar(c) \/ ListChanged(c)

VarsNext ==
    \/ \E n \in Creations : createNamespace(n.ns, n.owner, n.defaults)
    \/ \E c \in Slots, a \in Addresses :
           \/ \E ops \in Operations, atomic \in BOOLEAN : Write(c, a, ops, atomic)
           \/ \E ops \in Operations : Len(ops) = 1 /\ Delete(c, a, ops[1])
           \/ \E ns \in Namespaces, change \in Changes : ChangeList(c, a, ns, change)
    \/ \E c \in Slots : Resume(c)
    \/ TimePasses

VarsSpec == VarsInit /\ [][VarsNext]_varstore
-----------------------------------------------------------------------------
(* Properties.                                                             *)

VarsTypeOK ==
    /\ namespaces \in [Namespaces -> 0..Len(acls)]
    /\ \A i \in DOMAIN acls :
          /\ acls[i].owner \in Addresses
          /\ acls[i].grants \in [Addresses -> Grants \cup {None}]
    /\ \A v \in Variables : \/ variables[v] = None
                            \/ variables[v] \in [version : Nat, updatedBy : Addresses]
    /\ \A c \in Slots : call[c] # Idle => call[c].may \in Verdicts
    /\ started \in 0..MaxCalls /\ now \in 1..MaxTime

\* Every write of a variable that succeeds gets a version of its own, counted
\* from zero without a gap since the variable was created, and the last one is
\* the version the variable has: of two calls that expect the same version one
\* is refused, however they overlap (InMemoryVarStore.set).
VersionsAreCounted ==
    /\ VarsTypeOK
    /\ \A v \in Variables :
          acked[v] = [i \in 1..(IF variables[v] = None THEN 0 ELSE variables[v].version + 1)
                         |-> i - 1]

\* An atomic batch that its validation refuses has written nothing.  If no other
\* call was under way and no grant expired meanwhile, one that throws has written
\* nothing either, and one that reports success has written everything when its
\* operations are of different variables.  It validates and executes in separate
\* steps and never looks at the results; when a grant ends between them it
\* leaves operations out and reports success, or throws after it wrote a part
\* (InMemoryVarStore.batch).
AtomicBatchesAreWhole ==
    \A c \in Slots :
        LET f == call[c]
        IN  f # Idle =>
                /\ f.at = "refused" => f.results = <<>>
                /\ f.at = "thrown" /\ f.atomic /\ f.alone => f.results = <<>>
                /\ f.at = "results" /\ f.atomic /\ f.alone
                       /\ IsInjective([i \in DOMAIN f.ops |-> f.ops[i].var])
                   => FALSE \notin ToSet(f.results)

\* The list of a namespace has the grants that grantPermission, revokePermission
\* and updates reported, whichever calls overlapped, unless an update overlapped
\* with another change: the copy it makes may be of an older list.
GrantsAreKept ==
    \A ns \in Namespaces \ raced :
        namespaces[ns] # 0 => acls[namespaces[ns]].grants = granted[ns]

\* What callers were told is done is what the store holds.
ReportedIsStored == VersionsAreCounted /\ GrantsAreKept
=============================================================================
