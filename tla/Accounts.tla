------------------------------ MODULE Accounts ------------------------------
(***************************************************************************)
(* Programs of account instructions, src/executor/engine.ts, as a block    *)
(* executes them, src/chain/blockValidator.ts.  Each handler of a program  *)
(* reads the state the program started from; the writes of all of them are *)
(* applied, in order, when none has failed.                                *)
(***************************************************************************)
EXTENDS Approvals

CONSTANTS
    Programs,           \* sequences of instructions
    MaxVersion,         \* bound: Programs expect versions below it
    MaxExisting,        \* bound: ids that hold something at a time
    MaxTime             \* bound: the clock

accounts == <<state, now>>
Ids == OrgIds \cup RoleIds \cup UnitIds \cup MemberIds \cup PolicyIds \cup ApprovalIds

-----------------------------------------------------------------------------
(* What is stored under the ids, and the arguments of the instructions.     *)

Versions == 0..MaxVersion
Organisations == [owner : Addresses, active : BOOLEAN, version : Versions]
Roles == [perms : SUBSET Perms, inherits : SUBSET RoleIds, active : BOOLEAN, version : Versions]
Units == [parent : UnitIds \cup {None}, active : BOOLEAN, version : Versions]
Assignments == [role : RoleIds, unit : UnitIds \cup {None}, expires : Nat]
Members == [assigned : SUBSET Assignments, version : Versions]

Kinds == {"threshold", "any", "all", "sequential", "tiered"}
Signers == Seq(Addresses \cup RoleIds)
Tiers == [threshold : Nat, signers : Signers]
Policies == [type : Kinds, threshold : Nat, signers : Signers, tiers : Seq(Tiers),
             active : BOOLEAN, version : Versions]

Statuses == {"pending", "approved", "rejected", "cancelled", "executed"}
Claims == Nat \cup {None}
Signatures == Seq([by : Addresses, tier : Claims])
Requested == [policy : PolicyIds, status : Statuses, signatures : Signatures, expires : Nat]

Expected == {v \in Versions : v < MaxVersion}
Instructions ==
    [op : {"ORG_CREATE"}, org : OrgIds]
    \cup [op : {"ORG_UPDATE"}, org : OrgIds, owner : Addresses, active : BOOLEAN, version : Expected]
    \cup [op : {"ORG_ROLE_CREATE"}, role : RoleIds, perms : SUBSET Perms, inherits : SUBSET RoleIds]
    \cup [op : {"ORG_ROLE_UPDATE"}, role : RoleIds, perms : SUBSET Perms, inherits : SUBSET RoleIds,
          active : BOOLEAN, version : Expected]
    \cup [op : {"ORG_UNIT_CREATE"}, unit : UnitIds, parent : UnitIds \cup {None}]
    \cup [op : {"ORG_UNIT_UPDATE"}, unit : UnitIds, parent : UnitIds \cup {None}, active : BOOLEAN,
          version : Expected]
    \cup [op : {"ORG_MEMBER_ADD"}, org : OrgIds, address : Addresses, add : SUBSET Assignments]
    \cup [op : {"ORG_MEMBER_UPDATE"}, org : OrgIds, address : Addresses, add : SUBSET Assignments,
          remove : SUBSET RoleIds, version : Expected]
    \cup [op : {"ORG_MEMBER_REMOVE"}, org : OrgIds, address : Addresses]
    \cup [op : {"ORG_CHECK_PERM"}, org : OrgIds, address : Addresses, perm : Perms,
          unit : UnitIds \cup {None}]
    \cup [op : {"APPROVAL_POLICY_CREATE"}, policy : PolicyIds,
          draft : [type : Kinds, threshold : Nat, signers : Signers, tiers : Seq(Tiers)]]
    \cup [op : {"APPROVAL_POLICY_UPDATE"}, policy : PolicyIds, threshold : Nat, signers : Signers,
          active : BOOLEAN, version : Expected]
    \cup [op : {"APPROVAL_REQUEST"}, approval : ApprovalIds, policy : PolicyIds, expires : Nat]
    \cup [op : {"APPROVAL_SIGN"}, approval : ApprovalIds, tier : Claims]
    \cup [op : {"APPROVAL_REJECT", "APPROVAL_CANCEL", "APPROVAL_EXECUTE"}, approval : ApprovalIds]

\* A key is a hash of the kind and the id, so that kinds share none.
ASSUME AccountsAssumption ==
    /\ MaxVersion \in Nat /\ MaxExisting \in Nat /\ MaxTime \in Nat \ {0}
    /\ Programs \subseteq Seq(Instructions)
    /\ OrgIds \cap (RoleIds \cup UnitIds \cup MemberIds \cup PolicyIds \cup ApprovalIds) = {}
    /\ RoleIds \cap (UnitIds \cup MemberIds \cup PolicyIds \cup ApprovalIds) = {}
    /\ UnitIds \cap (MemberIds \cup PolicyIds \cup ApprovalIds) = {}
    /\ MemberIds \cap (PolicyIds \cup ApprovalIds) = {}
    /\ PolicyIds \cap ApprovalIds = {}
    /\ None \notin Ids /\ None \notin Nat
    /\ Absent \notin Organisations \cup Roles \cup Units \cup Members \cup Policies \cup Requested

-----------------------------------------------------------------------------
AccountsInit == state = [id \in Ids |-> Absent] /\ now = 1

Handler(from, ir) ==
    CASE ir.op = "ORG_CREATE"             -> ORG_CREATE(from, ir)
      [] ir.op = "ORG_UPDATE"             -> ORG_UPDATE(from, ir)
      [] ir.op = "ORG_ROLE_CREATE"        -> ORG_ROLE_CREATE(from, ir)
      [] ir.op = "ORG_ROLE_UPDATE"        -> ORG_ROLE_UPDATE(from, ir)
      [] ir.op = "ORG_UNIT_CREATE"        -> ORG_UNIT_CREATE(from, ir)
      [] ir.op = "ORG_UNIT_UPDATE"        -> ORG_UNIT_UPDATE(from, ir)
      [] ir.op = "ORG_MEMBER_ADD"         -> ORG_MEMBER_ADD(from, ir)
      [] ir.op = "ORG_MEMBER_UPDATE"      -> ORG_MEMBER_UPDATE(from, ir)
      [] ir.op = "ORG_MEMBER_REMOVE"      -> ORG_MEMBER_REMOVE(from, ir)
      [] ir.op = "ORG_CHECK_PERM"         -> ORG_CHECK_PERM(from, ir)
      [] ir.op = "APPROVAL_POLICY_CREATE" -> APPROVAL_POLICY_CREATE(from, ir)
      [] ir.op = "APPROVAL_POLICY_UPDATE" -> APPROVAL_POLICY_UPDATE(from, ir)
      [] ir.op = "APPROVAL_REQUEST"       -> APPROVAL_REQUEST(from, ir)
      [] ir.op = "APPROVAL_SIGN"          -> APPROVAL_SIGN(from, ir)
      [] ir.op = "APPROVAL_REJECT"        -> APPROVAL_REJECT(from, ir)
      [] ir.op = "APPROVAL_CANCEL"        -> APPROVAL_CANCEL(from, ir)
      [] ir.op = "APPROVAL_EXECUTE"       -> APPROVAL_EXECUTE(from, ir)

(* What the writes leave: the last one of an id counts. *)
Writers(writes, id) == {i \in DOMAIN writes : writes[i].id = id}
Newest(S) == CHOOSE i \in S : \A j \in S : j <= i
Applied(writes) ==
    [id \in Ids |-> IF Writers(writes, id) = {} THEN state[id] ELSE writes[Newest(Writers(writes, id))].value]

ExecuteProgram(from, program) ==
    LET outcome == [i \in DOMAIN program |-> Handler(from, program[i])] IN
    /\ \A i \in DOMAIN program : outcome[i] # {}
    /\ state' = Applied([i \in DOMAIN program |-> CHOOSE w \in outcome[i] : TRUE])
    /\ Cardinality({id \in Ids : state'[id] # Absent}) <= MaxExisting
    /\ UNCHANGED now

Clock == now < MaxTime /\ now' = now + 1 /\ UNCHANGED state

AccountsNext == Clock \/ \E from \in Addresses, program \in Programs : ExecuteProgram(from, program)
AccountsSpec == AccountsInit /\ [][AccountsNext]_accounts

-----------------------------------------------------------------------------
Status(id) == IF Exists(id) THEN state[id].status ELSE "none"

Holds(ids, S) == \A id \in ids : state[id] \in S \cup {Absent}
AccountsTypeOK ==
    /\ DOMAIN state = Ids /\ now \in 1..MaxTime
    /\ Holds(OrgIds, Organisations) /\ Holds(RoleIds, Roles) /\ Holds(UnitIds, Units)
    /\ Holds(MemberIds, Members) /\ Holds(PolicyIds, Policies) /\ Holds(ApprovalIds, Requested)

(* The gate that programs put before an instruction never lets through what  *)
(* the store of organisations would refuse, whatever expired, was removed,  *)
(* deactivated or reassigned since, as long as the organisation is active   *)
(* (handleORG_CHECK_PERM against checkPermission).                          *)
GateWithinStore ==
    /\ AccountsTypeOK
    /\ \A org \in OrgIds, address \in Addresses, unit \in UnitIds \cup {None}, perm \in Perms :
            Exists(org) /\ state[org].active /\ Granted(org, address, perm, unit)
                => CheckPermission(org, address, perm, unit)

(* A request becomes approved only before it expires and with signatures of   *)
(* as many different signers, eligible under the policy of that moment, as   *)
(* the policy requires: with signatures from before the policy was changed,  *)
(* several instructions of one program, and steps claimed in any order      *)
(* (handleAPPROVAL_SIGN, isPolicySatisfied, getRequiredSignatureCount).     *)
Quorum(id) ==
    LET policy == state[state[id].policy] IN
    /\ state[id].expires > now
    /\ Cardinality({s.by : s \in Range(state'[id].signatures)} \cap SignerAddresses(policy))
         >= RequiredSignatures(policy)
ApprovedByQuorum ==
    [][\A id \in ApprovalIds : Status(id)' = "approved" /\ Status(id) # "approved" => Quorum(id)]_accounts

(* A program, however many of its instructions name a request, moves it by    *)
(* one step of its life: it adds one signature, of somebody who had not      *)
(* signed, to those stored before, or it rejects, cancels or executes it,    *)
(* with the signatures stored before.  A closed request stays as it is, an   *)
(* approved one is only executed, and a signature that is stored stays.  Of  *)
(* several signatures accepted in one program, or of a signature and a       *)
(* rejection, the last alone is stored: engine.ts applies the last write     *)
(* (handleAPPROVAL, execute).                                                *)
TakesSignature(id) ==
    /\ Status(id) = "pending" /\ Status(id)' \in {"pending", "approved"}
    /\ \E s \in Range(state'[id].signatures) :
            ~Signed(id, s.by) /\ state'[id].signatures = Append(state[id].signatures, s)
Closes(id) ==
    /\ \/ Status(id) = "pending" /\ Status(id)' \in {"rejected", "cancelled"}
       \/ Status(id) = "approved" /\ Status(id)' = "executed"
    /\ state'[id].signatures = state[id].signatures
RequestsAdvance ==
    [][\A id \in ApprovalIds : Exists(id) /\ state'[id] # state[id] =>
         TakesSignature(id) \/ Closes(id)]_accounts
=============================================================================
