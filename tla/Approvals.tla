------------------------------ MODULE Approvals ------------------------------
(***************************************************************************)
(* Approval policies and requests: the SYS.APPROVAL_* instructions of      *)
(* src/executor/modules/sys-approval.ts, with the rule that says when a    *)
(* policy is satisfied, src/accounts/approvalsTypes.ts.                    *)
(***************************************************************************)
EXTENDS Orgs, Functions, SequencesExt

CONSTANTS
    PolicyIds, ApprovalIds,
    Requestor           \* the address a request's id was made for

ASSUME ApprovalsAssumption ==
    /\ PolicyIds \cup ApprovalIds \subseteq DOMAIN OrgOf
    /\ Requestor \in [ApprovalIds -> Addresses]

-----------------------------------------------------------------------------
(* Of a tiered policy the tiers count, of the others the signers.  A signer  *)
(* is an address or a role, and nobody signs for a role.                    *)
SignersFor(policy, tier) ==
    IF policy.type # "tiered" THEN Range(policy.signers)
    ELSE IF tier \in 0..Len(policy.tiers) - 1 THEN Range(policy.tiers[tier + 1].signers) ELSE {}
CanSignForPolicy(policy, address, tier) == address \in SignersFor(policy, tier)

SignerAddresses(policy) ==
    Addresses \cap (IF policy.type = "tiered"
                    THEN UNION {Range(policy.tiers[i].signers) : i \in DOMAIN policy.tiers}
                    ELSE Range(policy.signers))

(* isPolicySatisfied: of a sequential policy every step is claimed by some   *)
(* signature, in whatever order; of a tiered one every tier often enough.   *)
IsPolicySatisfied(policy, signatures) ==
    LET valid == {i \in DOMAIN signatures : signatures[i].by \in SignerAddresses(policy)}
        OfTier(k) == Cardinality({i \in valid : signatures[i].tier = k})
    IN  CASE policy.type = "threshold"  -> Cardinality(valid) >= policy.threshold
          [] policy.type = "any"        -> Cardinality(valid) >= 1
          [] policy.type = "all"        -> Cardinality(valid) >= Len(policy.signers)
          [] policy.type = "sequential" -> \A k \in 0..Len(policy.signers) - 1 : OfTier(k) > 0
          [] policy.type = "tiered"     ->
               \A n \in DOMAIN policy.tiers : OfTier(n - 1) >= policy.tiers[n].threshold

(* getRequiredSignatureCount. *)
RequiredSignatures(policy) ==
    CASE policy.type = "threshold" -> policy.threshold
      [] policy.type = "any"       -> 1
      [] policy.type \in {"all", "sequential"} -> Len(policy.signers)
      [] policy.type = "tiered"    ->
           SumFunctionOnSet([n \in DOMAIN policy.tiers |-> policy.tiers[n].threshold], DOMAIN policy.tiers)

-----------------------------------------------------------------------------
(* A threshold is held against the number of signers here and not when the   *)
(* policy is updated.                                                       *)
APPROVAL_POLICY_CREATE(from, ir) ==
    If(/\ OwnedBy(OrgOf[ir.policy], from) /\ ~Exists(ir.policy)
       /\ ir.draft.type = "threshold" => ir.draft.threshold \in 1..Len(ir.draft.signers)
       /\ ir.draft.type = "tiered" => ir.draft.tiers # <<>>,
       StateWrite(ir.policy, [type |-> ir.draft.type, threshold |-> ir.draft.threshold,
                              signers |-> ir.draft.signers, tiers |-> ir.draft.tiers,
                              active |-> TRUE, version |-> 0]))

(* threshold and signers are the fields of an update that matter here; the   *)
(* tiers of a tiered policy stay.                                           *)
APPROVAL_POLICY_UPDATE(from, ir) ==
    If(/\ Exists(ir.policy) /\ OwnedBy(OrgOf[ir.policy], from)
       /\ state[ir.policy].version = ir.version,
       StateWrite(ir.policy, [state[ir.policy] EXCEPT !.threshold = ir.threshold, !.signers = ir.signers,
                                                      !.active = ir.active, !.version = @ + 1]))

APPROVAL_REQUESTBug(from, ir) ==    \* starts a request again that is under way
    If(/\ Exists(OrgOf[ir.approval]) /\ Requestor[ir.approval] = from
       /\ Exists(ir.policy) /\ state[ir.policy].active,
       StateWrite(ir.approval, [policy |-> ir.policy, status |-> "pending", signatures |-> <<>>,
                                expires |-> ir.expires]))

(* The policy may be one of another organisation. *)
APPROVAL_REQUEST(from, ir) ==
    If(/\ Exists(OrgOf[ir.approval]) /\ Requestor[ir.approval] = from /\ ~Exists(ir.approval)
       /\ Exists(ir.policy) /\ state[ir.policy].active,
       StateWrite(ir.approval, [policy |-> ir.policy, status |-> "pending", signatures |-> <<>>,
                                expires |-> ir.expires]))

Pending(id) == Exists(id) /\ state[id].status = "pending"
SetStatus(id, status) == StateWrite(id, [state[id] EXCEPT !.status = status])
Signed(id, address) == \E i \in DOMAIN state[id].signatures : state[id].signatures[i].by = address

APPROVAL_SIGNBug(from, ir) ==    \* one address signs twice
    LET a == state[ir.approval]
        policy == state[a.policy]
        signatures == Append(a.signatures, [by |-> from, tier |-> ir.tier])
    IN  If(Pending(ir.approval) /\ a.expires > now /\ CanSignForPolicy(policy, from, ir.tier),
           StateWrite(ir.approval, [a EXCEPT !.signatures = signatures,
             !.status = IF IsPolicySatisfied(policy, signatures) THEN "approved" ELSE "pending"]))

(* The policy is read as it is now, active or not. *)
APPROVAL_SIGN(from, ir) ==
    LET a == state[ir.approval]
        policy == state[a.policy]
        signatures == Append(a.signatures, [by |-> from, tier |-> ir.tier])
    IN  If(/\ Pending(ir.approval) /\ a.expires > now /\ ~Signed(ir.approval, from)
           /\ CanSignForPolicy(policy, from, ir.tier),
           StateWrite(ir.approval, [a EXCEPT !.signatures = signatures,
             !.status = IF IsPolicySatisfied(policy, signatures) THEN "approved" ELSE "pending"]))

(* A request of a tiered policy is rejected by nobody. *)
APPROVAL_REJECT(from, ir) ==
    If(/\ Pending(ir.approval)
       /\ CanSignForPolicy(state[state[ir.approval].policy], from, None),
       SetStatus(ir.approval, "rejected"))

APPROVAL_CANCEL(from, ir) ==
    If(/\ Pending(ir.approval)
       /\ Requestor[ir.approval] = from \/ OwnedBy(OrgOf[ir.approval], from),
       SetStatus(ir.approval, "cancelled"))

(* Anybody executes, and what was approved does not expire. *)
APPROVAL_EXECUTE(from, ir) ==
    If(Exists(ir.approval) /\ state[ir.approval].status = "approved",
       SetStatus(ir.approval, "executed"))
=============================================================================
