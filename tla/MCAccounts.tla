----------------------------- MODULE MCAccounts -----------------------------
(* One organisation of al, with two roles (r, and s that inherits from it),  *)
(* two units, bo as a member, and one request under a policy of three kinds. *)
(* Programs of two instructions have the same object.                       *)
(*                                                                           *)
(* Or, apart from them, the runner of the calls that programs log: one runs    *)
(* locally, the other is set while the node runs and is behind HTTP.           *)
EXTENDS Accounts, InstructionRunner, TLC
CONSTANTS al, bo, o, r, s, u, w, q, ap, see

MCCreator == o :> al
MCOrgOf == r :> o @@ s :> o @@ u :> o @@ w :> o @@ q :> o @@ ap :> o
MCRequestor == ap :> bo

Both == <<al, bo>>
Tier(n, signers) == [threshold |-> n, signers |-> signers]
Draft(type, n, signers, tiers) ==
    [type |-> type, threshold |-> n, signers |-> signers, tiers |-> tiers]
Drafts == {Draft("threshold", 2, Both, <<>>), Draft("sequential", 0, Both, <<>>),
           Draft("all", 0, <<al, r>>, <<>>), Draft("any", 0, Both, <<>>),
           Draft("tiered", 0, <<>>, <<Tier(1, <<al>>), Tier(1, Both)>>)}
Grant(role, unit, expires) == [role |-> role, unit |-> unit, expires |-> expires]

OrgOps ==
    {[op |-> "ORG_CREATE", org |-> o]}
    \cup {[op |-> "ORG_UPDATE", org |-> o, owner |-> bo, active |-> TRUE, version |-> 0],
           [op |-> "ORG_UPDATE", org |-> o, owner |-> al, active |-> FALSE, version |-> 0]}
RoleOps ==
    {[op |-> "ORG_ROLE_CREATE", role |-> r, perms |-> {see}, inherits |-> {}],
     [op |-> "ORG_ROLE_CREATE", role |-> s, perms |-> {}, inherits |-> {r}]}
    \cup {[op |-> "ORG_ROLE_UPDATE", role |-> r, perms |-> {see}, inherits |-> {}, active |-> FALSE,
            version |-> 0],
           [op |-> "ORG_ROLE_UPDATE", role |-> r, perms |-> {}, inherits |-> {s}, active |-> TRUE,
            version |-> 0]}
UnitOps ==
    {[op |-> "ORG_UNIT_CREATE", unit |-> u, parent |-> None],
     [op |-> "ORG_UNIT_CREATE", unit |-> w, parent |-> u]}
    \cup {[op |-> "ORG_UNIT_UPDATE", unit |-> u, parent |-> w, active |-> TRUE, version |-> 0]}
Grants == {{Grant(r, u, 1)}, {Grant(s, None, 0)}}
MemberOps ==
    [op : {"ORG_MEMBER_ADD"}, org : {o}, address : {bo}, add : Grants]
    \cup [op : {"ORG_MEMBER_UPDATE"}, org : {o}, address : {bo}, add : Grants, remove : {{r}},
          version : {0}]
    \cup {[op |-> "ORG_MEMBER_REMOVE", org |-> o, address |-> bo]}
Checks ==
    [op : {"ORG_CHECK_PERM"}, org : {o}, address : {bo}, perm : {see}, unit : {None, w}]
PolicyOps ==
    [op : {"APPROVAL_POLICY_CREATE"}, policy : {q}, draft : Drafts]
    \cup {[op |-> "APPROVAL_POLICY_UPDATE", policy |-> q, threshold |-> 0, signers |-> <<bo>>,
            active |-> TRUE, version |-> 0],
           [op |-> "APPROVAL_POLICY_UPDATE", policy |-> q, threshold |-> 1, signers |-> Both,
            active |-> FALSE, version |-> 0]}
Signs == [op : {"APPROVAL_SIGN"}, approval : {ap}, tier : {None, 0, 1}]
RequestOps ==
    [op : {"APPROVAL_REQUEST"}, approval : {ap}, policy : {q}, expires : {2, 3}]
    \cup Signs
    \cup [op : {"APPROVAL_REJECT", "APPROVAL_CANCEL", "APPROVAL_EXECUTE"}, approval : {ap}]

Singles == {<<x>> : x \in OrgOps \cup RoleOps \cup UnitOps \cup MemberOps \cup PolicyOps \cup RequestOps}
Pairs(X, Y) == {<<x, y>> : x \in X, y \in Y}
MCPrograms ==
    Singles \cup Pairs(OrgOps, OrgOps) \cup Pairs(Checks, MemberOps \cup Signs)
            \cup Pairs(RequestOps, RequestOps) \cup Pairs(PolicyOps, Signs)

Local == [enabled |-> TRUE, kind |-> "local", maxConcurrent |-> 1, maxCallsPerHour |-> 0]
Web == [enabled |-> TRUE, kind |-> "http", maxConcurrent |-> 1, maxCallsPerHour |-> 1]
MCConfigured == "oracle" :> Local
MCChanged == {[id |-> "web", config |-> Web]}
MCCalls == {[id |-> 1, program |-> "oracle", caller |-> al], [id |-> 2, program |-> "web", caller |-> al]}

VARIABLE part
MCInit == part \in {"accounts", "runner"} /\ AccountsInit /\ RunnerInit
MCNext ==
    /\ \/ part = "accounts" /\ AccountsNext /\ UNCHANGED runner
       \/ part = "runner" /\ RunnerNext /\ UNCHANGED accounts
    /\ UNCHANGED part
MCSpec == MCInit /\ [][MCNext]_<<accounts, runner, part>> /\ RunnerFairness
=============================================================================
