-------------------------------- MODULE Orgs --------------------------------
(***************************************************************************)
(* Organisations, their roles, units and members: the SYS.ORG_*            *)
(* instructions of src/executor/modules/sys-org.ts.  A handler reads the   *)
(* state of the chain and asks for at most one write.  An identifier is a  *)
(* hash of what it was made for, so an identifier stands for that.         *)
(***************************************************************************)
EXTENDS Naturals, Sequences, FiniteSets

CONSTANTS
    Addresses,
    OrgIds, RoleIds, UnitIds, Perms,
    Creator,            \* the address an organisation's id was made for
    OrgOf,              \* the organisation that the id of a role or unit was made for
    None,               \* no unit, no tier
    Absent              \* what getState returns for an id that holds nothing

ASSUME OrgsAssumption ==
    /\ Creator \in [OrgIds -> Addresses]
    /\ RoleIds \cup UnitIds \subseteq DOMAIN OrgOf /\ \A i \in DOMAIN OrgOf : OrgOf[i] \in OrgIds

VARIABLES
    state,              \* the value of each id, or Absent
    now                 \* Date.now()

MemberIds == OrgIds \X Addresses
Exists(id) == state[id] # Absent
OwnedBy(org, from) == Exists(org) /\ state[org].owner = from

(* What a handler does: one write if the guard holds, nothing otherwise.    *)
StateWrite(id, value) == [id |-> id, value |-> value]
If(guard, write) == IF guard THEN {write} ELSE {}
NoWrite == StateWrite(None, Absent)

-----------------------------------------------------------------------------
ORG_CREATE(from, ir) ==
    If(~Exists(ir.org) /\ Creator[ir.org] = from,
       StateWrite(ir.org, [owner |-> from, active |-> TRUE, version |-> 0]))

ORG_UPDATE(from, ir) ==
    If(OwnedBy(ir.org, from) /\ state[ir.org].version = ir.version,
       StateWrite(ir.org, [owner |-> ir.owner, active |-> ir.active, version |-> ir.version + 1]))

ORG_ROLE_CREATE(from, ir) ==
    If(/\ OwnedBy(OrgOf[ir.role], from) /\ ~Exists(ir.role)
       /\ \A r \in ir.inherits : Exists(r),
       StateWrite(ir.role, [perms |-> ir.perms, inherits |-> ir.inherits, active |-> TRUE, version |-> 0]))

(* The roles it is to inherit from are not looked up again. *)
ORG_ROLE_UPDATE(from, ir) ==
    If(/\ Exists(ir.role) /\ OwnedBy(OrgOf[ir.role], from)
       /\ state[ir.role].version = ir.version,
       StateWrite(ir.role, [perms |-> ir.perms, inherits |-> ir.inherits, active |-> ir.active,
                            version |-> ir.version + 1]))

(* A unit that exists already is written over. *)
ORG_UNIT_CREATE(from, ir) ==
    If(OwnedBy(OrgOf[ir.unit], from) /\ (ir.parent # None => Exists(ir.parent)),
       StateWrite(ir.unit, [parent |-> ir.parent, active |-> TRUE, version |-> 0]))

(* The new parent is not looked up and may descend from the unit. *)
ORG_UNIT_UPDATE(from, ir) ==
    If(/\ Exists(ir.unit) /\ OwnedBy(OrgOf[ir.unit], from)
       /\ state[ir.unit].version = ir.version,
       StateWrite(ir.unit, [parent |-> ir.parent, active |-> ir.active, version |-> ir.version + 1]))

(* An assignment is a role, the unit it is for (None for all), and the time  *)
(* it expires (0 for never).                                                *)
RolesExist(assignments) == \A x \in assignments : Exists(x.role)

ORG_MEMBER_ADD(from, ir) ==
    If(/\ OwnedBy(ir.org, from) /\ ~Exists(<<ir.org, ir.address>>) /\ RolesExist(ir.add),
       StateWrite(<<ir.org, ir.address>>, [assigned |-> ir.add, version |-> 0]))

ORG_MEMBER_UPDATE(from, ir) ==
    LET id == <<ir.org, ir.address>> IN
    If(/\ OwnedBy(ir.org, from) /\ Exists(id) /\ state[id].version = ir.version
       /\ RolesExist(ir.add),
       StateWrite(id, [assigned |-> {x \in state[id].assigned : x.role \notin ir.remove} \cup ir.add,
                       version  |-> ir.version + 1]))

ORG_MEMBER_REMOVE(from, ir) ==
    If(OwnedBy(ir.org, from) /\ Exists(<<ir.org, ir.address>>),
       StateWrite(<<ir.org, ir.address>>, Absent))

-----------------------------------------------------------------------------
(* The assignments that count now: not expired, of a role that is active.   *)
Live(org, address) ==
    IF Exists(<<org, address>>)
    THEN {x \in state[<<org, address>>].assigned :
             (x.expires = 0 \/ x.expires >= now) /\ Exists(x.role) /\ state[x.role].active}
    ELSE {}

GrantedBug(org, address, perm, unit) ==    \* counts what was ever assigned
    /\ Exists(org)
    /\ \/ state[org].owner = address
       \/ /\ Exists(<<org, address>>)
          /\ \E x \in state[<<org, address>>].assigned :
               (unit = None \/ x.unit = None \/ x.unit = unit) /\ perm \in state[x.role].perms

(* Inherited permissions are not looked up, nor are the parents of a unit, *)
(* and an organisation that is not active grants what it did.             *)
Granted(org, address, perm, unit) ==
    /\ Exists(org)
    /\ \/ state[org].owner = address
       \/ \E x \in Live(org, address) :
            (unit = None \/ x.unit = None \/ x.unit = unit) /\ perm \in state[x.role].perms

ORG_CHECK_PERM(from, ir) ==
    If(Granted(ir.org, ir.address, ir.perm, ir.unit), NoWrite)

-----------------------------------------------------------------------------
(* The same question asked of the store of src/accounts/orgStore.ts, which   *)
(* follows the roles a role inherits from and the parents of a unit.        *)
Reached(id, following) ==
    LET ids == DOMAIN following
    IN  {i \in ids : \A S \in SUBSET ids : id \in S /\ (\A x \in S : following[x] \subseteq S) => i \in S}

InheritedRoles(role) ==
    Reached(role, [x \in RoleIds |->
        IF Exists(x) THEN {r \in state[x].inherits : Exists(r) /\ state[r].active} ELSE {}])

UnitsAbove(unit) ==
    Reached(unit, [x \in UnitIds \cup {None} |->
        IF x # None /\ Exists(x) THEN {state[x].parent} ELSE {}])

CheckPermission(org, address, perm, unit) ==
    /\ Exists(org) /\ state[org].active
    /\ \/ state[org].owner = address
       \/ \E x \in Live(org, address) :
            /\ unit = None \/ x.unit = None \/ x.unit \in UnitsAbove(unit)
            /\ \E r \in InheritedRoles(x.role) : perm \in state[r].perms
=============================================================================
