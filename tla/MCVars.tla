------------------------------- MODULE MCVars -------------------------------
(* The namespaces of bo's account and of an organisation that al owns; bo    *)
(* has there what it is granted.  A batch may carry the same variable twice. *)
EXTENDS Vars
CONSTANTS al, bo, s1, s2, org, acc, k

MCType == org :> "org" @@ acc :> "account"
MCHolder == org :> al @@ acc :> bo
MCOrgGrants == [ns \in Namespaces |-> al :> {"write", "delete", "admin"} @@ bo :> {}]
Op(ns, version) == [var |-> <<ns, k>>, expected |-> version]
MCOperations ==
    {<<Op(org, None)>>, <<Op(org, 0)>>, <<Op(org, 0), Op(acc, 0)>>,
     <<Op(acc, None), Op(org, None)>>, <<Op(org, 0), Op(org, 0)>>}
MCCreations ==
    {[ns |-> org, owner |-> al, defaults |-> {}], [ns |-> org, owner |-> al, defaults |-> {"write"}],
     [ns |-> org, owner |-> bo, defaults |-> None]}
MCGrants == {[perms |-> {"admin"}, expires |-> 0], [perms |-> {"write", "delete"}, expires |-> 2]}
MCUpdates == {[owner |-> bo], [grants |-> [a \in Addresses |-> None]]}
Symmetry == Permutations(Slots)
=============================================================================
