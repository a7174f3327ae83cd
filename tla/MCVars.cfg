SPECIFICATION VarsSpec
CONSTANTS
  al = al  bo = bo  s1 = s1  s2 = s2  org = org  acc = acc  k = k
  Addresses = {al, bo}
  Namespaces = {org, acc}
  Keys = {k}
  Type <- MCType
  Holder <- MCHolder
  OrgGrants <- MCOrgGrants
  Operations <- MCOperations
  Creations <- MCCreations
  Grants <- MCGrants
  Updates <- MCUpdates
  Slots = {s1, s2}
  MaxCalls = 3
  MaxTime = 2
  None = None
  Idle = Idle
SYMMETRY Symmetry
CHECK_DEADLOCK FALSE
INVARIANTS ReportedIsStored AtomicBatchesAreWhole
