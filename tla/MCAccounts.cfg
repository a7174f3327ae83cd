SPECIFICATION MCSpec
CONSTANTS
  al = al  bo = bo  o = o  r = r  s = s  u = u  w = w  q = q  ap = ap  see = see
  Addresses = {al, bo}
  OrgIds = {o}
  RoleIds = {r, s}
  UnitIds = {u, w}
  Perms = {see}
  PolicyIds = {q}
  ApprovalIds = {ap}
  Creator <- MCCreator
  OrgOf <- MCOrgOf
  Requestor <- MCRequestor
  None = None
  Absent = Absent
  Programs <- MCPrograms
  MaxVersion = 1
  MaxExisting = 4
  MaxTime = 2
  CallEvents <- MCCalls
  Configured <- MCConfigured
  Changed <- MCChanged
  MaxTotalConcurrent = 1
  GlobalRateLimitPerHour = 1
  PollLimit = 1
  Polls = {n1, n2}
  MaxLog = 2
CHECK_DEADLOCK FALSE
INVARIANTS GateWithinStore RunsAddUp
PROPERTIES ApprovedByQuorum RequestsAdvance CallsSettle
