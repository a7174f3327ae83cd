SPECIFICATION Spec
CONSTANTS
  r1 = r1  r2 = r2
  Requests = {r1, r2}
  InRange = {r1, r2}
  Amount <- Pays
  MinDst <- Asks
  Liquidity = 4
  MaxConcurrent = 1
  MaxJobs = 2
  MaxStarts = 2
  MaxLost = 1
  None = None
INVARIANT BridgesAreTrue
PROPERTIES EventsAreHandled
CHECK_DEADLOCK FALSE
