SPECIFICATION MCSpec
CONSTANTS
  gen = gen  one = one  two = two  bad = bad  p1 = p1  p2 = p2
  Blocks = {one, two, bad}
  Genesis = gen
  Parent <- Tree
  Refused = {bad}
  Peers = {p1, p2}
  Branch <- Branches
  MaxHeaders = 2
  MaxPerRequest = 1
  MaxConcurrent = 1
  MaxOrphans = 1
  MaxAsked = 2
  MaxStray = 1
  MaxChurn = 1
  None = None
  c1 = c1  c2 = c2  tx = tx  name = name
  Conns = {c1, c2}
  Items = {tx, name}
  Txs = {tx}
  Hooked = {tx}
  MaxChunk = 2
  MaxChunks = 1
  NoConn = NoConn
CHECK_DEADLOCK FALSE
INVARIANTS ParentsFirst GossipOnce
PROPERTIES DownloadsFinish GossipSettles
