SPECIFICATION TokensSpec
CONSTANTS
  al = al  bo = bo  c1 = c1  c2 = c2  i = i
  Holders = {al, bo}
  Zero = Zero
  Instances = {i}
  Quantities = {1}
  Caps = {0, 1}
  TokenCalls = {c1, c2}
  MaxCalls <- MCMaxCalls
  None = None
  NoCall = NoCall
SYMMETRY Symmetry
CHECK_DEADLOCK FALSE
INVARIANTS SupplyAddsUp
PROPERTIES MovesFromItsOwner
