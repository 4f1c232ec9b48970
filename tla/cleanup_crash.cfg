SPECIFICATION Spec
CONSTANTS
  z = z
  a = a
  p = p
  o = o
  x = x
  Sessions = {s1, s2}
  Tokens = {z, a, p, o}
  Content <- MCContent
  Literals = {z}
  Stores <- MCStores
  RowTokens = {p, o}
  Rows = {p}
  Isolations = {"rc", "rr"}
  One = One
  NaN = NaN
  NOTHING = NOTHING
  Bytes = {x}
  Probs = {One, NaN}
  MaxGates = 6
  MaxXacts = 2
  MaxCleanups = 2
  MaxFaults = 1
INVARIANT CleanupInv
INVARIANT RebuiltIsHealthy
INVARIANT TakenAlone
CHECK_DEADLOCK FALSE
SYMMETRY Swap
