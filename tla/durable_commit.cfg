SPECIFICATION FairSpec
CONSTANTS
  Sessions = {s1, s2}
  Tokens = {"leaf", "gate"}
  Content <- LeafAndGate
  NOTHING = NOTHING
  GrowAt = {1}
  MaxGates = 4
  MaxWires = 2
  MaxPipe = 2
  MaxXacts = 2
  MaxStops = 1
  MaxCrashes = 1
INVARIANT DurableInv
PROPERTY EventuallyForced
CHECK_DEADLOCK FALSE
