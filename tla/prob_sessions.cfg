CONSTANTS
    s1 = s1  s2 = s2  a = a  b = b  w = w  g = g
    Tokens = {a, b, w, g}
    Gate <- MCGate
    NaN = NaN
    Sessions = {s1, s2}
    Probs = {1, 2}
    Offers <- Both
    Leaves <- MintsB
    MaxNest = 2
    MaxXacts = 2
    MaxFaults = 1
SPECIFICATION Spec
CHECK_DEADLOCK FALSE
INVARIANT ProbInv
INVARIANT CommittedWritesStand
INVARIANT RolledBackIsCleared
INVARIANT AcceptedStands
