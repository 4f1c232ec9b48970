\* Two sessions, a peer, faults on every side.
SPECIFICATION Spec
CONSTANTS
    None = None
    Backends = {b1, b2}
    Peers = {p1}
    Links = {1, 2, 3, 4, 5}
    MaxCalls <- OneCallsTwice
    MaxEvents = 2
INVARIANTS KeptConnectionsAreQuiet
PROPERTIES ServiceSpec CallsEnd Relaunched
CHECK_DEADLOCK FALSE
