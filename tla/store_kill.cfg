SPECIFICATION Spec
CONSTANTS
    p1 = p1
    p2 = p2
    a = a
    NaN = NaN
    NOTHING = NOTHING
    Tokens <- MCTokens
    Content <- MCContent
    GateTypes <- MCGateTypes
    Probs = {p1, p2}
    Infos = {1, 2}
    Bytes = {a}
    Extras <- MCExtras
    Offered <- MCOffered
    MaxGates = 4
    MaxWires = 6
    MaxExtra = 4
    MaxKills = 1
INVARIANT CircuitInv
INVARIANT FilesAgree
INVARIANT ChildrenWhole
INVARIANT PromisesStand
PROPERTY OnlyNamedTokenChanges
INVARIANT CreatedReadsBack
