SPECIFICATION Spec
CONSTANTS
    Proc = {p1, p2, p3}
    Slot = {s1, s2, s3}
    Hash = {h1, h2}
    NoHash = NoHash
    FaultSets <- MCFaultSets
    p1 = p1
    p2 = p2
    p3 = p3
    s1 = s1
    s2 = s2
    s3 = s3
    h1 = h1
    h2 = h2
SYMMETRY Symmetry
INVARIANTS NoDoubleSign IInv
PROPERTY ImplementsVoteLock
