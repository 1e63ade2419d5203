SPECIFICATION Spec
CONSTANTS
    Proc = {p1}
    Slot = {s1}
    Hash = {h1, h2}
    NoHash = NoHash
    FaultSets <- MCAbortAndPower
    p1 = p1
    s1 = s1
    h1 = h1
    h2 = h2
SYMMETRY Symmetry
INVARIANT NoDoubleSign
