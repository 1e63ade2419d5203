SPECIFICATION Spec
CONSTANTS
    d1 = d1
    d2 = d2
    None = None
    Deposit <- MCDeposit
    Block <- MCBlock
    Credit <- MCTwinCredit
    Browser <- MCBrowser
    MaxHead = 3
    Depth = 1
    Span = 2
    Poll = {p1, p2}
    Request = {r1, r2}
    FaultSets <- MCNoFault
    MaxFaults = 0
CHECK_DEADLOCK FALSE
INVARIANT
    TxUnique
