SPECIFICATION FairSpec
CONSTANTS
    d1 = d1
    d2 = d2
    None = None
    Deposit <- MCDeposit
    Block <- MCBlock
    Credit <- MCCredit
    Browser <- MCBrowser
    MaxHead = 3
    Depth = 1
    Span = 2
    Poll = {p1, p2}
    Request = {r1, r2}
    FaultSets <- MCFaultSets
    MaxFaults = 2
CHECK_DEADLOCK FALSE
INVARIANTS
    TypeOK
    MintedOnce
    NullifierDurable
    NoDepositSkipped
PROPERTY
    Credited
