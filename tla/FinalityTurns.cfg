\* Two honest proposers that take turns, with restarts and failed productions.
SPECIFICATION FairSpec
CONSTANTS
    n1 = n1
    n2 = n2
    f = f
    B0 = B0
    a1 = a1
    a2 = a2
    b1 = b1
    b2 = b2
    None = None
    Honest = {n1, n2}
    Faulty = {}
    Block = {B0, a1, a2, b1, b2}
    Base = B0
    MaxStake = 2
    Parent <- ForkParent
    Height <- TreeHeight
    Stake <- TurnStake
    Proposer <- TurnProposer
    MaxRestarts = 2
    MaxFailures = 1
INVARIANTS
    NoSecondProposal
    SealingExtendsTip
    ClientNotAlarmed
PROPERTIES
    EventuallyFinal
    ClientConfirms
CHECK_DEADLOCK FALSE
