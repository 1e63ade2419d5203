SPECIFICATION Spec
CONSTANTS
    n1 = n1
    n2 = n2
    f = f
    B0 = B0
    a1 = a1
    a2 = a2
    b1 = b1
    b2 = b2
    None = None
    Honest = {n1, n2}
    Faulty = {f}
    Block = {B0, a1, a2, b1}
    Base = B0
    MaxStake = 2
    Parent <- ForkParent
    Height <- TreeHeight
    Stake <- EqualStake
    Proposer <- FaultyProposer
    MaxRestarts = 2
    MaxFailures = 0
INVARIANTS
    TypeOK
    Agreement
    FinalBelowTip
    FinalizedIsProved
    RecoveryNeverSticks
    ClientSound
PROPERTIES
    FinalForever
    ImplementsFinalizedChain
CHECK_DEADLOCK FALSE
