SPECIFICATION FairSpec
CONSTANTS
    Nodes = {n1, n2}
    CallIds = {c1}
    Loopback = {n1}
INVARIANTS
    TypeOK
    PcReachable
    ReplayStoppable
PROPERTIES
    ImplementsCustody
    AudioEnds
    FailureIsCleanedUp
