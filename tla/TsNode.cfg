SPECIFICATION FairSpec
CONSTANTS
    Commands = {i1, i2}
    CallIds = {c1}
    MaxLosses = 2
    Loopback = TRUE
INVARIANTS
    TsNodeTypeOK
    ResultsAgree
    HangupReleases
    TimersReachable
PROPERTIES
    ImplementsCustody
    NodeReturns
CHECK_DEADLOCK FALSE
