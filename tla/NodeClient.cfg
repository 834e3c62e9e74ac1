SPECIFICATION FairSpec
CONSTANTS
    Invokes = {i1, i2}
INVARIANTS
    NodeTypeOK
    PanicOnlyAfterLoss
PROPERTIES
    ProcessEnds
CHECK_DEADLOCK FALSE
