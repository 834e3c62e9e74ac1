SPECIFICATION SystemSpec
CONSTANTS
    CallIds = {c1}
    SessionKeys = {s1}
    Sdps = {a1}
    Reasons <- MCReasons
    MaxConcurrentCalls = 1
    MaxPushes = 1
    Undefined = Undefined
    Requests = {r1, r2, r3}
    Nodes = {n1, n2}
    Enabled = TRUE
    InvokeFailed = "invoke-failed"
SYMMETRY Symmetry
INVARIANTS
    SystemTypeOK
    CommandsReachTheCall
    HangupClosesAnswered
PROPERTIES
    ImplementsService
