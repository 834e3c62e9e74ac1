SPECIFICATION PluginSpec
CONSTANTS
    CallIds = {c1, c2}
    SessionKeys = {s1, s2}
    Sdps = {a1}
    Reasons <- MCReasons
    MaxConcurrentCalls = 2
    MaxPushes = 1
    Undefined = Undefined
    Requests = {r1, r2, r3}
    Nodes = {n1, n2}
    Enabled = TRUE
    InvokeFailed = "invoke-failed"
SYMMETRY Symmetry
INVARIANT InitiatingAwaitsNode
