SPECIFICATION FairPluginSpec
CONSTANTS
    CallIds = {c1, c2}
    SessionKeys = {s1, s2}
    Sdps = {a1}
    Reasons <- MCReasons
    MaxConcurrentCalls = 2
    MaxPushes = 1
    Undefined = Undefined
    Requests = {r1, r2, r3}
    Nodes = {n1}
    Enabled = TRUE
    InvokeFailed = "invoke-failed"
INVARIANTS
    PluginTypeOK
    StartResponseAgrees
    HangupTakesEffect
    InitiatingExplained
PROPERTIES
    RequestsAnswered
