SPECIFICATION Spec
CONSTANTS
    CallIds = {c1, c2, c3}
    SessionKeys = {s1, s2, s3}
    Sdps = {a1, a2}
    Reasons = {"user", "gateway-shutdown"}
    MaxConcurrentCalls = 2
    MaxPushes = 1
    Undefined = Undefined
SYMMETRY Symmetry
CONSTRAINT FewEntries
INVARIANTS
    TypeOK
    CapacityBound
    MapFindsLiveCall
    RecordConsistent
PROPERTIES
    TerminalFrozen
    AnswerStable
    ImplementsLifecycle
