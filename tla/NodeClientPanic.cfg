SPECIFICATION Spec
CONSTANTS
    Invokes = {i1}
INVARIANT NeverPanics
CHECK_DEADLOCK FALSE
