SPECIFICATION Spec
CONSTANTS
    Attempts = {a1}
    None = None
INVARIANT HangupReachesGateway
