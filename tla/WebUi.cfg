SPECIFICATION Spec
CONSTANTS
    Attempts = {a1, a2, a3}
    None = None
SYMMETRY AttemptSymmetry
INVARIANTS
    WebTypeOK
    HangupWithinReach
    MicReleased
    CallsKeptApart
PROPERTY SetUpUndisturbed
