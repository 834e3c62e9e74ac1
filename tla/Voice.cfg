SPECIFICATION Spec
CONSTANTS
    Sockets = {s1, s2, s3}
    None = None
    FrameSize = 3
    MaxBytes = 16
    MaxSamples = 7
INVARIANTS
    SessionAgrees
    NoOrphan
    StreamIntact
    ResampleSound
