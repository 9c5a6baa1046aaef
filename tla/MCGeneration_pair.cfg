SPECIFICATION Spec
CONSTANTS
    r1 = r1
    r2 = r2
    None = None
    Requests <- Two
    Streaming <- Nobody
    ChanCap = 1
    PipeCap = 1
    Announces = FALSE
    MaxDeltas = 0
    OutCap = 1
    Answers = {"completed"}
    Faults = {"insert"}
SYMMETRY Sym
INVARIANTS
    ExclusiveGpu
    NoStaleEvent
    AdmissionHeld
