SPECIFICATION Spec
CONSTANTS
    r1 = r1
    r2 = r2
    None = None
    Requests <- One
    Streaming <- One
    ChanCap = 1
    PipeCap = 1
    Announces = TRUE
    MaxDeltas = 2
    OutCap = 1
    Answers = {"completed", "failed"}
    Faults = {"update", "leave", "cancel", "garble"}
INVARIANTS
    TypeOK
    NoTruncatedSuccess
    NoOrphanRow
