SPECIFICATION FairSpec
CONSTANTS
    r1 = r1
    r2 = r2
    None = None
    Requests <- One
    Streaming <- Nobody
    ChanCap = 1
    PipeCap = 1
    Announces = FALSE
    MaxDeltas = 0
    OutCap = 1
    Answers = {"completed"}
    Faults = {"stop", "insert", "abandon"}
CHECK_DEADLOCK FALSE
PROPERTIES
    BusyReleased
    EveryRequestEnds
    StopEnds
