SPECIFICATION Spec
CONSTANTS
    r1 = r1
    r2 = r2
    r3 = r3
    s1 = s1
    s2 = s2
    k1 = k1
    b1 = b1
    b2 = b2
    None = None
    Requests <- Three
    Servers <- TwoServers
    KeyOf <- OneKey
    BodyOf <- MixedBody
    StoreFaults = {"crash", "drain", "insert", "update", "leave", "refuse"}
SYMMETRY Symm
CHECK_DEADLOCK FALSE
INVARIANTS
    TypeOK
    OneAnswerPerKey
    SuccessIsDurable
    OpenRowsOwned
    LiveRowKept
    ParentStays
