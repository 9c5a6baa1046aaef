SPECIFICATION FairSpec
CONSTANTS
    r1 = r1
    r2 = r2
    r3 = r3
    s1 = s1
    s2 = s2
    k1 = k1
    b1 = b1
    b2 = b2
    None = None
    Requests <- Three
    Servers <- OneServer
    KeyOf <- MixedKeys
    BodyOf <- SameBody
    StoreFaults = {"crash", "drain", "insert", "update", "leave"}
CHECK_DEADLOCK FALSE
PROPERTIES
    KeepsLifecycle
    RowsClose
