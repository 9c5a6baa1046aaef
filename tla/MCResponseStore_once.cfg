SPECIFICATION Spec
CONSTANTS
    r1 = r1
    r2 = r2
    r3 = r3
    s1 = s1
    s2 = s2
    k1 = k1
    b1 = b1
    b2 = b2
    None = None
    Requests <- Two
    Servers <- OneServer
    KeyOf <- OneKey
    BodyOf <- SameBody
    StoreFaults = {}
CHECK_DEADLOCK FALSE
INVARIANTS
    NeverGeneratedTwice
