SPECIFICATION HistorySpec
CONSTANTS
    c1 = c1
    c2 = c2
    q1 = q1
    q2 = q2
    a1 = a1
    t1 = t1
    t2 = t2
    p1 = p1
    None = None
    Clients <- JustOne
    SystemOf <- SamePrompt
    Keepers <- JustOne
    Questions <- OneQuestion
    Replies <- OneReply
    Thoughts <- BothThoughts
    Endings = {"completed", "incomplete"}
    MaxTurns = 3
    MaxRows = 3
CHECK_DEADLOCK FALSE
INVARIANTS
    OwnTokens
