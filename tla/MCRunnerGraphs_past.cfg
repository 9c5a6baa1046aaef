SPECIFICATION RunnerSpec
CONSTANTS
    Width = 2
    Stash = 3
    Heads = 4
    ColdRows = 4
    PageRows = 4
    PageCount = 2
    Warm = 1
    RunnerRows = 6
CHECK_DEADLOCK FALSE
INVARIANTS
    StartsAtCursor
