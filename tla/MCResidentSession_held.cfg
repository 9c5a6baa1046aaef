SPECIFICATION Spec
CONSTANTS
    a = a
    b = b
    None = None
    Tokens <- TwoTokens
    ImStart = a
    Stop = b
    Close <- CloseOne
    Page = 2
    Chunk = 2
    PrefixMarks = 3
    Steps = 1
    MaxPrompt = 4
    MaxAnswer = 2
INVARIANTS
    HeldTokenLeft
