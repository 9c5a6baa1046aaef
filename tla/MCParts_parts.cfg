SPECIFICATION Spec
CONSTANTS
    i1 = i1
    i2 = i2
    c1 = c1
    c2 = c2
    q1 = q1
    q2 = q2
    a1 = a1
    t1 = t1
    t2 = t2
    p1 = p1
    NoId = NoId
    None = None
    Ids <- TwoIds
    MaxCancels = 2
    MaxWindows = 1
    MaxNew = 3
    Caps <- SomeCaps
    Vocabularies <- SomeVocabularies
    Span = 2
    Clients <- BothClients
    SystemOf <- SamePrompt
    Keepers <- JustOne
    Questions <- Questions2
    Replies <- OneReply
    Thoughts <- BothThoughts
    Endings = {"completed"}
    MaxTurns = 3
    MaxRows = 3
    RunnerRows = 6
    Pictures <- TwoPictures
    MaxImages = 1
    MaxMessages = 4
    MaxCalls = 2
    MaxArguments = 2
    MaxGlyphs = 2
    Width = 2
    Stash = 3
    Heads = 4
    ColdRows = 4
    PageRows = 4
    PageCount = 2
    Warm = 1
    Capacity = 7
    Steps = 3
    WarmRolls = 1
    Kinds <- DraftKinds
    WideKinds <- Wide
    CachePages = 2
    RowsPerPage = 2
    CacheIds = {1, 2}
    MaxStates = 1
    Warmups = 2
    PrefillRows = 2
    PrimsRows = 2
    PrimsQuery = 3
    MaxEpoch = 1
    WalkTables <- SomeTables
    BucketPages = 2
    MinEager = 1
    Addresses = {1, 2}
    MaxWidth = 3
    Tokens = {1, 2, 3}
    Targets <- SomeTargets
    Proposers <- SomeProposers
    Padding <- PaddedRows
    Hot <- HotIds
    WindowSteps = 2
    Shares = 12
    Whole = 95800320
    Samplers <- SomeSamplers
    Photos <- TwoPhotos
    PatchesOf <- PhotoSizes
    LruEntries = 1
    MaxPhotos = 2
    PromptParts = 2
    LastId = 15
    MaxTapes = 1
    Absent = Absent
    MaxEdits = 1
    MaxLength = 2
    Directory <- SomeDirectory
    Named <- SomeNames
    BucketLimits <- SomeBuckets
    NoSession = NoSession
    Framings <- SomeFramings
    MaxHistories = 1
    MaxOthers = 1
    Pids = {1, 2}
    Commands = {11, 12}
    MaxStarts = 3
    Nobody = Nobody
CHECK_DEADLOCK FALSE
INVARIANTS
    CancelExact
    ExitAnswersAll
    QueueHasRoom
    AnswerExact
    ClientsAgree
    RelayedWhole
    HistoryHolds
    CallsReadBack
    GraphsTransparent
    RowsFollowTarget
    AppendedOnce
    OwnWindow
    ReadyIsPatched
    TargetLaw
    OwnPictures
    SettingsKept
    BenchFaithful
    OneManaged
PROPERTIES
    KeepsProtocol
    EofEnds
