SPECIFICATION FairUpdateSpec
CHECK_DEADLOCK FALSE
CONSTANTS
    f1 = f1
    f2 = f2
    f3 = f3
    Files <- ThreeFiles
    Matches <- SomeMatches
    Fragile = {f2, f3}
    Workers = {k1, k2}
    FileCap = 1
    MatchCap = 1
    WalkFails = TRUE
    Cancels = TRUE
    Docs <- SomeDocs
    Slots = 2
    EditFails = TRUE
INVARIANTS
    UpdateTypeOK
    NoSendOnClosed
    NoSpuriousMatch
    DrainedScanIsComplete
    PushedFilesAreWhole
    PushIsAllOrNothing
PROPERTIES
    UpdateEnds
    NoGoroutineLeft
