SPECIFICATION Spec
CHECK_DEADLOCK FALSE
CONSTANTS
    f1 = f1
    f2 = f2
    f3 = f3
    Files <- ThreeFiles
    Matches <- SomeMatches
    Fragile = {}
    Workers = {k1, k2}
    FileCap = 1
    MatchCap = 1
    WalkFails = FALSE
    Cancels = FALSE
INVARIANTS
    AnswerIsComplete
