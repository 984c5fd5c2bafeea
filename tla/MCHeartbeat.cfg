SPECIFICATION FairSpec
CONSTANTS
    n1 = n1
    n2 = n2
    NoNode = NoNode
    Nodes = {n1, n2}
    AwsNodes = {n2}
    MissLimit = 2
    MaxAge = 3
    MaxWarmup = 1
    MaxBeats <- TwoAndOne
    MaxCrashes = 1
INVARIANTS TypeOK SilenceBeforeRecovery UnhealthyAfterRecovery
PROPERTIES OneRecoveryPerSilence SilentNodeIsRecovered
CHECK_DEADLOCK FALSE
