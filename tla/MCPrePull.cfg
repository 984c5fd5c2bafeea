SPECIFICATION FairSpec
CHECK_DEADLOCK FALSE
CONSTANTS
    n1 = n1
    n2 = n2
    Calls = {d1, d2}
    NodeList <- TwoNodes
    ControlPlane = {n1}
    HasOriginal = TRUE
    MaxFaults = 1
INVARIANTS TypeOK PodIsWatched
PROPERTIES PodsAreRemoved
