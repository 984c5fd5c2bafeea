SPECIFICATION Spec
CONSTANTS
    w1 = w1
    w2 = w2
    p1 = p1
    p2 = p2
    hb = hb
    cp = cp
    Rec = Rec
    Workloads = {w1, w2}
    Packages = {p1}
    PackageOrder <- InOrder
    PkgOf <- BothInOne
    Live = {}
    Stateful = {}
    Triggers = {}
    Gated = {}
    MaxFaults = 0
    MaxUpdates = 2
    MaxCrashes = 0
INVARIANT NoDuplicateTransition
CHECK_DEADLOCK FALSE
