SPECIFICATION FairSpec
CONSTANTS
    w1 = w1
    w2 = w2
    p1 = p1
    p2 = p2
    hb = hb
    cp = cp
    Rec = Rec
    Workloads = {w1, w2}
    Packages = {p1}
    PackageOrder <- InOrder
    PkgOf <- BothInOne
    Live = {}
    Stateful = {p1}
    Triggers = {}
    Gated = {}
    MaxFaults = 2
    MaxUpdates = 7
    MaxCrashes = 1
INVARIANT RestoreBeforeApplication
PROPERTIES PlainPackagesComplete PlainPackagesSettle ForeignRecordsStay
CHECK_DEADLOCK FALSE
