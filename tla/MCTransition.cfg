SPECIFICATION Spec
CONSTANTS
    w1 = w1
    w2 = w2
    p1 = p1
    p2 = p2
    hb = hb
    cp = cp
    Rec = Rec
    Workloads = {w1, w2}
    Packages = {p1, p2}
    PackageOrder <- InOrder
    PkgOf <- OneEach
    Live = {p1}
    Stateful = {p1}
    Triggers = {hb, cp}
    Gated = {cp}
    MaxFaults = 1
    MaxUpdates = 2
    MaxCrashes = 0
INVARIANTS TypeOK CompletedIsDeployed ImageBeforeApplication
PROPERTY StatusAppendOnly
CHECK_DEADLOCK FALSE
