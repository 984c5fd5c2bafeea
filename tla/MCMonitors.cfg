SPECIFICATION FairSpec
CHECK_DEADLOCK FALSE
CONSTANTS
    n1 = n1
    n2 = n2
    None = None
    Policies = {q1}
    ControlPlane <- BothNodes
    OtherPods <- BothNodes
    MissLimit = 2
    TimeoutWindow = 3
    Warmup <- ShortWarmup
    RetryDelay = 5
    MaxGap = 2
    MaxChanges = 3
    MaxCrashes = 1
INVARIANTS TypeOK AlarmHasCause

PROPERTIES OneAlarmPerOutage OutageIsActedOn RecoveryRearms
