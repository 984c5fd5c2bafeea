---------------------------- MODULE MonitorProofs ----------------------------
(* Proofs about HealthMonitors, for every value of its constants. *)
EXTENDS HealthMonitors, TLAPS

Stages == {"off", "preparing", "loop", "alarm", "migrating"}

\* What the proofs need of the types: the bounds on the environment do not matter.
Monitors == [at : Stages, policy : Policies \cup {None}, age : Nat, miss : Nat,
             silence : Nat, IsTriggered : BOOLEAN]
MonitorType ==
    /\ monitor \in [Kinds -> Monitors]
    /\ outcome \in [Kinds -> {"none", "tried", "lost"}]
    /\ failures \in [Kinds -> Nat]

\* Every miss is a failed probe, and the failures are those since the last good one.
MissesAreFailures == monitor["cp"].miss <= failures["cp"]

\* The flag is older than the alarm and outlives it, until a probe is good; a
\* monitor that is off has neither.
FlagOutlivesAlarm ==
    \A k \in Kinds :
       /\ monitor[k].at \in {"alarm", "migrating"} => monitor[k].IsTriggered
       /\ outcome[k] # "none" => monitor[k].IsTriggered
       /\ monitor[k].at = "off" => outcome[k] = "none"

Inv == MonitorType /\ MissesAreFailures /\ FlagOutlivesAlarm /\ AlarmHasCause

LEMMA LimitIsNat == MissLimit \in Nat /\ TimeoutWindow \in Nat /\ RetryDelay \in Nat
                    /\ MaxGap \in Nat /\ Warmup \in [Kinds -> Nat]
  BY LimitsAssumption

LEMMA InitInv == Init => Inv
  <1> SUFFICES ASSUME Init PROVE Inv  OBVIOUS
  <1>1. Off \in Monitors  BY DEF Off, Monitors, Stages
  <1>2. MonitorType  BY <1>1 DEF Init, MonitorType
  <1> QED  BY <1>2 DEF Init, Inv, MissesAreFailures, FlagOutlivesAlarm, AlarmHasCause, Off, Kinds

LEMMA AtMostBounds ==
  ASSUME NEW n \in Nat, NEW bound \in Nat
  PROVE  AtMost(n, bound) \in Nat /\ AtMost(n, bound) <= bound
  BY DEF AtMost

\* A clock that runs on changes neither the counts nor the stage of a monitor.
LEMMA LaterKeeps ==
  ASSUME NEW k \in Kinds, NEW d \in Nat, NEW m \in Monitors
  PROVE  /\ Later(m, k, d) \in Monitors
         /\ Later(m, k, d).miss = m.miss /\ Later(m, k, d).at = m.at
         /\ Later(m, k, d).IsTriggered = m.IsTriggered
  <1> DEFINE a == AtMost(m.age + d, Warmup[k])
             s == IF k = "cni" THEN AtMost(m.silence + d, TimeoutWindow + 1) ELSE m.silence
  <1>1. m.age + d \in Nat /\ m.silence + d \in Nat  BY DEF Monitors
  <1>2. Warmup[k] \in Nat /\ TimeoutWindow + 1 \in Nat  BY LimitIsNat
  <1>3. a \in Nat /\ s \in Nat  BY <1>1, <1>2, AtMostBounds DEF Monitors
  <1>4. Later(m, k, d) = [m EXCEPT !.age = a, !.silence = s]  BY DEF Later
  <1> HIDE DEF a, s
  <1> QED  BY <1>3, <1>4 DEF Monitors

LEMMA MissedCounts ==
  ASSUME NEW k \in Kinds, NEW m \in Monitors
  PROVE  /\ Missed(m, k) \in Monitors
         /\ k = "cp" => Missed(m, k).miss = AtMost(m.miss + 1, MissLimit + 1)
         /\ Missed(m, k).at = m.at /\ Missed(m, k).IsTriggered = m.IsTriggered
  <1> DEFINE n == AtMost(m.miss + 1, MissLimit + 1)
  <1>1. m.miss + 1 \in Nat /\ MissLimit + 1 \in Nat  BY LimitIsNat DEF Monitors
  <1>2. n \in Nat  BY <1>1, AtMostBounds
  <1>3. Missed(m, k) = IF k = "cp" THEN [m EXCEPT !.miss = n] ELSE m  BY DEF Missed
  <1> HIDE DEF n
  <1>4. Missed(m, k) \in Monitors /\ (k = "cp" => Missed(m, k).miss = n)
     BY <1>2, <1>3 DEF Monitors
  <1>5. Missed(m, k).at = m.at /\ Missed(m, k).IsTriggered = m.IsTriggered
     BY <1>3 DEF Monitors
  <1> QED  BY <1>4, <1>5 DEF n

\* A step of one monitor, whose new state and history agree, keeps the invariant.
LEMMA OneMonitor ==
  ASSUME Inv, NEW k \in Kinds, NEW m \in Monitors,
         NEW o \in {"none", "tried", "lost"}, NEW f \in Nat,
         monitor' = [monitor EXCEPT ![k] = m],
         outcome' = [outcome EXCEPT ![k] = o],
         failures' = [failures EXCEPT ![k] = f],
         k = "cp" => m.miss <= f,
         m.at \in {"alarm", "migrating"} => m.IsTriggered,
         o # "none" => m.IsTriggered,
         m.at = "off" => o = "none",
         m.at = "alarm" => f >= Enough(k)
  PROVE  Inv'
  <1>1. MonitorType'  BY DEF Inv, MonitorType
  <1>2. /\ monitor'[k] = m /\ outcome'[k] = o /\ failures'[k] = f
        /\ \A j \in Kinds \ {k} : /\ monitor'[j] = monitor[j] /\ outcome'[j] = outcome[j]
                                  /\ failures'[j] = failures[j]
     BY DEF Inv, MonitorType
  <1>3. MissesAreFailures'  BY <1>2 DEF Inv, MissesAreFailures, Kinds
  <1>4. FlagOutlivesAlarm'
    <2> SUFFICES ASSUME NEW j \in Kinds
                 PROVE  /\ monitor'[j].at \in {"alarm", "migrating"} => monitor'[j].IsTriggered
                        /\ outcome'[j] # "none" => monitor'[j].IsTriggered
                        /\ monitor'[j].at = "off" => outcome'[j] = "none"
       BY DEF FlagOutlivesAlarm
    <2>1. CASE j = k  BY <2>1, <1>2
    <2>2. CASE j # k  BY <2>2, <1>2 DEF Inv, FlagOutlivesAlarm
    <2> QED  BY <2>1, <2>2
  <1>5. AlarmHasCause'
    <2> SUFFICES ASSUME NEW j \in Kinds PROVE monitor'[j].at = "alarm" => failures'[j] >= Enough(j)
       BY DEF AlarmHasCause
    <2>1. CASE j = k  BY <2>1, <1>2
    <2>2. CASE j # k  BY <2>2, <1>2 DEF Inv, AlarmHasCause
    <2> QED  BY <2>1, <2>2
  <1> QED  BY <1>1, <1>3, <1>4, <1>5 DEF Inv

\* The same for a step that leaves the history alone.
LEMMA OneMonitorOnly ==
  ASSUME Inv, NEW k \in Kinds, NEW m \in Monitors,
         monitor' = [monitor EXCEPT ![k] = m], UNCHANGED historyVars,
         k = "cp" => m.miss <= failures[k],
         m.at \in {"alarm", "migrating"} => m.IsTriggered,
         outcome[k] # "none" => m.IsTriggered,
         m.at = "off" => outcome[k] = "none",
         m.at # "alarm"
  PROVE  Inv'
  <1>1. outcome[k] \in {"none", "tried", "lost"} /\ failures[k] \in Nat
     BY DEF Inv, MonitorType
  <1>2. outcome' = [outcome EXCEPT ![k] = outcome[k]] /\ failures' = [failures EXCEPT ![k] = failures[k]]
     BY DEF Inv, MonitorType, historyVars
  <1> QED  BY <1>1, <1>2, OneMonitor

\* What the invariant says of monitor k.
LEMMA InvAt ==
  ASSUME Inv, NEW k \in Kinds
  PROVE  /\ monitor[k] \in Monitors /\ outcome[k] \in {"none", "tried", "lost"} /\ failures[k] \in Nat
         /\ k = "cp" => monitor[k].miss <= failures[k]
         /\ monitor[k].at \in {"alarm", "migrating"} => monitor[k].IsTriggered
         /\ outcome[k] # "none" => monitor[k].IsTriggered
         /\ monitor[k].at = "off" => outcome[k] = "none"
         /\ monitor[k].at = "alarm" => failures[k] >= Enough(k)
  BY DEF Inv, MonitorType, MissesAreFailures, FlagOutlivesAlarm, AlarmHasCause

LEMMA StartKeeps ==
  ASSUME Inv, NEW k \in Kinds, NEW p \in Policies, StartMonitor(k, p)
  PROVE  Inv'
  <1> DEFINE m == [Off EXCEPT !.at = IF k = "cni" THEN "preparing" ELSE "loop", !.policy = p]
  <1>1. /\ m \in Monitors /\ m.miss = 0 /\ m.at \in {"preparing", "loop"}
     BY DEF Off, Monitors, Stages
  <1>2. monitor' = [monitor EXCEPT ![k] = m] /\ UNCHANGED historyVars /\ outcome[k] = "none"
     BY InvAt DEF StartMonitor
  <1> HIDE DEF m
  <1>3. failures[k] \in Nat  BY InvAt
  <1>4. m.miss <= failures[k]  BY <1>1, <1>3
  <1>5. m.at \notin {"off", "alarm", "migrating"}  BY <1>1
  <1> QED  BY <1>1, <1>2, <1>4, <1>5, OneMonitorOnly

LEMMA PreparationKeeps ==
  ASSUME Inv, Preparation
  PROVE  Inv'
  <1>0. "cni" \in Kinds /\ "cni" # "cp"  BY DEF Kinds
  <1>1. CASE EnsureNetTestPods
    <2> DEFINE m == [monitor["cni"] EXCEPT !.at = "loop"]
    <2>1. monitor["cni"] \in Monitors  BY <1>0, InvAt
    <2>2. m \in Monitors /\ m.at = "loop" /\ m.IsTriggered = monitor["cni"].IsTriggered
       BY <2>1 DEF Monitors, Stages
    <2>3. monitor' = [monitor EXCEPT !["cni"] = m] /\ UNCHANGED historyVars
       BY <1>1 DEF EnsureNetTestPods
    <2>4. outcome["cni"] # "none" => m.IsTriggered  BY <1>0, <2>2, InvAt
    <2> HIDE DEF m
    <2> QED  BY <1>0, <2>2, <2>3, <2>4, OneMonitorOnly
  <1>2. CASE EnsureNetTestPodsFails
    <2> DEFINE m == Later(monitor["cni"], "cni", RetryDelay)
    <2>1. monitor["cni"] \in Monitors  BY <1>0, InvAt
    <2>2. /\ m \in Monitors /\ m.at = monitor["cni"].at
          /\ m.IsTriggered = monitor["cni"].IsTriggered
       BY <1>0, <2>1, LaterKeeps, LimitIsNat
    <2>3. /\ monitor' = [monitor EXCEPT !["cni"] = m] /\ UNCHANGED historyVars
          /\ monitor["cni"].at = "preparing"
       BY <1>2 DEF EnsureNetTestPodsFails
    <2>4. outcome["cni"] # "none" => m.IsTriggered  BY <1>0, <2>2, InvAt
    <2> HIDE DEF m
    <2> QED  BY <1>0, <2>2, <2>3, <2>4, OneMonitorOnly
  <1> QED  BY <1>1, <1>2 DEF Preparation

\* Ticks of the warm-up and those without a client.
LEMMA IdleTickKeeps ==
  ASSUME Inv, NEW k \in Kinds, NEW d \in Nat, Warming(k, d) \/ SkipProbe(k, d)
  PROVE  Inv'
  <1> DEFINE m == Later(monitor[k], k, d)
  <1>1. m \in Monitors /\ m.at = monitor[k].at /\ m.miss = monitor[k].miss
        /\ m.IsTriggered = monitor[k].IsTriggered
     BY InvAt, LaterKeeps
  <1>2. monitor' = [monitor EXCEPT ![k] = m] /\ UNCHANGED historyVars /\ monitor[k].at = "loop"
     BY DEF Warming, SkipProbe
  <1>3. /\ k = "cp" => m.miss <= failures[k]
        /\ outcome[k] # "none" => m.IsTriggered
     BY <1>1, InvAt
  <1> HIDE DEF m
  <1> QED  BY <1>1, <1>2, <1>3, OneMonitorOnly

LEMMA GoodProbeKeeps ==
  ASSUME Inv, NEW k \in Kinds, GoodProbe(k)
  PROVE  Inv'
  <1> DEFINE m == [monitor[k] EXCEPT !.silence = 0, !.miss = 0, !.IsTriggered = FALSE]
  <1>1. monitor[k] \in Monitors /\ monitor[k].at = "loop"  BY InvAt DEF GoodProbe
  <1>2. m \in Monitors /\ m.at = "loop" /\ m.miss = 0  BY <1>1 DEF Monitors
  <1>3. /\ monitor' = [monitor EXCEPT ![k] = m]
        /\ outcome' = [outcome EXCEPT ![k] = "none"]
        /\ failures' = [failures EXCEPT ![k] = 0]
     BY DEF GoodProbe, Inv, MonitorType
  <1> HIDE DEF m
  <1>4. PICK f \in Nat : failures' = [failures EXCEPT ![k] = f] /\ m.miss <= f
    <2>1. 0 \in Nat /\ m.miss <= 0  BY <1>2
    <2> QED  BY <1>3, <2>1
  <1>5. PICK o \in {"none", "tried", "lost"} : outcome' = [outcome EXCEPT ![k] = o] /\ o = "none"
     BY <1>3
  <1>6. m.at \notin {"off", "alarm", "migrating"}  BY <1>2
  <1> QED  BY <1>2, <1>3, <1>4, <1>5, <1>6, OneMonitor

\* The heart of AlarmHasCause: a count of misses past the limit is matched by as
\* many failures; and of OneAlarmPerOutage: an alarm needs the flag down.
LEMMA BadProbeKeeps ==
  ASSUME Inv, NEW k \in Kinds, NEW d \in Nat, BadProbe(k, d)
  PROVE  Inv' /\ (monitor'[k].at = "alarm" => outcome[k] = "none")
  <1> DEFINE late == Later(monitor[k], k, d)
             m == Missed(late, k)
             r == IF Alarm(m, k) THEN [m EXCEPT !.at = "alarm", !.IsTriggered = TRUE] ELSE m
             f == AtMost(failures[k] + 1, Enough(k))
  <1>1. /\ late \in Monitors /\ late.miss = monitor[k].miss /\ late.at = "loop"
        /\ late.IsTriggered = monitor[k].IsTriggered
     BY InvAt, LaterKeeps DEF BadProbe
  <1>2. /\ monitor' = [monitor EXCEPT ![k] = r]
        /\ failures' = [failures EXCEPT ![k] = f] /\ UNCHANGED outcome
     BY DEF BadProbe
  <1> HIDE DEF late
  <1>3. /\ m \in Monitors /\ m.at = "loop" /\ m.IsTriggered = monitor[k].IsTriggered
        /\ k = "cp" => m.miss = AtMost(monitor[k].miss + 1, MissLimit + 1)
     BY <1>1, MissedCounts
  <1> HIDE DEF m
  <1>4. f \in Nat /\ (failures[k] + 1 >= Enough(k) => f >= Enough(k))
     BY InvAt, LimitIsNat DEF AtMost, Enough
  <1>5. k = "cp" => m.miss <= f /\ (m.miss > MissLimit => f >= Enough(k))
    <2> SUFFICES ASSUME k = "cp" PROVE m.miss <= f /\ (m.miss > MissLimit => f >= Enough(k))
       OBVIOUS
    <2>1. monitor[k].miss \in Nat /\ failures[k] \in Nat /\ monitor[k].miss <= failures[k]
       BY InvAt DEF Monitors
    <2> QED  BY <2>1, <1>3, LimitIsNat DEF AtMost, Enough
  <1>6. k # "cp" => f >= Enough(k)  BY <1>4, InvAt DEF Enough
  <1> HIDE DEF f
  <1>7. /\ r \in Monitors /\ r.miss = m.miss
        /\ r.at = "alarm" => r.IsTriggered /\ f >= Enough(k) /\ ~m.IsTriggered
        /\ r.at # "alarm" => r = m
    <2>1. CASE Alarm(m, k)
      <3>1. r = [m EXCEPT !.at = "alarm", !.IsTriggered = TRUE]  BY <2>1
      <3>2. r \in Monitors /\ r.miss = m.miss /\ r.at = "alarm" /\ r.IsTriggered
         BY <3>1, <1>3 DEF Monitors, Stages
      <3>3. ~m.IsTriggered /\ (k = "cp" => m.miss > MissLimit)  BY <2>1 DEF Alarm
      <3> QED  BY <3>2, <3>3, <1>5, <1>6
    <2>2. CASE ~Alarm(m, k)
      <3>1. r = m  BY <2>2
      <3> QED  BY <3>1, <1>3
    <2> QED  BY <2>1, <2>2
  <1> HIDE DEF r
  <1>8. outcome[k] # "none" => m.IsTriggered  BY <1>3, InvAt
  <1>9. /\ r.at \in {"alarm", "migrating"} => r.IsTriggered
        /\ outcome[k] # "none" => r.IsTriggered
        /\ r.at # "off"
     BY <1>3, <1>7, <1>8
  <1>10. outcome' = [outcome EXCEPT ![k] = outcome[k]] /\ outcome[k] \in {"none", "tried", "lost"}
     BY <1>2, InvAt DEF Inv, MonitorType
  <1>11. k = "cp" => r.miss <= f  BY <1>5, <1>7
  <1>12. r.at = "alarm" => f >= Enough(k)  BY <1>7
  <1>13. Inv'  BY <1>2, <1>4, <1>7, <1>9, <1>10, <1>11, <1>12, OneMonitor
  <1>14. monitor'[k] = r  BY <1>2 DEF Inv, MonitorType
  <1> QED  BY <1>13, <1>14, <1>7, <1>8

\* The policy is read, and the migration returns.
LEMMA AfterAlarmKeeps ==
  ASSUME Inv, NEW k \in Kinds, AlarmLost(k) \/ Migrate(k) \/ MigrationEnds(k)
  PROVE  Inv' /\ monitor'[k].at # "alarm"
  <1> DEFINE At(s) == [monitor[k] EXCEPT !.at = s]
  <1>1. monitor[k] \in Monitors /\ monitor[k].IsTriggered
     BY InvAt DEF AlarmLost, Migrate, MigrationEnds
  <1>2. ASSUME NEW s \in {"loop", "migrating"}
        PROVE  /\ At(s) \in Monitors /\ At(s).at = s /\ At(s).IsTriggered
               /\ At(s).miss = monitor[k].miss
     BY <1>1 DEF Monitors, Stages
  <1>3. PICK s \in {"loop", "migrating"}, o \in {"none", "tried", "lost"} :
           /\ monitor' = [monitor EXCEPT ![k] = At(s)]
           /\ outcome' = [outcome EXCEPT ![k] = o] /\ UNCHANGED failures
    <2>1. CASE AlarmLost(k)
       BY <2>1 DEF AlarmLost
    <2>2. CASE Migrate(k)
       BY <2>2 DEF Migrate
    <2>3. CASE MigrationEnds(k)
      <3>1. outcome[k] \in {"none", "tried", "lost"}  BY InvAt
      <3>2. /\ monitor' = [monitor EXCEPT ![k] = At("loop")] /\ UNCHANGED failures
            /\ outcome' = [outcome EXCEPT ![k] = outcome[k]]
         BY <2>3 DEF MigrationEnds, historyVars, Inv, MonitorType
      <3> QED  BY <3>1, <3>2
    <2> QED  BY <2>1, <2>2, <2>3
  <1>4. failures' = [failures EXCEPT ![k] = failures[k]] /\ failures[k] \in Nat
     BY <1>3 DEF Inv, MonitorType
  <1>5. /\ At(s) \in Monitors /\ At(s).at = s /\ At(s).IsTriggered
        /\ k = "cp" => At(s).miss <= failures[k]
     BY <1>2, InvAt
  <1>6. monitor'[k] = At(s)  BY <1>3 DEF Inv, MonitorType
  <1> HIDE DEF At
  <1>7. Inv'  BY <1>3, <1>4, <1>5, OneMonitor
  <1> QED  BY <1>5, <1>6, <1>7

LEMMA EnvironmentKeeps ==
  ASSUME Inv, Environment
  PROVE  Inv' /\ \A k \in Kinds : monitor'[k] = monitor[k] \/ monitor'[k].at = "off"
  <1>1. CASE ProcessRestarts
    <2>1. Off \in Monitors /\ Off.miss = 0 /\ Off.at = "off" /\ ~Off.IsTriggered
       BY DEF Off, Monitors, Stages
    <2>2. \A k \in Kinds : monitor'[k] = Off /\ outcome'[k] = "none" /\ failures'[k] = 0
       BY <1>1 DEF ProcessRestarts
    <2>3. MonitorType'  BY <1>1, <2>1 DEF ProcessRestarts, MonitorType
    <2> QED  BY <2>1, <2>2, <2>3 DEF Inv, MissesAreFailures, FlagOutlivesAlarm, AlarmHasCause, Kinds
  <1>2. CASE ~ProcessRestarts
    <2>1. UNCHANGED <<monitor, outcome, failures>>
       BY <1>2 DEF Environment, ClusterChanges, PodStarts, PolicyChanges, historyVars
    <2> QED  BY <2>1 DEF Inv, MonitorType, MissesAreFailures, FlagOutlivesAlarm, AlarmHasCause
  <1> QED  BY <1>1, <1>2

LEMMA GapIsNat ==
  ASSUME NEW k \in Kinds, NEW d \in Gap(k)
  PROVE  d \in Nat
  BY LimitIsNat DEF Gap

\* A step keeps the invariant, and the one that raises an alarm is the first since
\* the last good probe.
LEMMA NextInv ==
  ASSUME Inv, [Next]_vars
  PROVE  /\ Inv'
         /\ \A k \in Kinds :
               monitor[k].at = "loop" /\ monitor'[k].at = "alarm" => outcome[k] = "none"
  <1> DEFINE Raised(k) == monitor[k].at = "loop" /\ monitor'[k].at = "alarm" => outcome[k] = "none"
  <1>0. ASSUME NEW k \in Kinds, NEW m, monitor' = [monitor EXCEPT ![k] = m],
               monitor[k].at = "loop" /\ m.at = "alarm" => outcome[k] = "none"
        PROVE  \A j \in Kinds : Raised(j)
    <2> SUFFICES ASSUME NEW j \in Kinds PROVE Raised(j)  OBVIOUS
    <2>1. DOMAIN monitor = Kinds  BY DEF Inv, MonitorType
    <2>2. CASE j = k  BY <1>0, <2>1, <2>2
    <2>3. CASE j # k
      <3>1. monitor'[j] = monitor[j]  BY <1>0, <2>1, <2>3
      <3> QED  BY <3>1
    <2> QED  BY <2>2, <2>3
  <1>1. CASE \E k \in Kinds, p \in Policies : StartMonitor(k, p)
    <2>1. PICK k \in Kinds, p \in Policies : StartMonitor(k, p)  BY <1>1
    <2>2. monitor[k].at = "off"  BY <2>1 DEF StartMonitor
    <2> QED  BY <2>1, <2>2, <1>0, StartKeeps DEF StartMonitor
  <1>2. CASE Preparation
    <2>1. "cni" \in Kinds /\ monitor["cni"].at = "preparing"
       BY <1>2 DEF Kinds, Preparation, EnsureNetTestPods, EnsureNetTestPodsFails
    <2>2. PICK m : monitor' = [monitor EXCEPT !["cni"] = m]
       BY <1>2 DEF Preparation, EnsureNetTestPods, EnsureNetTestPodsFails
    <2> QED  BY <1>2, <2>1, <2>2, <1>0, PreparationKeeps
  <1>3. ASSUME NEW k \in Kinds, Loop(k) \/ MigrationEnds(k)
        PROVE  Inv' /\ \A j \in Kinds : Raised(j)
    <2>1. ASSUME NEW d \in Gap(k), Warming(k, d) \/ SkipProbe(k, d)
          PROVE  Inv' /\ \A j \in Kinds : Raised(j)
      <3>1. d \in Nat  BY GapIsNat
      <3>2. Later(monitor[k], k, d).at = monitor[k].at  BY <3>1, InvAt, LaterKeeps
      <3>3. monitor' = [monitor EXCEPT ![k] = Later(monitor[k], k, d)]
         BY <2>1 DEF Warming, SkipProbe
      <3> QED  BY <2>1, <3>1, <3>2, <3>3, <1>0, IdleTickKeeps
    <2>2. ASSUME NEW d \in Gap(k), BadProbe(k, d)
          PROVE  Inv' /\ \A j \in Kinds : Raised(j)
      <3>1. d \in Nat  BY GapIsNat
      <3>2. Inv' /\ (monitor'[k].at = "alarm" => outcome[k] = "none")
         BY <2>2, <3>1, BadProbeKeeps
      <3>3. PICK m : monitor' = [monitor EXCEPT ![k] = m]  BY <2>2 DEF BadProbe
      <3>4. monitor'[k] = m  BY <3>3 DEF Inv, MonitorType
      <3> QED  BY <3>2, <3>3, <3>4, <1>0
    <2>3. CASE GoodProbe(k)
      <3>1. Inv'  BY <2>3, GoodProbeKeeps
      <3>2. \A j \in Kinds : monitor'[j].at = monitor[j].at
         BY <2>3 DEF GoodProbe, Inv, MonitorType, Monitors
      <3> QED  BY <3>1, <3>2
    <2>4. CASE AlarmLost(k) \/ Migrate(k) \/ MigrationEnds(k)
      <3>1. Inv' /\ monitor'[k].at # "alarm"  BY <2>4, AfterAlarmKeeps
      <3>2. PICK m : monitor' = [monitor EXCEPT ![k] = m]
         BY <2>4 DEF AlarmLost, Migrate, MigrationEnds
      <3>3. monitor'[k] = m  BY <3>2 DEF Inv, MonitorType
      <3> QED  BY <3>1, <3>2, <3>3, <1>0
    <2> QED  BY <1>3, <2>1, <2>2, <2>3, <2>4 DEF Loop
  <1>4. CASE Environment  BY <1>4, EnvironmentKeeps
  <1>5. CASE UNCHANGED vars
     BY <1>5 DEF vars, historyVars, Inv, MonitorType, MissesAreFailures, FlagOutlivesAlarm, AlarmHasCause
  <1> QED  BY <1>1, <1>2, <1>3, <1>4, <1>5 DEF Next

\* Inv holds in every state of the monitors.
THEOREM MonitorsInvariant == Spec => []Inv
  <1>1. Init => Inv  BY InitInv
  <1>2. Inv /\ [Next]_vars => Inv'  BY NextInv
  <1> QED  BY <1>1, <1>2, PTL DEF Spec

\* No alarm without its cause: whatever the cluster, the policies, lost answers and
\* restarts do, a control-plane monitor that raises an alarm (MissCount > 2) has seen
\* more than MissLimit failed probes in a row, a CNI monitor at least one.
THEOREM AlarmsAreCaused == Spec => []AlarmHasCause
  BY MonitorsInvariant, PTL DEF Inv

\* An outage raises one alarm only: IsTriggered, set before the policy is read,
\* stays until a probe finds the cluster Ready or the operator restarts.
THEOREM OneAlarm == Spec => OneAlarmPerOutage
  <1>1. Inv /\ [Next]_vars =>
           [\A k \in Kinds :
               monitor[k].at = "loop" /\ monitor'[k].at = "alarm" => outcome[k] = "none"]_vars
     BY NextInv
  <1> QED  BY <1>1, MonitorsInvariant, PTL DEF Spec, OneAlarmPerOutage

------------------------------------------------------------------------------
(* Types, with the bounds of the counters *)

\* A monitor of kind k: its clocks and its count of misses stop at their limits, and
\* it has a policy exactly while it runs.
Bounded(m, k) ==
    /\ m \in Monitors /\ m.age <= Warmup[k]
    /\ m.miss <= MissLimit + 1 /\ m.silence <= TimeoutWindow + 1
    /\ m.policy = None <=> m.at = "off"

MonitorsOK == monitor \in [Kinds -> Monitors] /\ \A k \in Kinds : Bounded(monitor[k], k)
HistoryOK ==
    /\ outcome \in [Kinds -> {"none", "tried", "lost"}]
    /\ failures \in [Kinds -> 0..(MissLimit + 1)]
WorldOK ==
    /\ policy \in [Policies -> {"absent", "empty", "filled"}]
    /\ up \subseteq Flags /\ cut \subseteq Nodes
    /\ netPod \in [CPNodes -> {"absent", "pending", "running", "ended"}]
    /\ changes \in 0..MaxChanges /\ crashes \in 0..MaxCrashes
TypeInv == MonitorsOK /\ HistoryOK /\ WorldOK

LEMMA TypeInvImplies == TypeInv => TypeOK
  <1> SUFFICES ASSUME TypeInv PROVE TypeOK  OBVIOUS
  <1> DEFINE Typed == [at : Stages, policy : Policies \cup {None}, age : Nat,
                       miss : 0..(MissLimit + 1), silence : 0..(TimeoutWindow + 1),
                       IsTriggered : BOOLEAN]
  <1>1. ASSUME NEW k \in Kinds
        PROVE  /\ monitor[k] \in Typed /\ monitor[k].age <= Warmup[k]
               /\ (monitor[k].policy = None) <=> (monitor[k].at = "off")
    <2>1. Bounded(monitor[k], k)  BY DEF TypeInv, MonitorsOK
    <2>2. monitor[k].miss \in 0..(MissLimit + 1) /\ monitor[k].silence \in 0..(TimeoutWindow + 1)
       BY <2>1, LimitIsNat DEF Bounded, Monitors
    <2> QED  BY <2>1, <2>2 DEF Bounded, Monitors
  <1>2. DOMAIN monitor = Kinds /\ monitor = [k \in Kinds |-> monitor[k]]
     BY DEF TypeInv, MonitorsOK
  <1>3. monitor \in [Kinds -> [at : {"off", "preparing", "loop", "alarm", "migrating"},
                             policy : Policies \cup {None}, age : Nat,
                             miss : 0..(MissLimit + 1), silence : 0..(TimeoutWindow + 1),
                             IsTriggered : BOOLEAN]]
     BY <1>1, <1>2 DEF Stages
  <1> QED  BY <1>1, <1>3 DEF TypeInv, HistoryOK, WorldOK, TypeOK

LEMMA OffBounded == \A k \in Kinds : Bounded(Off, k)
  <1> TAKE k \in Kinds
  <1>1. Off \in Monitors /\ Off.policy = None /\ Off.at = "off"  BY DEF Off, Monitors, Stages
  <1>2. Off.age = 0 /\ Off.miss = 0 /\ Off.silence = 0  BY DEF Off
  <1>3. 0 <= Warmup[k] /\ 0 <= MissLimit + 1 /\ 0 <= TimeoutWindow + 1  BY LimitIsNat
  <1> QED  BY <1>1, <1>2, <1>3 DEF Bounded

LEMMA TypeInit == Init => TypeInv
  <1> SUFFICES ASSUME Init PROVE TypeInv  OBVIOUS
  <1>1. MonitorsOK  BY OffBounded DEF Init, MonitorsOK, Bounded
  <1>2. HistoryOK
    <2>1. 0 \in 0..(MissLimit + 1)  BY LimitIsNat
    <2> QED  BY <2>1 DEF Init, HistoryOK
  <1>3. WorldOK
    <2>1. 0 \in 0..MaxChanges /\ 0 \in 0..MaxCrashes  BY LimitsAssumption
    <2> QED  BY <2>1 DEF Init, WorldOK
  <1> QED  BY <1>1, <1>2, <1>3 DEF TypeInv

LEMMA LaterBounded ==
  ASSUME NEW k \in Kinds, NEW d \in Nat, NEW m, Bounded(m, k)
  PROVE  Bounded(Later(m, k, d), k)
  <1> DEFINE a == AtMost(m.age + d, Warmup[k])
             s == IF k = "cni" THEN AtMost(m.silence + d, TimeoutWindow + 1) ELSE m.silence
  <1>1. m \in Monitors /\ m.age + d \in Nat /\ m.silence + d \in Nat  BY DEF Bounded, Monitors
  <1>2. Warmup[k] \in Nat /\ TimeoutWindow + 1 \in Nat  BY LimitIsNat
  <1>3. a \in Nat /\ a <= Warmup[k]  BY <1>1, <1>2, AtMostBounds
  <1>4. s \in Nat /\ s <= TimeoutWindow + 1
     BY <1>1, <1>2, AtMostBounds DEF Bounded, Monitors
  <1>5. Later(m, k, d) = [m EXCEPT !.age = a, !.silence = s]  BY DEF Later
  <1> HIDE DEF a, s
  <1>6. /\ Later(m, k, d) \in Monitors /\ Later(m, k, d).age = a /\ Later(m, k, d).silence = s
        /\ Later(m, k, d).miss = m.miss /\ Later(m, k, d).at = m.at
        /\ Later(m, k, d).policy = m.policy
     BY <1>1, <1>3, <1>4, <1>5 DEF Monitors
  <1> QED  BY <1>3, <1>4, <1>6 DEF Bounded

LEMMA MissedBounded ==
  ASSUME NEW k \in Kinds, NEW m, Bounded(m, k)
  PROVE  Bounded(Missed(m, k), k)
  <1> DEFINE n == AtMost(m.miss + 1, MissLimit + 1)
  <1>1. m \in Monitors /\ m.miss + 1 \in Nat /\ MissLimit + 1 \in Nat
     BY LimitIsNat DEF Bounded, Monitors
  <1>2. n \in Nat /\ n <= MissLimit + 1  BY <1>1, AtMostBounds
  <1>3. Missed(m, k) = IF k = "cp" THEN [m EXCEPT !.miss = n] ELSE m  BY DEF Missed
  <1> HIDE DEF n
  <1>4. CASE k = "cp"
    <2>1. /\ Missed(m, k) \in Monitors /\ Missed(m, k).miss = n /\ Missed(m, k).at = m.at
          /\ Missed(m, k).age = m.age /\ Missed(m, k).silence = m.silence
          /\ Missed(m, k).policy = m.policy
       BY <1>1, <1>2, <1>3, <1>4 DEF Monitors
    <2> QED  BY <1>2, <2>1 DEF Bounded
  <1>5. CASE k # "cp"  BY <1>3, <1>5
  <1> QED  BY <1>4, <1>5

\* A monitor in another place of its loop, with or without the flag.
LEMMA PlaceBounded ==
  ASSUME NEW k \in Kinds, NEW m, Bounded(m, k), m.at # "off", NEW s \in Stages \ {"off"}
  PROVE  Bounded([m EXCEPT !.at = s], k) /\ Bounded([m EXCEPT !.at = s, !.IsTriggered = TRUE], k)
  BY DEF Bounded, Monitors, Stages

LEMMA MovesBounded ==
  ASSUME MonitorsOK, NEW k \in Kinds, NEW m, Bounded(m, k), monitor' = [monitor EXCEPT ![k] = m]
  PROVE  MonitorsOK'
  <1>1. m \in Monitors  BY DEF Bounded
  <1>2. monitor' \in [Kinds -> Monitors]  BY <1>1 DEF MonitorsOK
  <1>3. \A j \in Kinds : monitor'[j] = IF j = k THEN m ELSE monitor[j]  BY DEF MonitorsOK
  <1>4. \A j \in Kinds : Bounded(monitor'[j], j)  BY <1>3 DEF MonitorsOK
  <1> QED  BY <1>2, <1>4 DEF MonitorsOK, Bounded

LEMMA ChangesBounded ==
  ASSUME WorldOK, Fault \/ NoLoss
  PROVE  changes' \in 0..MaxChanges
  BY LimitsAssumption DEF WorldOK, Fault, NoLoss

LEMMA ProbeLoses ==
  ASSUME NEW k, NEW s, Probe(k, s)
  PROVE  Fault \/ NoLoss
  BY DEF Probe

LEMMA FailuresBounded ==
  ASSUME HistoryOK, NEW k \in Kinds
  PROVE  AtMost(failures[k] + 1, Enough(k)) \in 0..(MissLimit + 1)
  <1>1. failures[k] \in Nat  BY LimitIsNat DEF HistoryOK
  <1>2. Enough(k) \in Nat /\ Enough(k) <= MissLimit + 1  BY LimitIsNat DEF Enough
  <1> HIDE DEF Enough
  <1>3. failures[k] + 1 \in Nat  BY <1>1
  <1>4. AtMost(failures[k] + 1, Enough(k)) \in Nat /\ AtMost(failures[k] + 1, Enough(k)) <= Enough(k)
     BY <1>2, <1>3, AtMostBounds
  <1> QED  BY <1>2, <1>4, LimitIsNat

LEMMA MonitorsStayBounded ==
  ASSUME TypeInv, Next
  PROVE  MonitorsOK'
  <1>0. MonitorsOK /\ "cni" \in Kinds  BY DEF TypeInv, Kinds
  <1>1. ASSUME NEW k \in Kinds, NEW p \in Policies, StartMonitor(k, p) PROVE MonitorsOK'
    <2> DEFINE m == [Off EXCEPT !.at = IF k = "cni" THEN "preparing" ELSE "loop", !.policy = p]
    <2>1. p # None  BY NodesAssumption
    <2>2. Bounded(Off, k)  BY OffBounded
    <2>3. /\ m \in Monitors /\ m.policy = p /\ m.at # "off" /\ m.age = Off.age
          /\ m.miss = Off.miss /\ m.silence = Off.silence
       BY <2>2 DEF Bounded, Monitors, Stages
    <2>4. monitor' = [monitor EXCEPT ![k] = m]  BY <1>1 DEF StartMonitor
    <2> HIDE DEF m
    <2>5. Bounded(m, k)  BY <2>1, <2>2, <2>3 DEF Bounded
    <2> QED  BY <1>0, <2>4, <2>5, MovesBounded
  <1>2. CASE EnsureNetTestPods
    <2>1. Bounded(monitor["cni"], "cni") /\ monitor["cni"].at # "off" /\ "loop" \in Stages \ {"off"}
       BY <1>0, <1>2 DEF EnsureNetTestPods, MonitorsOK, Stages
    <2>2. Bounded([monitor["cni"] EXCEPT !.at = "loop"], "cni")  BY <1>0, <2>1, PlaceBounded
    <2>3. monitor' = [monitor EXCEPT !["cni"] = [monitor["cni"] EXCEPT !.at = "loop"]]
       BY <1>2 DEF EnsureNetTestPods
    <2> QED  BY <1>0, <2>2, <2>3, MovesBounded
  <1>3. CASE EnsureNetTestPodsFails
    <2>1. Bounded(Later(monitor["cni"], "cni", RetryDelay), "cni")
       BY <1>0, LaterBounded, LimitIsNat DEF MonitorsOK
    <2>2. monitor' = [monitor EXCEPT !["cni"] = Later(monitor["cni"], "cni", RetryDelay)]
       BY <1>3 DEF EnsureNetTestPodsFails
    <2> QED  BY <1>0, <2>1, <2>2, MovesBounded
  <1>4. ASSUME NEW k \in Kinds, Loop(k) \/ MigrationEnds(k) PROVE MonitorsOK'
    <2>0. Bounded(monitor[k], k)  BY <1>0 DEF MonitorsOK
    <2>1. ASSUME NEW d \in Gap(k), Warming(k, d) \/ SkipProbe(k, d) PROVE MonitorsOK'
      <3>1. Bounded(Later(monitor[k], k, d), k)  BY <2>0, GapIsNat, LaterBounded
      <3>2. monitor' = [monitor EXCEPT ![k] = Later(monitor[k], k, d)]
         BY <2>1 DEF Warming, SkipProbe
      <3> QED  BY <1>0, <3>1, <3>2, MovesBounded
    <2>2. ASSUME NEW d \in Gap(k), BadProbe(k, d) PROVE MonitorsOK'
      <3> DEFINE late == Later(monitor[k], k, d)
                 m == Missed(late, k)
                 r == IF Alarm(m, k) THEN [m EXCEPT !.at = "alarm", !.IsTriggered = TRUE] ELSE m
      <3>1. d \in Nat /\ monitor[k] \in Monitors /\ monitor[k].at = "loop"
         BY <2>0, <2>2, GapIsNat DEF Bounded, BadProbe
      <3>2. Bounded(late, k) /\ late \in Monitors /\ late.at = "loop"
         BY <2>0, <3>1, LaterBounded, LaterKeeps
      <3> HIDE DEF late
      <3>3. Bounded(m, k) /\ m.at = "loop"  BY <3>2, MissedBounded, MissedCounts
      <3>4. monitor' = [monitor EXCEPT ![k] = r]  BY <2>2 DEF BadProbe, late
      <3> HIDE DEF m
      <3>5. "alarm" \in Stages \ {"off"}  BY DEF Stages
      <3>6. Bounded(r, k)  BY <3>3, <3>5, PlaceBounded
      <3> HIDE DEF r
      <3> QED  BY <1>0, <3>4, <3>6, MovesBounded
    <2>3. CASE GoodProbe(k)
      <3> DEFINE m == [monitor[k] EXCEPT !.silence = 0, !.miss = 0, !.IsTriggered = FALSE]
      <3>1. /\ m \in Monitors /\ m.silence = 0 /\ m.miss = 0 /\ m.at = monitor[k].at
            /\ m.age = monitor[k].age /\ m.policy = monitor[k].policy
         BY <2>0 DEF Bounded, Monitors
      <3>2. monitor' = [monitor EXCEPT ![k] = m]  BY <2>3 DEF GoodProbe, TypeInv, MonitorsOK
      <3> HIDE DEF m
      <3>3. 0 <= MissLimit + 1 /\ 0 <= TimeoutWindow + 1  BY LimitIsNat
      <3>4. Bounded(m, k)  BY <2>0, <3>1, <3>3 DEF Bounded
      <3> QED  BY <1>0, <3>2, <3>4, MovesBounded
    <2>4. CASE AlarmLost(k) \/ Migrate(k) \/ MigrationEnds(k)
      <3>1. monitor[k].at # "off"  BY <2>4 DEF AlarmLost, Migrate, MigrationEnds
      <3>2. PICK s \in {"loop", "migrating"} : monitor' = [monitor EXCEPT ![k] = [monitor[k] EXCEPT !.at = s]]
         BY <2>4 DEF AlarmLost, Migrate, MigrationEnds
      <3>3. s \in Stages \ {"off"}  BY DEF Stages
      <3>4. Bounded([monitor[k] EXCEPT !.at = s], k)  BY <2>0, <3>1, <3>3, PlaceBounded
      <3> QED  BY <1>0, <3>2, <3>4, MovesBounded
    <2> QED  BY <1>4, <2>1, <2>2, <2>3, <2>4 DEF Loop
  <1>5. CASE ProcessRestarts
    <2>1. \A k \in Kinds : monitor'[k] = Off /\ Bounded(Off, k)
       BY <1>5, OffBounded DEF ProcessRestarts
    <2>2. monitor' \in [Kinds -> Monitors]  BY <1>5, <2>1 DEF ProcessRestarts, Bounded
    <2>3. \A k \in Kinds : Bounded(monitor'[k], k)  BY <2>1
    <2> QED  BY <2>2, <2>3 DEF MonitorsOK, Bounded
  <1>6. CASE UNCHANGED monitor  BY <1>0, <1>6 DEF MonitorsOK, Bounded
  <1> QED  BY <1>1, <1>2, <1>3, <1>4, <1>5, <1>6 DEF Next, Preparation, Environment, ClusterChanges,
                                                 PodStarts, PolicyChanges

LEMMA HistoryStaysBounded ==
  ASSUME TypeInv, Next
  PROVE  HistoryOK'
  <1>0. HistoryOK  BY DEF TypeInv
  <1>1. CASE UNCHANGED historyVars  BY <1>0, <1>1 DEF HistoryOK, historyVars
  <1>2. ASSUME NEW k \in Kinds, Loop(k) \/ MigrationEnds(k) PROVE HistoryOK'
    <2>1. ASSUME NEW d, BadProbe(k, d) PROVE HistoryOK'
      <3> DEFINE f == AtMost(failures[k] + 1, Enough(k))
      <3>1. f \in 0..(MissLimit + 1)  BY <1>0, FailuresBounded
      <3>2. failures' = [failures EXCEPT ![k] = f] /\ outcome' = outcome  BY <2>1 DEF BadProbe
      <3> HIDE DEF f
      <3> QED  BY <1>0, <3>1, <3>2 DEF HistoryOK
    <2>2. CASE GoodProbe(k)
      <3>1. 0 \in 0..(MissLimit + 1)  BY LimitIsNat
      <3> QED  BY <1>0, <2>2, <3>1 DEF GoodProbe, HistoryOK
    <2>3. CASE AlarmLost(k) \/ Migrate(k)
       BY <1>0, <2>3 DEF AlarmLost, Migrate, HistoryOK
    <2> QED  BY <1>1, <1>2, <2>1, <2>2, <2>3 DEF Loop, Warming, SkipProbe, MigrationEnds
  <1>3. CASE ProcessRestarts
    <2>1. 0 \in 0..(MissLimit + 1)  BY LimitIsNat
    <2> QED  BY <1>3, <2>1 DEF ProcessRestarts, HistoryOK
  <1> QED  BY <1>1, <1>2, <1>3 DEF Next, StartMonitor, Preparation, EnsureNetTestPods,
             EnsureNetTestPodsFails, Environment, ClusterChanges, PodStarts, PolicyChanges

LEMMA WorldStaysBounded ==
  ASSUME TypeInv, Next
  PROVE  WorldOK'
  <1>0. WorldOK  BY DEF TypeInv
  <1>1. changes' \in 0..MaxChanges
    <2>1. CASE Fault \/ NoLoss  BY <1>0, <2>1, ChangesBounded
    <2>2. ASSUME NEW k, GoodProbe(k) PROVE Fault \/ NoLoss
       BY <2>2, ProbeLoses DEF GoodProbe
    <2>3. ASSUME NEW k, NEW d, BadProbe(k, d) PROVE Fault \/ NoLoss
      <3>1. PICK s \in {"NotReady", "Unreachable", "Error"} : Probe(k, s)  BY <2>3 DEF BadProbe
      <3> QED  BY <3>1, ProbeLoses
    <2>4. ASSUME NEW k, NEW d, Warming(k, d) \/ SkipProbe(k, d) PROVE Fault \/ NoLoss
       BY <2>4 DEF Warming, SkipProbe, NoLoss
    <2>5. ASSUME NEW k, AlarmLost(k) \/ Migrate(k) \/ MigrationEnds(k) PROVE Fault \/ NoLoss
       BY <2>5 DEF AlarmLost, Migrate, MigrationEnds, NoLoss
    <2>6. CASE Preparation  BY <2>1, <2>6 DEF Preparation, EnsureNetTestPods, EnsureNetTestPodsFails
    <2>7. CASE Environment
       BY <2>1, <2>7 DEF Environment, ClusterChanges, PodStarts, PolicyChanges, ProcessRestarts, NoLoss
    <2>8. ASSUME NEW k, NEW p, StartMonitor(k, p) PROVE Fault \/ NoLoss
       BY <2>8 DEF StartMonitor, NoLoss
    <2> QED  BY <2>1, <2>2, <2>3, <2>4, <2>5, <2>6, <2>7, <2>8 DEF Next, Loop
  <1>2. crashes' \in 0..MaxCrashes
    <2>1. CASE ProcessRestarts  BY <1>0, <2>1, LimitsAssumption DEF ProcessRestarts, WorldOK
    <2>2. CASE UNCHANGED crashes  BY <1>0, <2>2 DEF WorldOK
    <2> QED  BY <2>1, <2>2 DEF Next, StartMonitor, Preparation, EnsureNetTestPods,
               EnsureNetTestPodsFails, Loop, Warming, SkipProbe, BadProbe, GoodProbe, AlarmLost,
               Migrate, MigrationEnds, Environment, ClusterChanges, PodStarts, PolicyChanges
  <1>3. policy' \in [Policies -> {"absent", "empty", "filled"}]
    <2>1. CASE UNCHANGED policy  BY <1>0, <2>1 DEF WorldOK
    <2>2. ASSUME NEW k, MigrationEnds(k) PROVE policy' \in [Policies -> {"absent", "empty", "filled"}]
       BY <1>0, <2>2 DEF MigrationEnds, WorldOK
    <2>3. ASSUME NEW p \in Policies, PolicyChanges(p)
          PROVE  policy' \in [Policies -> {"absent", "empty", "filled"}]
       BY <1>0, <2>3 DEF PolicyChanges, WorldOK
    <2> QED  BY <2>1, <2>2, <2>3 DEF Next, StartMonitor, Preparation, EnsureNetTestPods,
               EnsureNetTestPodsFails, Loop, Warming, SkipProbe, BadProbe, GoodProbe, AlarmLost,
               Migrate, Environment, ClusterChanges, PodStarts, ProcessRestarts
  <1>4. /\ up' \subseteq Flags /\ cut' \subseteq Nodes
        /\ netPod' \in [CPNodes -> {"absent", "pending", "running", "ended"}]
    <2>1. CASE UNCHANGED clusterVars  BY <1>0, <2>1 DEF WorldOK, clusterVars
    <2>2. CASE EnsureNetTestPods  BY <1>0, <2>2 DEF EnsureNetTestPods, WorldOK
    <2>3. CASE ClusterChanges
      <3>1. CASE \E f \in Flags : up' = (up \ {f}) \cup ({f} \ up) /\ UNCHANGED <<cut, netPod>>
         BY <1>0, <3>1 DEF WorldOK
      <3>2. CASE \E n \in Nodes : cut' = (cut \ {n}) \cup ({n} \ cut) /\ UNCHANGED <<up, netPod>>
         BY <1>0, <3>2 DEF WorldOK
      <3>3. CASE \E n \in CPNodes : /\ \E s \in {"ended", "absent"} : netPod' = [netPod EXCEPT ![n] = s]
                                    /\ UNCHANGED <<up, cut>>
         BY <1>0, <3>3 DEF WorldOK
      <3> QED  BY <2>3, <3>1, <3>2, <3>3 DEF ClusterChanges
    <2>4. CASE \E n \in CPNodes : PodStarts(n)  BY <1>0, <2>4 DEF PodStarts, WorldOK
    <2> QED  BY <2>1, <2>2, <2>3, <2>4 DEF Next, StartMonitor, Preparation, EnsureNetTestPodsFails,
               Loop, Warming, SkipProbe, BadProbe, GoodProbe, AlarmLost, Migrate, MigrationEnds,
               Environment, PolicyChanges, ProcessRestarts
  <1> QED  BY <1>1, <1>2, <1>3, <1>4 DEF WorldOK

\* Every variable stays in its type: a monitor runs exactly while it has a policy, and
\* MissCount and the clocks stop at the limits past which the code does not tell them apart.
THEOREM TypeCorrect == Spec => []TypeOK
  <1>1. TypeInv /\ [Next]_vars => TypeInv'
    <2> SUFFICES ASSUME TypeInv, [Next]_vars PROVE TypeInv'  OBVIOUS
    <2>1. CASE Next
       BY <2>1, MonitorsStayBounded, HistoryStaysBounded, WorldStaysBounded DEF TypeInv
    <2>2. CASE UNCHANGED vars
       BY <2>2 DEF TypeInv, MonitorsOK, Bounded, HistoryOK, WorldOK, vars, clusterVars, historyVars
    <2> QED  BY <2>1, <2>2
  <1> QED  BY <1>1, TypeInit, TypeInvImplies, PTL DEF Spec

==============================================================================
