--------------------------- MODULE HealthMonitors ---------------------------
(***************************************************************************)
(* The control-plane and the CNI monitor of one workload cluster           *)
(* (internal/controller/clusterpolicy_controller.go), the probes they run  *)
(* (controlplane/control-plane.go, cnifault/cni.go) and the cluster they   *)
(* look at.  Every Reconcile of a ClusterPolicy that selects the cluster   *)
(* asks for both monitors; the first request starts the goroutine, which   *)
(* keeps the name of that policy and never ends.  One iteration of a       *)
(* monitor's loop is one action; the read of the policy and the migration  *)
(* that may follow are actions of their own.                               *)
(***************************************************************************)
EXTENDS Naturals, Sequences, FiniteSets, SequencesExt

CONSTANTS
    Policies,       \* the ClusterPolicies that select the cluster
    None,           \* no policy
    ControlPlane,   \* the control-plane nodes, as the API server lists them
    OtherPods,      \* the nodes of the pods that are not net-test pods, as listed
    MissLimit,      \* 2: the control plane may fail this many probes
    TimeoutWindow,  \* 3 s: the CNI may be silent this long
    Warmup,         \* warm-up of each monitor, in its ticks (17 and 2)
    RetryDelay,     \* 5 s between two attempts to prepare the net-test pods
    MaxGap,         \* seconds between two ticks of the CNI monitor, at most
    MaxChanges,     \* bound on lost answers and on changes of cluster and policies
    MaxCrashes      \* bound on restarts of the operator

Kinds   == {"cp", "cni"}
CPNodes == Range(ControlPlane)
Nodes   == CPNodes \cup Range(OtherPods)
Flags   == {"capi", "api", "nodes", "apiserver"}

ASSUME NodesAssumption ==
    /\ ControlPlane \in Seq(CPNodes) /\ OtherPods \in Seq(Nodes)
    /\ None \notin Policies
ASSUME LimitsAssumption ==
    /\ {MissLimit, TimeoutWindow, RetryDelay, MaxChanges, MaxCrashes} \subseteq Nat
    /\ Warmup \in [Kinds -> Nat] /\ MaxGap \in Nat \ {0}

VARIABLES
    policy,    \* each ClusterPolicy: absent, or whether its status has a package
    up,        \* what works: CAPI calls the cluster Ready, its API server answers,
               \* its control-plane nodes and its kube-apiserver pods are Ready
    cut,       \* nodes whose pods the network does not reach
    netPod,    \* the net-test pod of each control-plane node
    monitor,   \* monitorRegistry and the goroutines behind it
    outcome,   \* history: what became of the alarm since the last good probe
    failures,  \* history: failed probes since the last good one
    changes,   \* lost answers and changes so far
    crashes    \* restarts so far

clusterVars == <<up, cut, netPod>>
historyVars == <<outcome, failures>>
vars == <<policy, clusterVars, monitor, historyVars, changes, crashes>>

\* CPState, and the local state of the CNI monitor: age is now - startupTime in
\* ticks up to the warm-up, silence is now - TLastHeartbeat in seconds.
Off == [at |-> "off", policy |-> None, age |-> 0, miss |-> 0, silence |-> 0,
        IsTriggered |-> FALSE]

AtMost(n, bound) == IF n > bound THEN bound ELSE n

\* The clock of a monitor d ticks later; past its limits it is not told apart.
Later(m, k, d) ==
    [m EXCEPT !.age     = AtMost(@ + d, Warmup[k]),
              !.silence = IF k = "cni" THEN AtMost(@ + d, TimeoutWindow + 1) ELSE @]

\* MissCount and the history of failed probes, up to what is told apart.
Enough(k) == IF k = "cp" THEN MissLimit + 1 ELSE 1
Missed(m, k) == IF k = "cp" THEN [m EXCEPT !.miss = AtMost(@ + 1, MissLimit + 1)] ELSE m

\* A call that gets no answer in time costs one of the bounded faults.
Fault  == changes < MaxChanges /\ changes' = changes + 1
NoLoss == UNCHANGED changes

------------------------------------------------------------------------------
(* The probes *)

\* GetCapiClusterFromName and GetClusterClient: the secret is there and CAPI has
\* the cluster Ready.
HasClient == "capi" \in up

\* CheckControlPlaneStatus, where the List call named by lost gets no answer.  A
\* failed List of the kube-apiserver pods is passed over.
CheckControlPlaneStatus(lost) ==
    IF lost = "nodes" \/ "api" \notin up THEN "Unreachable"
    ELSE IF ControlPlane = <<>> THEN "Error"
    ELSE IF "nodes" \notin up \/ (lost # "pods" /\ "apiserver" \notin up) THEN "NotReady"
    ELSE "Ready"

\* listAllPods: the net-test pods, in "default", come before those of other namespaces.
AllPods ==
    [i \in 1..Len(SelectSeq(ControlPlane, LAMBDA n : netPod[n] # "absent")) |->
        LET n == SelectSeq(ControlPlane, LAMBDA m : netPod[m] # "absent")[i]
        IN  [node |-> n, running |-> netPod[n] = "running"]]
    \o [i \in DOMAIN OtherPods |-> [node |-> OtherPods[i], running |-> TRUE]]

\* listNetTestPods: the nodes of the running net-test pods.
Sources == {n \in CPNodes : netPod[n] = "running"}

\* The first pod on another node, whatever its phase.
Target(src) == SelectSeq(AllPods, LAMBDA p : p.node # src)

\* probePodNetwork: exec in the net-test pod of src and ping the target.  An exec
\* that times out is a failed probe like any other.
probePodNetwork(src, lost) ==
    /\ lost # "exec"
    /\ Head(Target(src)).running
    /\ {src, Head(Target(src)).node} \cap cut = {}

\* CheckCNIStatus: a source without a target is passed over.
CheckCNIStatus(lost) ==
    IF /\ lost # "pods" /\ "api" \in up /\ Sources # {}
       /\ \A src \in Sources : Target(src) = <<>> \/ probePodNetwork(src, lost)
    THEN "Ready" ELSE "NotReady"

Status(k, lost) == IF k = "cp" THEN CheckControlPlaneStatus(lost) ELSE CheckCNIStatus(lost)

\* Either every call of the probe is answered or one of them is lost.
Answers(k) == IF k = "cp" THEN {"nodes", "pods"} ELSE {"pods", "exec"}
Probe(k, status) ==
    \/ Status(k, "no") = status /\ NoLoss
    \/ \E lost \in Answers(k) : Status(k, lost) = status /\ Fault

------------------------------------------------------------------------------
(* Starting a monitor *)

\* Seeded fault: the goroutine is not given the policy.
StartMonitor_NoPolicy(k, p) ==
    /\ policy[p] # "absent"
    /\ monitor[k].at = "off"
    /\ monitor' = [monitor EXCEPT ![k] =
                      [Off EXCEPT !.at = IF k = "cni" THEN "preparing" ELSE "loop"]]
    /\ UNCHANGED <<policy, clusterVars, historyVars, changes, crashes>>

\* Reconcile of a policy: go Start...Monitor(context.Background(), ...).  There is
\* one monitor per cluster and kind: a later request finds the registry entry.
StartMonitor(k, p) ==
    /\ policy[p] # "absent"
    /\ monitor[k].at = "off"
    /\ monitor' = [monitor EXCEPT ![k] =
                      [Off EXCEPT !.at = IF k = "cni" THEN "preparing" ELSE "loop", !.policy = p]]
    /\ UNCHANGED <<policy, clusterVars, historyVars, changes, crashes>>

\* ensureNetTestPodsOnce: missing pods are created; a failed Create is only printed.
EnsureNetTestPods ==
    /\ monitor["cni"].at = "preparing"
    /\ HasClient /\ "api" \in up
    /\ LET missing == {n \in CPNodes : netPod[n] = "absent"}
       IN  \E created \in SUBSET missing :
              /\ netPod' = [n \in CPNodes |-> IF n \in created THEN "pending" ELSE netPod[n]]
              /\ IF created = missing THEN NoLoss ELSE Fault
    /\ monitor' = [monitor EXCEPT !["cni"].at = "loop"]
    /\ UNCHANGED <<policy, up, cut, historyVars, crashes>>

\* Without a client or a list of nodes it is tried again, while the clock runs.
EnsureNetTestPodsFails ==
    /\ monitor["cni"].at = "preparing"
    /\ IF HasClient /\ "api" \in up THEN Fault ELSE NoLoss
    /\ monitor' = [monitor EXCEPT !["cni"] = Later(@, "cni", RetryDelay)]
    /\ UNCHANGED <<policy, clusterVars, historyVars, crashes>>

------------------------------------------------------------------------------
(* The loop of a monitor *)

\* now.Sub(startupTime) < warmupPeriod
Warming(k, d) ==
    /\ monitor[k].at = "loop" /\ monitor[k].age < Warmup[k]
    /\ monitor' = [monitor EXCEPT ![k] = Later(@, k, d)]
    /\ UNCHANGED <<policy, clusterVars, historyVars, changes, crashes>>

\* Seeded fault: a tick without a client counts as a miss.
SkipProbe_CountsMiss(k, d) ==
    /\ monitor[k].at = "loop" /\ monitor[k].age = Warmup[k] /\ ~HasClient
    /\ monitor' = [monitor EXCEPT ![k] = Missed(Later(@, k, d), k)]
    /\ UNCHANGED <<policy, clusterVars, historyVars, changes, crashes>>

\* No client: the next tick, without counting a miss.
SkipProbe(k, d) ==
    /\ monitor[k].at = "loop" /\ monitor[k].age = Warmup[k] /\ ~HasClient
    /\ monitor' = [monitor EXCEPT ![k] = Later(@, k, d)]
    /\ UNCHANGED <<policy, clusterVars, historyVars, changes, crashes>>

\* Seeded fault: IsTriggered is not reset.
GoodProbe_StaysTriggered(k) ==
    /\ monitor[k].at = "loop" /\ monitor[k].age = Warmup[k] /\ HasClient
    /\ Probe(k, "Ready")
    /\ monitor' = [monitor EXCEPT ![k].silence = 0, ![k].miss = 0]
    /\ outcome' = [outcome EXCEPT ![k] = "none"]
    /\ failures' = [failures EXCEPT ![k] = 0]
    /\ UNCHANGED <<policy, clusterVars, crashes>>

\* Ready: the heartbeat is renewed and the monitor armed again.
GoodProbe(k) ==
    /\ monitor[k].at = "loop" /\ monitor[k].age = Warmup[k] /\ HasClient
    /\ Probe(k, "Ready")
    /\ monitor' = [monitor EXCEPT ![k].silence = 0, ![k].miss = 0, ![k].IsTriggered = FALSE]
    /\ outcome' = [outcome EXCEPT ![k] = "none"]
    /\ failures' = [failures EXCEPT ![k] = 0]
    /\ UNCHANGED <<policy, clusterVars, crashes>>

\* !IsTriggered and MissCount > 2, or silence > timeoutWindow.
Alarm(m, k) ==
    /\ ~m.IsTriggered
    /\ IF k = "cp" THEN m.miss > MissLimit ELSE m.silence > TimeoutWindow

\* Seeded fault: IsTriggered is set only when the policy has been read.
BadProbe_MarksLater(k, d) ==
    /\ monitor[k].at = "loop" /\ monitor[k].age = Warmup[k] /\ HasClient
    /\ \E s \in {"NotReady", "Unreachable", "Error"} : Probe(k, s)
    /\ LET m == Missed(Later(monitor[k], k, d), k)
       IN  monitor' = [monitor EXCEPT ![k] =
                          IF Alarm(m, k) THEN [m EXCEPT !.at = "alarm"] ELSE m]
    /\ failures' = [failures EXCEPT ![k] = AtMost(@ + 1, Enough(k))]
    /\ UNCHANGED <<policy, clusterVars, outcome, crashes>>

\* Seeded fault: every probe renews TLastHeartbeat and MissCount.
BadProbe_RenewsHeartbeat(k, d) ==
    /\ monitor[k].at = "loop" /\ monitor[k].age = Warmup[k] /\ HasClient
    /\ \E s \in {"NotReady", "Unreachable", "Error"} : Probe(k, s)
    /\ monitor' = [monitor EXCEPT ![k].silence = 0, ![k].miss = 0]
    /\ failures' = [failures EXCEPT ![k] = AtMost(@ + 1, Enough(k))]
    /\ UNCHANGED <<policy, clusterVars, outcome, crashes>>

\* Not Ready: a miss; the first one past the limit raises the alarm.
BadProbe(k, d) ==
    /\ monitor[k].at = "loop" /\ monitor[k].age = Warmup[k] /\ HasClient
    /\ \E s \in {"NotReady", "Unreachable", "Error"} : Probe(k, s)
    /\ LET m == Missed(Later(monitor[k], k, d), k)
       IN  monitor' = [monitor EXCEPT ![k] =
                          IF Alarm(m, k) THEN [m EXCEPT !.at = "alarm", !.IsTriggered = TRUE] ELSE m]
    /\ failures' = [failures EXCEPT ![k] = AtMost(@ + 1, Enough(k))]
    /\ UNCHANGED <<policy, clusterVars, outcome, crashes>>

\* The policy the monitor was started for cannot be read, or its status has a
\* package already: nothing is migrated, and IsTriggered stays.
AlarmLost(k) ==
    /\ monitor[k].at = "alarm"
    /\ IF policy[monitor[k].policy] = "empty" THEN Fault ELSE NoLoss
    /\ monitor' = [monitor EXCEPT ![k].at = "loop"]
    /\ outcome' = [outcome EXCEPT ![k] = "lost"]
    /\ UNCHANGED <<policy, clusterVars, failures, crashes>>

\* isClusterPolicyStatusEmpty: triggerMigrationNodeCP, which blocks the monitor.
Migrate(k) ==
    /\ monitor[k].at = "alarm" /\ policy[monitor[k].policy] = "empty"
    /\ monitor' = [monitor EXCEPT ![k].at = "migrating"]
    /\ outcome' = [outcome EXCEPT ![k] = "tried"]
    /\ UNCHANGED <<policy, clusterVars, failures, changes, crashes>>

\* It returns with a record in some policies of the cluster, or in none.
MigrationEnds(k) ==
    /\ monitor[k].at = "migrating"
    /\ \E done \in SUBSET {p \in Policies : policy[p] = "empty"} :
          policy' = [p \in Policies |-> IF p \in done THEN "filled" ELSE policy[p]]
    /\ monitor' = [monitor EXCEPT ![k].at = "loop"]
    /\ UNCHANGED <<clusterVars, historyVars, changes, crashes>>

------------------------------------------------------------------------------
(* The cluster, the policies and the process *)

ClusterChanges ==
    /\ Fault
    /\ \/ \E f \in Flags : up' = (up \ {f}) \cup ({f} \ up) /\ UNCHANGED <<cut, netPod>>
       \/ \E n \in Nodes : cut' = (cut \ {n}) \cup ({n} \ cut) /\ UNCHANGED <<up, netPod>>
       \/ \E n \in CPNodes :
             /\ netPod[n] \in {"pending", "running"}
             /\ \E s \in {"ended", "absent"} : netPod' = [netPod EXCEPT ![n] = s]
             /\ UNCHANGED <<up, cut>>
    /\ UNCHANGED <<policy, monitor, historyVars, crashes>>

\* The kubelet starts a net-test pod.
PodStarts(n) ==
    /\ netPod[n] = "pending"
    /\ netPod' = [netPod EXCEPT ![n] = "running"]
    /\ UNCHANGED <<policy, up, cut, monitor, historyVars, changes, crashes>>

\* A policy is created or deleted, or somebody else's transition is recorded in it.
PolicyChanges(p) ==
    /\ Fault
    /\ \E s \in {"absent", "empty", "filled"} :
          /\ s # policy[p] /\ (policy[p] = "absent" => s = "empty") /\ (policy[p] = "filled" => s = "absent")
          /\ policy' = [policy EXCEPT ![p] = s]
    /\ UNCHANGED <<clusterVars, monitor, historyVars, crashes>>

\* The registry and the monitors are in memory.
ProcessRestarts ==
    /\ crashes < MaxCrashes
    /\ crashes' = crashes + 1
    /\ monitor' = [k \in Kinds |-> Off]
    /\ outcome' = [k \in Kinds |-> "none"]
    /\ failures' = [k \in Kinds |-> 0]
    /\ UNCHANGED <<policy, clusterVars, changes>>

------------------------------------------------------------------------------

Init ==
    /\ policy = [p \in Policies |-> "empty"]
    /\ up = Flags /\ cut = {}
    /\ netPod = [n \in CPNodes |-> "absent"]
    /\ monitor = [k \in Kinds |-> Off]
    /\ outcome = [k \in Kinds |-> "none"]
    /\ failures = [k \in Kinds |-> 0]
    /\ changes = 0 /\ crashes = 0

\* Ticks of the CNI monitor are up to MaxGap seconds apart.
Gap(k) == IF k = "cni" THEN 1..MaxGap ELSE {1}

Loop(k) ==
    \/ \E d \in Gap(k) : Warming(k, d) \/ SkipProbe(k, d) \/ BadProbe(k, d)
    \/ GoodProbe(k) \/ AlarmLost(k) \/ Migrate(k)

Preparation == EnsureNetTestPods \/ EnsureNetTestPodsFails

Environment ==
    \/ ClusterChanges
    \/ \E n \in CPNodes : PodStarts(n)
    \/ \E p \in Policies : PolicyChanges(p)
    \/ ProcessRestarts

Next ==
    \/ \E k \in Kinds, p \in Policies : StartMonitor(k, p)
    \/ Preparation
    \/ \E k \in Kinds : Loop(k) \/ MigrationEnds(k)
    \/ Environment

Spec == Init /\ [][Next]_vars

\* The tickers keep firing and the scheduler runs the goroutines; nothing is
\* assumed of the kubelet, the cluster and the end of a migration.
FairSpec ==
    /\ Spec
    /\ WF_vars(Preparation)
    /\ \A k \in Kinds : WF_vars(Loop(k))

------------------------------------------------------------------------------
(* Properties *)

TypeOK ==
    /\ policy \in [Policies -> {"absent", "empty", "filled"}]
    /\ up \subseteq Flags /\ cut \subseteq Nodes
    /\ netPod \in [CPNodes -> {"absent", "pending", "running", "ended"}]
    /\ monitor \in [Kinds -> [at : {"off", "preparing", "loop", "alarm", "migrating"},
                             policy : Policies \cup {None}, age : Nat,
                             miss : 0..(MissLimit + 1), silence : 0..(TimeoutWindow + 1),
                             IsTriggered : BOOLEAN]]
    /\ \A k \in Kinds : /\ monitor[k].age <= Warmup[k]
                         /\ (monitor[k].policy = None) <=> (monitor[k].at = "off")
    /\ outcome \in [Kinds -> {"none", "tried", "lost"}]
    /\ failures \in [Kinds -> 0..(MissLimit + 1)]
    /\ changes \in 0..MaxChanges /\ crashes \in 0..MaxCrashes

\* An alarm has a cause: the control plane failed more than MissLimit probes, the
\* CNI at least one, with no good probe since; a tick without a client is no failure.
AlarmHasCause ==
    \A k \in Kinds : monitor[k].at = "alarm" => failures[k] >= Enough(k)

\* One outage raises one alarm: after a migration, and after an alarm that was
\* lost, there is none before the cluster was found Ready once.
OneAlarmPerOutage ==
    [][\A k \in Kinds :
          monitor[k].at = "loop" /\ monitor'[k].at = "alarm" => outcome[k] = "none"]_vars

\* What the monitor would find if every call were answered.
Failing(k) == Status(k, "no") # "Ready"

\* An outage that the probe can see and CAPI does not, and that lasts, is acted
\* on: a migration is tried, or the alarm was lost at the policy.
OutageIsActedOn ==
    \A k \in Kinds :
       <>[](Failing(k) /\ HasClient /\ monitor[k].at \notin {"off", "preparing"})
          => <>[](outcome[k] # "none")

\* Once the cluster stays Ready the monitor is armed for the next outage, unless
\* the migration does not return.
RecoveryRearms ==
    \A k \in Kinds :
       <>[](~Failing(k) /\ HasClient /\ monitor[k].at \in {"loop", "alarm"})
          => <>[](~monitor[k].IsTriggered)

==============================================================================
