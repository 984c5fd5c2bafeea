-------------------------- MODULE HeartbeatMonitor --------------------------
(***************************************************************************)
(* The heartbeat server of the operator (reconcilers/heartbeat): agents    *)
(* POST heartbeats, the HTTP handler stores them in memory and mirrors     *)
(* them in NodeHealth resources, and the MonitorNodes goroutine scans a    *)
(* snapshot of the store every 100 ms.  A node whose snapshot stays the    *)
(* same for more than MissLimit scans is declared failed: its workloads    *)
(* are migrated and its NodeHealth is set to Unhealthy.                    *)
(*                                                                         *)
(* Heartbeats of a node are numbered in the order they are received, which *)
(* is the order of their ReceivedAt times; 0 stands for "no entry".        *)
(***************************************************************************)
EXTENDS Naturals

CONSTANTS
    Nodes,       \* names of the nodes that run an agent
    NoNode,      \* not a node
    AwsNodes,    \* the nodes whose name contains ".compute.internal"
    MissLimit,   \* scans without a new heartbeat that are tolerated (12 in the code)
    MaxAge,      \* bound of the age counters, which only the properties read
    MaxWarmup,   \* ticks skipped after the start (5 s / 100 ms = 50 in the code)
    MaxBeats,    \* bound: heartbeats of each node
    MaxCrashes   \* bound: restarts of the operator

ASSUME NodesAssumption == NoNode \notin Nodes
ASSUME AwsAssumption == AwsNodes \subseteq Nodes
ASSUME BoundsAssumption ==
    /\ MissLimit \in Nat /\ MaxAge \in Nat /\ MaxAge > MissLimit
    /\ MaxWarmup \in Nat /\ MaxBeats \in [Nodes -> Nat] /\ MaxCrashes \in Nat

VARIABLES
    beats,      \* number of heartbeats received from each node so far
    store,      \* HeartbeatStore.data: the last heartbeat of each node, or 0
    pending,    \* heartbeats whose handler has not upserted NodeHealth yet
    health,     \* the NodeHealth resource of each node
    warmup,     \* ticks left of the warm-up period
    pc,         \* where the MonitorNodes goroutine stands
    snap,       \* the snapshot store.All() returned at the start of this scan
    todo,       \* nodes of the snapshot the scan has still to look at
    cur,        \* the node being recovered
    st,         \* MonitorNodes' state map, one NodeState per node
    age,        \* history: scans whose snapshot held the heartbeat now in store
    snapAge,    \* history: the same for the heartbeat of the current snapshot
    recovered,  \* history: <<node, heartbeat>> pairs a recovery was started for
    finished,   \* history: the pairs whose recovery has returned
    crashes     \* restarts so far

handlerVars == <<beats, store, pending>>
monitorVars == <<warmup, pc, snap, todo, cur, st>>
historyVars == <<age, snapAge, recovered, finished>>
vars == <<handlerVars, health, monitorVars, historyVars, crashes>>

\* A NodeHealth resource: absent, created with an empty status, or with a condition.
Condition == {"absent", "created", "Healthy", "Unhealthy"}

\* MissCount is unbounded in the code and only compared with the limit, so it
\* saturates one above it.  A NodeState exists from the first scan that saw the node.
NodeState == [last : Nat, triggered : BOOLEAN, miss : 0..(MissLimit + 1)]

NoState == [last |-> 0, triggered |-> FALSE, miss |-> 0]

CapTo(bound, x) == IF x > bound THEN bound ELSE x

------------------------------------------------------------------------------
(* The handler of POST /heartbeat *)

\* HeartbeatStore.Update: the entry is stamped and replaced under the lock.
Receive(n) ==
    /\ beats[n] < MaxBeats[n]
    /\ beats' = [beats EXCEPT ![n] = @ + 1]
    /\ store' = [store EXCEPT ![n] = beats[n] + 1]
    /\ age' = [age EXCEPT ![n] = 0]
    /\ pending' = [pending EXCEPT ![n] = @ \union {beats[n] + 1}]
    /\ UNCHANGED <<health, monitorVars, snapAge, recovered, finished, crashes>>

\* Seeded fault: the condition is not one of the two the server reports.
UpsertNodeHealth_Unknown(old, condition) ==
    {old, IF old = "absent" THEN "created" ELSE "Unknown"}

\* What UpsertNodeHealth may leave behind.  Get and Update are one step because
\* the resourceVersion makes an interleaved write fail; a failed call changes
\* nothing.  Create drops the status: NodeHealth has a status subresource.
UpsertNodeHealth(old, condition) ==
    {old, IF old = "absent" THEN "created" ELSE condition}

ReportHealthy(n, b) ==
    /\ b \in pending[n]
    /\ pending' = [pending EXCEPT ![n] = @ \ {b}]
    /\ \E h \in UpsertNodeHealth(health[n], "Healthy") :
          health' = [health EXCEPT ![n] = h]
    /\ UNCHANGED <<beats, store, monitorVars, historyVars, crashes>>

------------------------------------------------------------------------------
(* The MonitorNodes goroutine *)

\* A tick during the warm-up period is skipped.
WarmupTick ==
    /\ pc = "idle"
    /\ warmup > 0
    /\ warmup' = warmup - 1
    /\ UNCHANGED <<handlerVars, health, pc, snap, todo, cur, st, historyVars, crashes>>

\* A tick after it: nodes := store.All().
StartScan ==
    /\ pc = "idle"
    /\ warmup = 0
    /\ pc' = "scan"
    /\ snap' = store
    /\ todo' = {n \in Nodes : store[n] # 0}
    /\ age' = [n \in Nodes |-> CapTo(MaxAge, age[n] + 1)]
    /\ snapAge' = age'
    /\ UNCHANGED <<handlerVars, health, warmup, cur, st, recovered, finished, crashes>>

\* The NodeState the loop body works on: a new one takes the snapshot's time.
Known(s, b) == IF s.last = 0 THEN [NoState EXCEPT !.last = b] ELSE s

\* if hb.ReceivedAt.After(st.TLastHeartbeat)
IsFresh(s, b) == b > Known(s, b).last

\* st.MissCount++ and then: if !st.IsTriggered && st.MissCount > 12
DeclaresFailed(s) == ~s.triggered /\ s.miss + 1 > MissLimit

\* Seeded fault: a new heartbeat does not clear IsTriggered.
NewHeartbeat_StaysTriggered(s, b) == [s EXCEPT !.last = b, !.miss = 0]

\* Seeded fault: a new heartbeat does not clear MissCount.
NewHeartbeat_KeepsMisses(s, b) == [s EXCEPT !.last = b, !.triggered = FALSE]

NewHeartbeat(s, b) == [s EXCEPT !.last = b, !.triggered = FALSE, !.miss = 0]

\* Seeded fault: IsTriggered is never set.
Miss_NeverTriggered(s) == [s EXCEPT !.miss = CapTo(MissLimit + 1, @ + 1)]

Miss(s) ==
    [s EXCEPT !.miss = CapTo(MissLimit + 1, @ + 1),
              !.triggered = @ \/ DeclaresFailed(s)]

\* The loop body for one node of the snapshot; Go iterates the map in any order.
ScanNode(n) ==
    LET known == Known(st[n], snap[n])
    IN  /\ pc = "scan"
        /\ n \in todo
        /\ todo' = todo \ {n}
        /\ IF IsFresh(st[n], snap[n])
             THEN /\ st' = [st EXCEPT ![n] = NewHeartbeat(known, snap[n])]
                  /\ UNCHANGED <<pc, cur>>
             ELSE /\ st' = [st EXCEPT ![n] = Miss(known)]
                  /\ IF DeclaresFailed(known)
                       THEN pc' = "lookup" /\ cur' = n
                       ELSE UNCHANGED <<pc, cur>>
        /\ UNCHANGED <<handlerVars, health, warmup, snap, historyVars, crashes>>

\* Seeded fault: the resource is updated before the policies are reconciled.
LookupMachine_MarkFirst ==
    /\ pc = "lookup"
    /\ pc' = "mark"
    /\ UNCHANGED <<handlerVars, health, warmup, snap, todo, cur, st, historyVars, crashes>>

\* The CAPI machine gives the cluster name.  A failed Get is only logged and
\* leaves the name empty, so the recovery is called all the same.
LookupMachine ==
    /\ pc = "lookup"
    /\ pc' = "recover"
    /\ recovered' = recovered \union {<<cur, snap[cur]>>}
    /\ UNCHANGED <<handlerVars, health, warmup, snap, todo, cur, st,
                   age, snapAge, finished, crashes>>

\* For an AWS node the machines are listed first, and a failed List returns
\* from MonitorNodes: the goroutine ends and nothing starts it again.
MonitorExits ==
    /\ pc = "lookup"
    /\ cur \in AwsNodes
    /\ pc' = "exited"
    /\ UNCHANGED <<handlerVars, health, warmup, snap, todo, cur, st, historyVars, crashes>>

\* ReconcileClusterPoliciesForNode returns; its error is only logged.
RecoveryReturns ==
    /\ pc = "recover"
    /\ pc' = "mark"
    /\ finished' = finished \union {<<cur, snap[cur]>>}
    /\ UNCHANGED <<handlerVars, health, warmup, snap, todo, cur, st,
                   age, snapAge, recovered, crashes>>

MarkUnhealthy ==
    /\ pc = "mark"
    /\ pc' = "scan"
    /\ cur' = NoNode
    /\ \E h \in UpsertNodeHealth(health[cur], "Unhealthy") :
          health' = [health EXCEPT ![cur] = h]
    /\ UNCHANGED <<handlerVars, warmup, snap, todo, st, historyVars, crashes>>

EndScan ==
    /\ pc = "scan"
    /\ todo = {}
    /\ pc' = "idle"
    /\ UNCHANGED <<handlerVars, health, warmup, snap, todo, cur, st, historyVars, crashes>>

------------------------------------------------------------------------------

\* The operator's process dies and is started again: the store, the requests in
\* progress and the monitor's state are lost, the NodeHealth resources stay.
Restart ==
    /\ crashes < MaxCrashes
    /\ crashes' = crashes + 1
    /\ store' = [n \in Nodes |-> 0]
    /\ pending' = [n \in Nodes |-> {}]
    /\ warmup' = MaxWarmup
    /\ pc' = "idle"
    /\ snap' = [n \in Nodes |-> 0]
    /\ todo' = {}
    /\ cur' = NoNode
    /\ st' = [n \in Nodes |-> NoState]
    /\ age' = [n \in Nodes |-> 0]
    /\ snapAge' = [n \in Nodes |-> 0]
    /\ UNCHANGED <<beats, health, recovered, finished>>

Init ==
    /\ beats = [n \in Nodes |-> 0]
    /\ store = [n \in Nodes |-> 0]
    /\ pending = [n \in Nodes |-> {}]
    /\ health = [n \in Nodes |-> "absent"]
    /\ warmup = MaxWarmup
    /\ pc = "idle"
    /\ snap = [n \in Nodes |-> 0]
    /\ todo = {}
    /\ cur = NoNode
    /\ st = [n \in Nodes |-> NoState]
    /\ age = [n \in Nodes |-> 0]
    /\ snapAge = [n \in Nodes |-> 0]
    /\ recovered = {}
    /\ finished = {}
    /\ crashes = 0

Handler == \E n \in Nodes : Receive(n) \/ \E b \in pending[n] : ReportHealthy(n, b)

Monitor ==
    \/ WarmupTick
    \/ StartScan
    \/ \E n \in Nodes : ScanNode(n)
    \/ LookupMachine
    \/ MonitorExits
    \/ RecoveryReturns
    \/ MarkUnhealthy
    \/ EndScan

Next == Handler \/ Monitor \/ Restart

Spec == Init /\ [][Next]_vars

\* The ticker keeps firing and every call of the loop returns (the clients it
\* uses give up on a dead connection), so the goroutine keeps taking steps.
FairSpec == Spec /\ WF_vars(Monitor)

------------------------------------------------------------------------------
(* Properties *)

TypeOK ==
    /\ beats \in [Nodes -> Nat]
    /\ store \in [Nodes -> Nat]
    /\ pending \in [Nodes -> SUBSET Nat]
    /\ health \in [Nodes -> Condition]
    /\ warmup \in 0..MaxWarmup
    /\ pc \in {"idle", "scan", "lookup", "recover", "mark", "exited"}
    /\ snap \in [Nodes -> Nat]
    /\ todo \subseteq Nodes
    /\ cur \in Nodes \union {NoNode}
    /\ pc \in {"lookup", "recover", "mark"} => cur \in Nodes
    /\ st \in [Nodes -> NodeState]
    /\ age \in [Nodes -> 0..MaxAge]
    /\ snapAge \in [Nodes -> 0..MaxAge]
    /\ recovered \subseteq Nodes \X Nat
    /\ finished \subseteq recovered
    /\ crashes \in 0..MaxCrashes

\* A node is recovered only if the heartbeat the monitor acts on was already in
\* the store, and the newest there, for more than MissLimit snapshots: no
\* interleaving of handlers, scans, a blocked recovery of another node and
\* restarts makes MonitorNodes count a miss it did not see (MissCount > 12).
SilenceBeforeRecovery ==
    pc \in {"lookup", "recover", "mark"} => snapAge[cur] > MissLimit

\* One silence of a node starts at most one recovery, also over restarts of the
\* operator: IsTriggered stays set until a newer heartbeat is seen.
OneRecoveryPerSilence ==
    [][\A n \in Nodes :
          (pc = "lookup" /\ pc' = "recover" /\ cur = n)
              => <<n, snap[n]>> \notin recovered]_vars

\* NodeHealth says Unhealthy only after the migration of the node's workloads
\* was attempted and returned (the order of lines 331 and 340).
UnhealthyAfterRecovery ==
    \A n \in Nodes : health[n] = "Unhealthy" => \E b \in 1..beats[n] : <<n, b>> \in finished

\* A node that stops beating is recovered for its last heartbeat, unless the
\* operator restarts (and forgets the node) or the goroutine has exited.
SilentNodeIsRecovered ==
    \A n \in Nodes : \A b \in 1..MaxBeats[n] :
        (store[n] = b) ~> (store[n] # b \/ <<n, b>> \in recovered \/ pc = "exited")

==============================================================================
