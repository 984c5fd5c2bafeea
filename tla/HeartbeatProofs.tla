--------------------------- MODULE HeartbeatProofs ---------------------------
(***************************************************************************)
(* Proofs about HeartbeatMonitor, for any set of nodes and any bounds.     *)
(***************************************************************************)
EXTENDS HeartbeatMonitor, TLAPS

\* The four numbers the code keeps of a node's last heartbeat lag one behind the other.
Ordered ==
    \A n \in Nodes : st[n].last <= snap[n] /\ snap[n] <= store[n] /\ store[n] <= beats[n]

\* A scan looks at the nodes of its snapshot only, and ends when none is left.
ScanBounds ==
    /\ \A n \in todo : snap[n] # 0
    /\ pc = "idle" => todo = {}

\* Both age counters speak of the same heartbeat while no newer one is stored.
AgesAgree == \A n \in Nodes : store[n] = snap[n] => age[n] = snapAge[n]

\* MissCount never exceeds the snapshots that held the same heartbeat; for a
\* node the scan has still to visit there is one snapshot more than misses.
MissesSeen ==
    /\ \A n \in Nodes : st[n].last = 0 => st[n].miss = 0
    /\ \A n \in Nodes : n \notin todo /\ st[n].last = snap[n] => st[n].miss <= snapAge[n]
    /\ \A n \in todo : st[n].last \in {0, snap[n]}
          => st[n].miss < snapAge[n] \/ snapAge[n] = MaxAge

\* A recovery was started for heartbeats the monitor's state has reached, with
\* IsTriggered set for the current one; after a restart, for older ones only.
RecoveredBefore(n, b) ==
    /\ b <= beats[n]
    /\ st[n].last # 0 => b <= st[n].last /\ (b = st[n].last => st[n].triggered)
    /\ st[n].last = 0 => (store[n] = 0 \/ b < store[n]) /\ (snap[n] = 0 \/ b < snap[n])

Recoveries == \A q \in recovered : RecoveredBefore(q[1], q[2])

\* What is known while a recovery is under way.
InRecovery ==
    /\ pc \in {"lookup", "recover", "mark"} =>
          /\ snapAge[cur] > MissLimit
          /\ snap[cur] # 0 /\ st[cur].last = snap[cur] /\ st[cur].triggered
    /\ pc = "lookup" => <<cur, snap[cur]>> \notin recovered
    /\ pc = "recover" => <<cur, snap[cur]>> \in recovered
    /\ pc = "mark" => <<cur, snap[cur]>> \in finished

IndInv ==
    /\ TypeOK
    /\ Ordered /\ ScanBounds /\ AgesAgree /\ MissesSeen
    /\ Recoveries /\ InRecovery /\ UnhealthyAfterRecovery

------------------------------------------------------------------------------
(* The operators on a NodeState *)

\* The loop body keeps a NodeState a NodeState.
LEMMA NodeStateOps ==
    ASSUME NEW s \in NodeState, NEW b \in Nat
    PROVE  /\ Known(s, b) \in NodeState
           /\ NewHeartbeat(s, b) \in NodeState
           /\ Miss(s) \in NodeState
<1> USE BoundsAssumption
<1>0. 0 \in 0..(MissLimit + 1) /\ FALSE \in BOOLEAN
  OBVIOUS
<1>1. Known(s, b) \in NodeState
  BY <1>0 DEF NodeState, Known, NoState
<1>2. NewHeartbeat(s, b) \in NodeState
  BY <1>0 DEF NodeState, NewHeartbeat
<1>3. CapTo(MissLimit + 1, s.miss + 1) \in 0..(MissLimit + 1)
  BY DEF NodeState, CapTo
<1>4. (s.triggered \/ DeclaresFailed(s)) \in BOOLEAN
  OBVIOUS
<1>5. Miss(s) \in NodeState
  BY <1>3, <1>4 DEF NodeState, Miss
<1> QED
  BY <1>1, <1>2, <1>5

\* A node the monitor has not seen counts as seen with the snapshot's heartbeat.
LEMMA KnownFields ==
    ASSUME NEW s \in NodeState, NEW b \in Nat
    PROVE  /\ s.last = 0 => Known(s, b).last = b /\ Known(s, b).miss = 0
                             /\ ~Known(s, b).triggered
           /\ s.last # 0 => Known(s, b) = s
  BY DEF NodeState, Known, NoState

------------------------------------------------------------------------------
(* Type correctness *)

\* Type correctness at the start.
LEMMA InitType == Init => TypeOK
  BY NodesAssumption, BoundsAssumption DEF Init, TypeOK, Condition, NodeState, NoState

\* An upsert leaves one of the conditions.
LEMMA UpsertType ==
    ASSUME NEW h \in Condition, NEW c \in {"Healthy", "Unhealthy"}
    PROVE  UpsertNodeHealth(h, c) \subseteq Condition
  BY DEF UpsertNodeHealth, Condition

\* Type correctness: every step.
LEMMA TypeStep == TypeOK /\ InRecovery /\ [Next]_vars => TypeOK'
<1> SUFFICES ASSUME TypeOK, InRecovery, [Next]_vars PROVE TypeOK'
  OBVIOUS
<1> USE BoundsAssumption, NodesAssumption
<1>1. ASSUME NEW n \in Nodes, Receive(n) PROVE TypeOK'
  BY <1>1 DEF Receive, TypeOK, monitorVars
<1>2. ASSUME NEW n \in Nodes, NEW b \in pending[n], ReportHealthy(n, b) PROVE TypeOK'
  <2>1. PICK h \in UpsertNodeHealth(health[n], "Healthy") : health' = [health EXCEPT ![n] = h]
    BY <1>2 DEF ReportHealthy
  <2>2. h \in Condition
    BY <2>1, UpsertType DEF TypeOK
  <2> QED
    BY <1>2, <2>1, <2>2 DEF ReportHealthy, TypeOK, monitorVars, historyVars
<1>3. ASSUME WarmupTick PROVE TypeOK'
  BY <1>3 DEF WarmupTick, TypeOK, handlerVars, historyVars
<1>4. ASSUME StartScan PROVE TypeOK'
  BY <1>4 DEF StartScan, TypeOK, handlerVars, CapTo
<1>5. ASSUME NEW n \in Nodes, ScanNode(n) PROVE TypeOK'
  <2> DEFINE known == Known(st[n], snap[n])
  <2>1. st[n] \in NodeState /\ snap[n] \in Nat
    BY DEF TypeOK
  <2>2. known \in NodeState
    BY <2>1, NodeStateOps
  <2>3. NewHeartbeat(known, snap[n]) \in NodeState /\ Miss(known) \in NodeState
    BY <2>1, <2>2, NodeStateOps
  <2>4. st' \in [Nodes -> NodeState]
    BY <1>5, <2>3 DEF ScanNode, TypeOK
  <2> QED
    BY <1>5, <2>4 DEF ScanNode, TypeOK, handlerVars, historyVars
<1>6. ASSUME LookupMachine PROVE TypeOK'
  BY <1>6 DEF LookupMachine, TypeOK, handlerVars
<1>7. ASSUME MonitorExits PROVE TypeOK'
  BY <1>7 DEF MonitorExits, TypeOK, handlerVars, historyVars
<1>8. ASSUME RecoveryReturns PROVE TypeOK'
  BY <1>8 DEF RecoveryReturns, TypeOK, InRecovery, handlerVars
<1>9. ASSUME MarkUnhealthy PROVE TypeOK'
  <2>1. cur \in Nodes
    BY <1>9 DEF MarkUnhealthy, TypeOK
  <2>2. PICK h \in UpsertNodeHealth(health[cur], "Unhealthy") :
                health' = [health EXCEPT ![cur] = h]
    BY <1>9 DEF MarkUnhealthy
  <2>3. h \in Condition
    BY <2>1, <2>2, UpsertType DEF TypeOK
  <2> QED
    BY <1>9, <2>1, <2>2, <2>3 DEF MarkUnhealthy, TypeOK, handlerVars, historyVars
<1>10. ASSUME EndScan PROVE TypeOK'
  BY <1>10 DEF EndScan, TypeOK, handlerVars, historyVars
<1>11. ASSUME Restart PROVE TypeOK'
  BY <1>11 DEF Restart, TypeOK, NodeState, NoState
<1>12. ASSUME UNCHANGED vars PROVE TypeOK'
  BY <1>12 DEF vars, TypeOK, handlerVars, monitorVars, historyVars
<1> QED
  BY <1>1, <1>2, <1>3, <1>4, <1>5, <1>6, <1>7, <1>8, <1>9, <1>10, <1>11, <1>12
     DEF Next, Handler, Monitor
------------------------------------------------------------------------------
(* The inductive invariant *)

\* The invariant holds at the start.
LEMMA InitInd == Init => IndInv
<1> SUFFICES ASSUME Init PROVE IndInv
  OBVIOUS
<1>1. TypeOK
  BY InitType
<1>2. Ordered /\ ScanBounds /\ AgesAgree /\ MissesSeen
  BY BoundsAssumption DEF Init, Ordered, ScanBounds, AgesAgree, MissesSeen, NoState
<1>3. Recoveries /\ InRecovery /\ UnhealthyAfterRecovery
  BY DEF Init, Recoveries, InRecovery, UnhealthyAfterRecovery
<1> QED
  BY <1>1, <1>2, <1>3 DEF IndInv

\* A NodeHealth becomes Unhealthy only by an upsert of that condition.
LEMMA UpsertHealthy ==
    ASSUME NEW h, NEW g \in UpsertNodeHealth(h, "Healthy"), g = "Unhealthy"
    PROVE  h = "Unhealthy"
  BY DEF UpsertNodeHealth

\* What the loop body does to the state of the node it visits: it catches up
\* with the snapshot, and either starts from zero misses or adds one to those
\* counted for this very heartbeat.
LEMMA VisitedState ==
    ASSUME IndInv, NEW n \in Nodes, ScanNode(n)
    PROVE  LET known == Known(st[n], snap[n])
               next  == IF IsFresh(st[n], snap[n]) THEN NewHeartbeat(known, snap[n])
                        ELSE Miss(known)
           IN  /\ st' = [st EXCEPT ![n] = next]
               /\ next.last = snap[n]
               /\ IF IsFresh(st[n], snap[n])
                    THEN /\ next.miss = 0 /\ ~next.triggered
                         /\ st[n].last # 0 /\ st[n].last < snap[n]
                    ELSE /\ next.miss \in 0..(MissLimit + 1) /\ next.miss <= known.miss + 1
                         /\ next.triggered <=> (known.triggered \/ DeclaresFailed(known))
                         /\ st[n].last \in {0, snap[n]}
<1> DEFINE known == Known(st[n], snap[n])
           next == IF IsFresh(st[n], snap[n]) THEN NewHeartbeat(known, snap[n]) ELSE Miss(known)
<1>1. st[n] \in NodeState /\ snap[n] \in Nat /\ snap[n] # 0 /\ st[n].last <= snap[n]
  BY DEF IndInv, TypeOK, Ordered, ScanBounds, ScanNode
<1>2. /\ known \in NodeState
      /\ st[n].last = 0 => known.last = snap[n] /\ known.miss = 0 /\ ~known.triggered
      /\ st[n].last # 0 => known = st[n]
  BY <1>1, NodeStateOps, KnownFields
<1>3. st' = [st EXCEPT ![n] = next]
  BY DEF ScanNode
<1>4. CASE IsFresh(st[n], snap[n])
  <2>1. next.last = snap[n] /\ next.miss = 0 /\ ~next.triggered
    BY <1>2, <1>4 DEF NewHeartbeat, NodeState
  <2>2. st[n].last # 0 /\ st[n].last < snap[n]
    BY <1>1, <1>2, <1>4 DEF IsFresh, NodeState
  <2> QED
    BY <1>3, <1>4, <2>1, <2>2
<1>5. CASE ~IsFresh(st[n], snap[n])
  <2>1. known.last = snap[n] /\ st[n].last \in {0, snap[n]}
    BY <1>1, <1>2, <1>5 DEF IsFresh, NodeState
  <2>2. next.last = known.last /\ next.miss = CapTo(MissLimit + 1, known.miss + 1)
    BY <1>2, <1>5 DEF Miss, NodeState
  <2>3. next.triggered = (known.triggered \/ DeclaresFailed(known))
    BY <1>2, <1>5 DEF Miss, NodeState
  <2>4. next.miss \in 0..(MissLimit + 1) /\ next.miss <= known.miss + 1
    BY <1>2, <2>2, BoundsAssumption DEF CapTo, NodeState
  <2> QED
    BY <1>3, <1>5, <2>1, <2>2, <2>3, <2>4
<1> QED
  BY <1>4, <1>5

\* Every step of handlers, monitor and process keeps the invariant.
LEMMA IndStep == IndInv /\ [Next]_vars => IndInv'
<1> SUFFICES ASSUME IndInv, [Next]_vars PROVE IndInv'
  OBVIOUS
<1> USE BoundsAssumption, NodesAssumption
<1>0. TypeOK /\ TypeOK'
  BY TypeStep DEF IndInv
<1>1. ASSUME NEW n \in Nodes, Receive(n) PROVE IndInv'
  <2>1. Ordered' /\ ScanBounds' /\ MissesSeen' /\ InRecovery'
    BY <1>0, <1>1 DEF Receive, IndInv, TypeOK, NodeState, Ordered, ScanBounds, MissesSeen,
                      InRecovery, monitorVars
  <2>2. AgesAgree'
    BY <1>0, <1>1 DEF Receive, IndInv, TypeOK, AgesAgree, Ordered, monitorVars
  <2>3. Recoveries'
    BY <1>0, <1>1 DEF Receive, IndInv, TypeOK, NodeState, Recoveries, RecoveredBefore, monitorVars
  <2>4. UnhealthyAfterRecovery'
    BY <1>0, <1>1 DEF Receive, IndInv, TypeOK, UnhealthyAfterRecovery
  <2> QED
    BY <1>0, <2>1, <2>2, <2>3, <2>4 DEF IndInv
<1>2. ASSUME NEW n \in Nodes, NEW b \in pending[n], ReportHealthy(n, b) PROVE IndInv'
  <2>1. UNCHANGED <<beats, store, monitorVars, historyVars, crashes>>
    BY <1>2 DEF ReportHealthy
  <2>2. Ordered' /\ ScanBounds' /\ AgesAgree' /\ MissesSeen' /\ InRecovery'
    BY <2>1 DEF IndInv, Ordered, ScanBounds, AgesAgree, MissesSeen, InRecovery,
                monitorVars, historyVars
  <2>3. Recoveries'
    BY <2>1 DEF IndInv, Recoveries, RecoveredBefore, monitorVars, historyVars
  <2>4. UnhealthyAfterRecovery'
    <3>1. PICK h \in UpsertNodeHealth(health[n], "Healthy") : health' = [health EXCEPT ![n] = h]
      BY <1>2 DEF ReportHealthy
    <3>2. h = "Unhealthy" => health[n] = "Unhealthy"
      BY UpsertHealthy
    <3> QED
      BY <1>0, <2>1, <3>1, <3>2 DEF IndInv, TypeOK, UnhealthyAfterRecovery, historyVars
  <2> QED
    BY <1>0, <2>2, <2>3, <2>4 DEF IndInv
<1>3. ASSUME WarmupTick PROVE IndInv'
  BY <1>0, <1>3 DEF WarmupTick, IndInv, Ordered, ScanBounds, AgesAgree, MissesSeen, Recoveries,
                    RecoveredBefore, InRecovery, UnhealthyAfterRecovery, handlerVars, historyVars
<1>4. ASSUME StartScan PROVE IndInv'
  <2>1. /\ pc = "idle" /\ pc' = "scan" /\ snap' = store /\ todo' = {n \in Nodes : store[n] # 0}
        /\ age' = [n \in Nodes |-> CapTo(MaxAge, age[n] + 1)] /\ snapAge' = age'
        /\ UNCHANGED <<beats, store, health, st, recovered, finished>>
    BY <1>4 DEF StartScan, handlerVars
  <2>2. Ordered' /\ ScanBounds' /\ AgesAgree' /\ InRecovery'
    BY <1>0, <2>1 DEF IndInv, TypeOK, NodeState, Ordered, ScanBounds, AgesAgree, InRecovery
  <2>3. MissesSeen'
    <3>1. ASSUME NEW n \in Nodes, st[n].last = store[n] PROVE st[n].miss <= age[n]
      <4>1. snap[n] = store[n]
        BY <1>0, <3>1 DEF IndInv, TypeOK, NodeState, Ordered
      <4>2. age[n] = snapAge[n] /\ n \notin todo
        BY <2>1, <4>1 DEF IndInv, AgesAgree, ScanBounds
      <4> QED
        BY <3>1, <4>1, <4>2 DEF IndInv, MissesSeen
    <3>2. \A n \in Nodes : age'[n] = MaxAge \/ age'[n] = age[n] + 1
      BY <1>0, <2>1 DEF TypeOK, CapTo
    <3>3. \A n \in Nodes : st[n].last = 0 => st[n].miss = 0
      BY DEF IndInv, MissesSeen
    <3> QED
      BY <1>0, <2>1, <3>1, <3>2, <3>3 DEF TypeOK, NodeState, MissesSeen
  <2>4. Recoveries'
    BY <1>0, <2>1 DEF IndInv, TypeOK, Recoveries, RecoveredBefore
  <2>5. UnhealthyAfterRecovery'
    BY <2>1 DEF IndInv, UnhealthyAfterRecovery
  <2> QED
    BY <1>0, <2>2, <2>3, <2>4, <2>5 DEF IndInv
<1>5. ASSUME NEW n \in Nodes, ScanNode(n) PROVE IndInv'
  <2> DEFINE known == Known(st[n], snap[n])
             next == IF IsFresh(st[n], snap[n]) THEN NewHeartbeat(known, snap[n]) ELSE Miss(known)
  <2>1. /\ pc = "scan" /\ n \in todo /\ todo' = todo \ {n}
        /\ UNCHANGED <<beats, store, snap, age, snapAge, recovered, finished, health>>
    BY <1>5 DEF ScanNode, handlerVars, historyVars
  <2>2. /\ st' = [st EXCEPT ![n] = next] /\ next.last = snap[n]
        /\ IF IsFresh(st[n], snap[n])
             THEN /\ next.miss = 0 /\ ~next.triggered
                  /\ st[n].last # 0 /\ st[n].last < snap[n]
             ELSE /\ next.miss \in 0..(MissLimit + 1) /\ next.miss <= known.miss + 1
                  /\ next.triggered <=> (known.triggered \/ DeclaresFailed(known))
                  /\ st[n].last \in {0, snap[n]}
    BY <1>5, VisitedState
  <2>3. /\ known \in NodeState
        /\ st[n].last = 0 => known.last = snap[n] /\ known.miss = 0 /\ ~known.triggered
        /\ st[n].last # 0 => known = st[n]
    BY <1>0, NodeStateOps, KnownFields DEF TypeOK
  <2>4. snap[n] # 0 /\ snap[n] \in Nat /\ st[n] \in NodeState
    BY <1>0, <2>1 DEF IndInv, ScanBounds, TypeOK
  <2> HIDE DEF known, next
  <2>5. Ordered' /\ AgesAgree' /\ UnhealthyAfterRecovery'
    BY <1>0, <2>1, <2>2 DEF IndInv, TypeOK, Ordered, AgesAgree, UnhealthyAfterRecovery
  <2>6. ScanBounds'
    BY <1>5, <2>1 DEF IndInv, ScanBounds, ScanNode
  <2>7. st[n].last \in {0, snap[n]} =>
           /\ st[n].miss = known.miss
           /\ known.miss < snapAge[n] \/ snapAge[n] = MaxAge
    BY <2>1, <2>3 DEF IndInv, MissesSeen
  <2>8. MissesSeen'
    <3>1. next.miss <= snapAge[n]
      BY <1>0, <2>2, <2>3, <2>7 DEF TypeOK, NodeState
    <3> QED
      BY <1>0, <2>1, <2>2, <2>4, <3>1 DEF IndInv, TypeOK, NodeState, MissesSeen
  <2>9. Recoveries'
    <3>1. ASSUME NEW q \in recovered, q[1] = n
          PROVE q[2] <= snap[n] /\ (q[2] = snap[n] => next.triggered)
      BY <1>0, <2>2, <2>3, <2>4, <3>1 DEF IndInv, TypeOK, NodeState, Recoveries, RecoveredBefore
    <3> QED
      BY <1>0, <2>1, <2>2, <2>4, <3>1 DEF IndInv, TypeOK, NodeState, Recoveries, RecoveredBefore
  <2>10. InRecovery'
    <3>1. CASE ~IsFresh(st[n], snap[n]) /\ DeclaresFailed(known)
      <4>1. pc' = "lookup" /\ cur' = n
        BY <1>5, <3>1 DEF ScanNode, known
      <4>2. next.triggered /\ st'[n] = next
        BY <1>0, <2>2, <3>1 DEF TypeOK
      <4>3. snapAge[n] > MissLimit
        BY <1>0, <2>2, <2>3, <2>7, <3>1 DEF DeclaresFailed, TypeOK, NodeState
      <4>4. <<n, snap[n]>> \notin recovered
        <5> SUFFICES ASSUME <<n, snap[n]>> \in recovered PROVE FALSE
          OBVIOUS
        <5>1. RecoveredBefore(n, snap[n])
          BY DEF IndInv, Recoveries
        <5> QED
          BY <2>2, <2>3, <2>4, <3>1, <5>1 DEF RecoveredBefore, DeclaresFailed
      <4> QED
        BY <2>1, <2>2, <2>4, <4>1, <4>2, <4>3, <4>4 DEF InRecovery
    <3>2. CASE ~(~IsFresh(st[n], snap[n]) /\ DeclaresFailed(known))
      <4>1. pc' = "scan"
        BY <1>5, <2>1, <3>2 DEF ScanNode, known
      <4> QED
        BY <4>1 DEF InRecovery
    <3> QED
      BY <3>1, <3>2
  <2> QED
    BY <1>0, <2>5, <2>6, <2>8, <2>9, <2>10 DEF IndInv
<1>6. ASSUME LookupMachine PROVE IndInv'
  <2>1. /\ pc = "lookup" /\ pc' = "recover" /\ cur \in Nodes
        /\ recovered' = recovered \union {<<cur, snap[cur]>>}
        /\ UNCHANGED <<beats, store, health, snap, todo, cur, st, age, snapAge, finished>>
    BY <1>0, <1>6 DEF LookupMachine, TypeOK, handlerVars
  <2>2. Ordered' /\ ScanBounds' /\ AgesAgree' /\ MissesSeen' /\ InRecovery'
    BY <2>1 DEF IndInv, Ordered, ScanBounds, AgesAgree, MissesSeen, InRecovery
  <2>3. RecoveredBefore(cur, snap[cur])
    BY <1>0, <2>1 DEF IndInv, TypeOK, NodeState, Ordered, InRecovery, RecoveredBefore
  <2>4. Recoveries'
    BY <2>1, <2>3 DEF IndInv, Recoveries, RecoveredBefore
  <2>5. UnhealthyAfterRecovery'
    BY <2>1 DEF IndInv, UnhealthyAfterRecovery
  <2> QED
    BY <1>0, <2>2, <2>4, <2>5 DEF IndInv
<1>7. ASSUME MonitorExits PROVE IndInv'
  BY <1>0, <1>7 DEF MonitorExits, IndInv, Ordered, ScanBounds, AgesAgree, MissesSeen, Recoveries,
                    RecoveredBefore, InRecovery, UnhealthyAfterRecovery, handlerVars, historyVars
<1>8. ASSUME RecoveryReturns PROVE IndInv'
  <2>1. /\ pc = "recover" /\ pc' = "mark"
        /\ finished' = finished \union {<<cur, snap[cur]>>}
        /\ UNCHANGED <<beats, store, health, snap, todo, cur, st, age, snapAge, recovered>>
    BY <1>8 DEF RecoveryReturns, handlerVars
  <2>2. Ordered' /\ ScanBounds' /\ AgesAgree' /\ MissesSeen' /\ InRecovery'
    BY <2>1 DEF IndInv, Ordered, ScanBounds, AgesAgree, MissesSeen, InRecovery
  <2>3. Recoveries' /\ UnhealthyAfterRecovery'
    BY <2>1 DEF IndInv, Recoveries, RecoveredBefore, UnhealthyAfterRecovery
  <2> QED
    BY <1>0, <2>2, <2>3 DEF IndInv
<1>9. ASSUME MarkUnhealthy PROVE IndInv'
  <2>1. /\ pc = "mark" /\ pc' = "scan" /\ cur \in Nodes
        /\ UNCHANGED <<beats, store, snap, todo, st, age, snapAge, recovered, finished>>
    BY <1>0, <1>9 DEF MarkUnhealthy, TypeOK, handlerVars, historyVars
  <2>2. Ordered' /\ ScanBounds' /\ AgesAgree' /\ MissesSeen' /\ InRecovery' /\ Recoveries'
    BY <2>1 DEF IndInv, Ordered, ScanBounds, AgesAgree, MissesSeen, InRecovery,
                Recoveries, RecoveredBefore
  <2>3. <<cur, snap[cur]>> \in finished /\ snap[cur] \in 1..beats[cur]
    BY <1>0, <2>1 DEF IndInv, TypeOK, InRecovery, Ordered
  <2>4. UnhealthyAfterRecovery'
    <3>1. \A n \in Nodes : n # cur => health'[n] = health[n]
      BY <1>0, <1>9 DEF MarkUnhealthy, TypeOK
    <3> QED
      BY <2>1, <2>3, <3>1 DEF IndInv, UnhealthyAfterRecovery
  <2> QED
    BY <1>0, <2>2, <2>4 DEF IndInv
<1>10. ASSUME EndScan PROVE IndInv'
  BY <1>0, <1>10 DEF EndScan, IndInv, Ordered, ScanBounds, AgesAgree, MissesSeen, Recoveries,
                     RecoveredBefore, InRecovery, UnhealthyAfterRecovery, handlerVars, historyVars
<1>11. ASSUME Restart PROVE IndInv'
  <2>1. Ordered' /\ ScanBounds' /\ AgesAgree' /\ MissesSeen' /\ InRecovery'
    BY <1>0, <1>11 DEF Restart, TypeOK, Ordered, ScanBounds, AgesAgree, MissesSeen, InRecovery, NoState
  <2>2. Recoveries'
    BY <1>0, <1>11 DEF Restart, IndInv, TypeOK, Recoveries, RecoveredBefore, NoState
  <2>3. UnhealthyAfterRecovery'
    BY <1>11 DEF Restart, IndInv, UnhealthyAfterRecovery
  <2> QED
    BY <1>0, <2>1, <2>2, <2>3 DEF IndInv
<1>12. ASSUME UNCHANGED vars PROVE IndInv'
  BY <1>0, <1>12 DEF vars, IndInv, Ordered, ScanBounds, AgesAgree, MissesSeen, Recoveries,
                     RecoveredBefore, InRecovery, UnhealthyAfterRecovery,
                     handlerVars, monitorVars, historyVars
<1> QED
  BY <1>1, <1>2, <1>3, <1>4, <1>5, <1>6, <1>7, <1>8, <1>9, <1>10, <1>11, <1>12
     DEF Next, Handler, Monitor

------------------------------------------------------------------------------
(* Theorems *)

\* The inductive invariant holds in every reachable state.
THEOREM Inductive == Spec => []IndInv
<1>1. Init => IndInv
  BY InitInd
<1>2. IndInv /\ [Next]_vars => IndInv'
  BY IndStep
<1> QED
  BY <1>1, <1>2, PTL DEF Spec

\* All of the server's state keeps its type, for any nodes and any limits.
THEOREM TypeCorrect == Spec => []TypeOK
<1>1. IndInv => TypeOK
  BY DEF IndInv
<1> QED
  BY <1>1, Inductive, PTL

\* MonitorNodes never recovers a node before the heartbeat it acts on has been
\* the newest for more than MissLimit of its snapshots.
THEOREM SilenceIsSeen == Spec => []SilenceBeforeRecovery
<1>1. IndInv => SilenceBeforeRecovery
  BY DEF IndInv, InRecovery, SilenceBeforeRecovery
<1> QED
  BY <1>1, Inductive, PTL

\* No silence of a node is answered by a second recovery, whatever the handlers
\* store meanwhile and however often the operator restarts.
THEOREM RecoveredOnce == Spec => OneRecoveryPerSilence
<1>1. IndInv /\ [Next]_vars =>
        [\A n \in Nodes : (pc = "lookup" /\ pc' = "recover" /\ cur = n)
                              => <<n, snap[n]>> \notin recovered]_vars
  BY DEF IndInv, InRecovery
<1> QED
  BY <1>1, Inductive, PTL DEF Spec, OneRecoveryPerSilence

\* NodeHealth says Unhealthy only of nodes whose recovery has returned.
THEOREM UnhealthyIsLate == Spec => []UnhealthyAfterRecovery
<1>1. IndInv => UnhealthyAfterRecovery
  BY DEF IndInv
<1> QED
  BY <1>1, Inductive, PTL

==============================================================================
