-------------------------- MODULE TransitionProofs --------------------------
(***************************************************************************)
(* Proofs about Transition, for any workloads, packages, triggers and      *)
(* bounds.                                                                 *)
(***************************************************************************)
EXTENDS Transition, TLAPS

USE DEF Pkg

------------------------------------------------------------------------------
(* Type correctness *)

\* The parts of a task.
LEMMA TaskParts ==
    ASSUME NEW t \in Tasks
    PROVE  t[1] \in Actors /\ t[2] \in Workloads /\ Pkg(t) \in Packages
  BY PackagesAssumption DEF Tasks

\* The initial values have their types.
LEMMA NoLocalType == NoPolicy \in Policy /\ NoLocal \in Local
  BY DEF NoPolicy, NoLocal, Policy, Local, Outcome

\* A goroutine that returns leaves well-typed stages and locals.
LEMMA FinishType ==
    ASSUME TypeOK, NEW t \in Tasks, Finish(t)
    PROVE  pc' \in [Tasks -> Stage] /\ loc' \in [Tasks -> Local]
  BY NoLocalType DEF TypeOK, Finish, Goto, SetLocal, Stage

\* So does one that goes on to record its outcome.
LEMMA ConcludeType ==
    ASSUME TypeOK, NEW t \in Tasks, NEW stage \in Stage, NEW c \in Outcome,
           Conclude(t, stage, c)
    PROVE  pc' \in [Tasks -> Stage] /\ loc' \in [Tasks -> Local]
<1>1. [loc[t] EXCEPT !.condition = c] \in Local
  <2>1. loc[t] \in Local
    BY DEF TypeOK
  <2> QED
    BY <2>1 DEF Local
<1> QED
  BY <1>1 DEF TypeOK, Conclude, Goto, SetLocal

\* Type correctness at the start.
LEMMA InitType == Init => TypeOK
  BY NoLocalType, BoundsAssumption DEF Init, TypeOK, Stage

\* Type correctness: the steps of an invocation.
LEMMA InvocationType ==
    ASSUME TypeOK, NEW a \in Actors, Invocation(a)
    PROVE  TypeOK'
<1> USE BoundsAssumption DEF apiVars, taskVars, repoVars, extVars
<1>1. ASSUME LoadPolicy(a) PROVE TypeOK'
  BY <1>1, PackagesAssumption DEF LoadPolicy, TypeOK
<1>2. ASSUME InvocationEnds(a) PROVE TypeOK'
  BY <1>2, NoLocalType DEF InvocationEnds, TypeOK
<1>3. ASSUME NEW w \in Workloads, Skip(a, w) PROVE TypeOK'
  BY <1>3 DEF Skip, TypeOK
<1>4. ASSUME NEW w \in Workloads, StartTask(a, w) PROVE TypeOK'
  BY <1>4 DEF StartTask, Goto, TypeOK, Tasks, Stage
<1>5. ASSUME NEW p \in Packages, CreateCheckpoints(a, p) PROVE TypeOK'
  <2>1. ckpt' \in [Workloads -> {"none", "created", "image"}] /\ faults' \in 0..MaxFaults
    <3>1. PICK made \in SUBSET Workloads :
             /\ ckpt' = [w \in Workloads |-> IF w \in made THEN "created" ELSE ckpt[w]]
             /\ UNCHANGED faults \/ Fault
      BY <1>5 DEF CreateCheckpoints
    <3> QED
      BY <3>1 DEF TypeOK, Fault
  <2> QED
    BY <1>5, <2>1 DEF CreateCheckpoints, TypeOK
<1>6. ASSUME NEW p \in Packages, ListCheckpoints(a, p) PROVE TypeOK'
  <2>1. Listed(p) \subseteq Workloads
    BY DEF Listed
  <2>2. todo' \in [Actors -> SUBSET Workloads] /\ faults' \in 0..MaxFaults
    BY <1>6, <2>1 DEF ListCheckpoints, Fault, TypeOK
  <2> QED
    BY <1>6, <2>2 DEF ListCheckpoints, TypeOK
<1>7. ASSUME PolicyNotFound(a) PROVE TypeOK'
  BY <1>7 DEF PolicyNotFound, Fault, TypeOK
<1>8. ASSUME a = Rec, ListPods PROVE TypeOK'
  BY <1>8 DEF ListPods, Fault, TypeOK
<1>9. ASSUME NEW w \in Workloads, AcquireSlot(a, w) PROVE TypeOK'
  BY <1>9 DEF AcquireSlot, Goto, TypeOK, Tasks, Stage, actorVars
<1> QED
  BY <1>1, <1>2, <1>3, <1>4, <1>5, <1>6, <1>7, <1>8, <1>9 DEF Invocation

\* The fields a task sets besides the outcome.
LEMMA LocalType ==
    ASSUME TypeOK, NEW t \in Tasks
    PROVE  /\ [loc[t] EXCEPT !.nilTarget = TRUE] \in Local
           /\ \A b \in Nat, c \in BOOLEAN : [loc[t] EXCEPT !.base = b, !.changed = c] \in Local
           /\ \A s \in Seq(Record) : [loc[t] EXCEPT !.list = s] \in Local
           /\ \A p \in Policy : [loc[t] EXCEPT !.sent = p] \in Local
<1>1. loc[t] \in Local /\ TRUE \in BOOLEAN
  BY DEF TypeOK
<1>2. [loc[t] EXCEPT !.nilTarget = TRUE] \in Local
  BY <1>1 DEF Local
<1>3. \A b \in Nat, c \in BOOLEAN : [loc[t] EXCEPT !.base = b, !.changed = c] \in Local
  BY <1>1 DEF Local
<1>4. \A s \in Seq(Record) : [loc[t] EXCEPT !.list = s] \in Local
  BY <1>1 DEF Local
<1>5. \A p \in Policy : [loc[t] EXCEPT !.sent = p] \in Local
  BY <1>1 DEF Local
<1> QED
  BY <1>2, <1>3, <1>4, <1>5

\* Type correctness: a new process.
LEMMA ProcessRestartsType == ASSUME TypeOK, ProcessRestarts, crashes' \in 0..MaxCrashes PROVE TypeOK'
  BY NoLocalType DEF ProcessRestarts, TypeOK, Stage, repoVars, extVars

\* Rounding the times of a list changes no package and no condition.
LEMMA TiedList ==
    ASSUME NEW status \in Seq(Record)
    PROVE  /\ Tied(status) \in Seq(Record)
           /\ DOMAIN Tied(status) = DOMAIN status
           /\ \A i \in DOMAIN status : /\ Tied(status)[i].pkg = status[i].pkg
                                      /\ Tied(status)[i].condition = status[i].condition
<1>1. CASE Tied(status) = status
  BY <1>1
<1>2. CASE /\ Tied(status) = [status EXCEPT ![Len(status)].tie = TRUE]
           /\ \E i \in 1..(Len(status) - 1) : TRUE
  <2> DEFINE n == Len(status)
             r == [status[n] EXCEPT !.tie = TRUE]
  <2>1. n \in Nat /\ n \in DOMAIN status /\ status[n] \in Record
    BY <1>2
  <2>2. r \in Record /\ r.pkg = status[n].pkg /\ r.condition = status[n].condition
    BY <2>1 DEF Record
  <2>3. Tied(status) = [status EXCEPT ![n] = r]
    BY <1>2, <2>1
  <2> HIDE DEF r, n
  <2> QED
    BY <2>1, <2>2, <2>3
<1> QED
  BY <1>1, <1>2 DEF Tied

\* The copy a task may send, as it is or with its times rounded.
LEMMA RoundedCopy ==
    ASSUME NEW copy \in Policy, NEW sent,
           sent \in {copy, [copy EXCEPT !.status = Tied(@)]}
    PROVE  sent \in Policy /\ sent.status \in {copy.status, Tied(copy.status)}
  BY TiedList DEF Policy

\* Type correctness: the steps of a task.
LEMMA TaskType ==
    ASSUME TypeOK, NEW t \in Tasks, TaskStep(t)
    PROVE  TypeOK'
<1> USE BoundsAssumption
<1>0. t[1] \in Actors /\ t[2] \in Workloads /\ Pkg(t) \in Packages
  BY TaskParts
<1> DEFINE PcLoc == pc' \in [Tasks -> Stage] /\ loc' \in [Tasks -> Local]
           Faults == faults' \in 0..MaxFaults
<1>1. ASSUME Initialise(t) PROVE TypeOK'
  <2>1. FirstStage(t) \in Stage
    BY DEF FirstStage, Stage
  <2>2. pc' \in [Tasks -> Stage]
    BY <1>1, <2>1 DEF Initialise, Goto, TypeOK
  <2>3. loc' \in [Tasks -> Local]
    <3>1. [loc[t] EXCEPT !.nilTarget = TRUE] \in Local
      BY LocalType
    <3> QED
      BY <1>1, <3>1 DEF Initialise, SetLocal, TypeOK
  <2>4. Faults
    BY <1>1 DEF Initialise, Fault, TypeOK
  <2> QED
    BY <1>1, <2>2, <2>3, <2>4 DEF Initialise, GetClient, TypeOK, apiVars, repoVars, extVars
<1>2. ASSUME GiveUp(t) PROVE TypeOK'
  <2>1. PcLoc
    BY <1>2, FinishType DEF GiveUp
  <2>2. Faults /\ gitea' \in {"none", "ready", "broken"}
    BY <1>2 DEF GiveUp, GetClient, GetClientFails, Fault, TypeOK
  <2> QED
    BY <1>2, <2>1, <2>2 DEF GiveUp, TypeOK, apiVars, repoVars, extVars
<1>3. ASSUME CloneAndEdit(t) PROVE TypeOK'
  <2>1. CASE Finish(t)
    <3>1. PcLoc
      BY <2>1, FinishType
    <3>2. Faults
      BY <1>3 DEF CloneAndEdit, Fault, TypeOK
    <3> QED
      BY <1>3, <3>1, <3>2 DEF CloneAndEdit, TaskUnchanged, TypeOK, apiVars, repoVars, extVars
  <2>2. CASE ~Finish(t)
    <3>1. src.commits \in Nat /\ (t[2] \notin src.replaced) \in BOOLEAN
      BY DEF TypeOK
    <3>2. [loc[t] EXCEPT !.base = src.commits, !.changed = t[2] \notin src.replaced] \in Local
      BY <3>1, LocalType
    <3>3. loc' \in [Tasks -> Local] /\ UNCHANGED faults
      BY <1>3, <2>2, <3>2 DEF CloneAndEdit, SetLocal, TypeOK
    <3>4. pc' \in [Tasks -> Stage]
      BY <1>3, <2>2 DEF CloneAndEdit, Goto, TypeOK, Stage
    <3> QED
      BY <1>3, <3>3, <3>4 DEF CloneAndEdit, TaskUnchanged, TypeOK, apiVars, repoVars, extVars
  <2> QED
    BY <2>1, <2>2
<1>4. ASSUME CommitAndPush(t) PROVE TypeOK'
  <2>1. src' \in [commits : Nat, replaced : SUBSET Workloads]
    BY <1>0, <1>4 DEF CommitAndPush, TypeOK
  <2>2. PcLoc
    BY <1>4, FinishType DEF CommitAndPush, Goto, TypeOK, Stage
  <2>3. Faults
    BY <1>4 DEF CommitAndPush, Fault, TypeOK
  <2> QED
    BY <1>4, <2>1, <2>2, <2>3 DEF CommitAndPush, TaskUnchanged, TypeOK, apiVars, extVars
<1>5. ASSUME PushRestore(t) PROVE TypeOK'
  <2>1. PcLoc
    BY <1>5, ConcludeType DEF PushRestore, Goto, TypeOK, Stage, Outcome
  <2>2. Faults /\ drBusy' \subseteq {"app", "restore"}
    <3>1. Faults
      BY <1>5 DEF PushRestore, Fault, TypeOK
    <3>2. drBusy' \subseteq {"app", "restore"}
      BY <1>5 DEF PushRestore, TypeOK
    <3> QED
      BY <3>1, <3>2
  <2>3. restore' \in [Packages -> {"none", "filed", "New", "Completed", "Failed"}]
    BY <1>0, <1>5 DEF PushRestore, TypeOK
  <2> QED
    BY <1>5, <2>1, <2>2, <2>3 DEF PushRestore, TaskUnchanged, TypeOK, apiVars
<1>6. ASSUME WaitForRestore(t) PROVE TypeOK'
  <2>1. PcLoc
    BY <1>6, ConcludeType DEF WaitForRestore, Goto, TypeOK, Stage, Outcome
  <2>2. Faults
    BY <1>6 DEF WaitForRestore, Fault, TypeOK
  <2> QED
    BY <1>6, <2>1, <2>2 DEF WaitForRestore, TaskUnchanged, TypeOK, apiVars, extVars
<1>7. ASSUME PushApp(t) PROVE TypeOK'
  <2>1. PcLoc
    BY <1>7, ConcludeType DEF PushApp, Stage, Outcome
  <2>2. Faults /\ drBusy' \subseteq {"app", "restore"}
    <3>1. Faults
      BY <1>7 DEF PushApp, Fault, TypeOK
    <3>2. drBusy' \subseteq {"app", "restore"}
      BY <1>7 DEF PushApp, TypeOK
    <3> QED
      BY <3>1, <3>2
  <2>3. dr' \in [Packages -> 0..2]
    BY <1>0, <1>7 DEF PushApp, TypeOK
  <2> QED
    BY <1>7, <2>1, <2>2, <2>3 DEF PushApp, TaskUnchanged, TypeOK, apiVars, extVars
<1>8. ASSUME Sync(t) PROVE TypeOK'
  BY <1>8 DEF Sync, Goto, TaskUnchanged, TypeOK, Stage, apiVars, repoVars, extVars
<1>9. ASSUME Panic(t) PROVE TypeOK'
  BY <1>9, ProcessRestartsType DEF Panic, TypeOK
<1>10. ASSUME ReadStatus(t) PROVE TypeOK'
  <2>1. mem[t[1]].status \in Seq(Record)
    BY <1>0 DEF TypeOK, Policy
  <2>2. PcLoc
    BY <1>10, <2>1, LocalType DEF ReadStatus, Goto, SetLocal, TypeOK, Stage
  <2> QED
    BY <1>10, <2>2 DEF ReadStatus, TaskUnchanged, TypeOK, apiVars, repoVars, extVars
<1>11. ASSUME AppendRecord(t) PROVE TypeOK'
  <2> DEFINE r == [pkg |-> Pkg(t), condition |-> loc[t].condition, tie |-> FALSE]
             status == Append(loc[t].list, r)
  <2>2. loc[t].list \in Seq(Record) /\ r \in Record
    BY <1>0 DEF TypeOK, Local, Record
  <2> HIDE DEF r
  <2>3. status \in Seq(Record)
    BY <2>2
  <2>4. mem' \in [Actors -> Policy]
    <3>1. mem[t[1]] \in Policy
      BY <1>0 DEF TypeOK
    <3>2. [mem[t[1]] EXCEPT !.status = status] \in Policy
      BY <2>3, <3>1 DEF Policy
    <3>3. mem' = [mem EXCEPT ![t[1]] = [mem[t[1]] EXCEPT !.status = status]]
      BY <1>11 DEF AppendRecord, r
    <3> QED
      BY <3>2, <3>3 DEF TypeOK
  <2> QED
    BY <1>11, <2>4 DEF AppendRecord, Goto, TaskUnchanged, TypeOK, Stage, apiVars, repoVars, extVars
<1>12. ASSUME SendStatus(t) PROVE TypeOK'
  <2>1. mem[t[1]] \in Policy
    BY <1>0 DEF TypeOK
  <2>2. PcLoc
    <3>1. CASE Finish(t)
      BY <3>1, FinishType
    <3>2. CASE \E sent \in {mem[t[1]], [mem[t[1]] EXCEPT !.status = Tied(@)]} :
                  Goto(t, "apply") /\ SetLocal(t, [loc[t] EXCEPT !.sent = sent])
      <4>1. PICK sent \in {mem[t[1]], [mem[t[1]] EXCEPT !.status = Tied(@)]} :
               Goto(t, "apply") /\ SetLocal(t, [loc[t] EXCEPT !.sent = sent])
        BY <3>2
      <4>2. sent \in Policy
        BY <2>1, RoundedCopy
      <4>3. [loc[t] EXCEPT !.sent = sent] \in Local
        BY <4>2, LocalType
      <4> QED
        BY <4>1, <4>3 DEF Goto, SetLocal, TypeOK, Stage
    <3> QED
      BY <1>12, <3>1, <3>2 DEF SendStatus
  <2>3. Faults
    BY <1>12 DEF SendStatus, Fault, TypeOK
  <2> QED
    BY <1>12, <2>2, <2>3 DEF SendStatus, TaskUnchanged, TypeOK, apiVars, repoVars, extVars
<1>13. ASSUME ApplyStatus(t) PROVE TypeOK'
  <2>1. PcLoc
    BY <1>13, FinishType DEF ApplyStatus
  <2>2. loc[t].sent.status \in Seq(Record)
    BY DEF TypeOK, Local, Policy
  <2>3. Faults /\ api' \in Policy
    <3>1. Faults
      BY <1>13 DEF ApplyStatus, Fault, TypeOK
    <3>2. api' = api \/ api' = [rv |-> api.rv + 1, status |-> loc[t].sent.status]
      BY <1>13 DEF ApplyStatus
    <3>3. api' \in Policy
      BY <2>2, <3>2 DEF TypeOK, Policy
    <3> QED
      BY <3>1, <3>3
  <2>4. mem' \in [Actors -> Policy]
    BY <1>0, <1>13, <2>3 DEF ApplyStatus, TypeOK
  <2>5. foreign' \in [Actors -> Nat]
    <3>1. CASE UNCHANGED foreign
      BY <3>1 DEF TypeOK
    <3>2. CASE foreign' = [b \in Actors |-> IF b = t[1] THEN foreign[b] ELSE Len(api'.status)]
      <4>1. Len(api'.status) \in Nat
        BY <2>3 DEF Policy
      <4> QED
        BY <3>2, <4>1 DEF TypeOK
    <3> QED
      BY <1>13, <3>1, <3>2 DEF ApplyStatus
  <2> QED
    BY <1>13, <2>1, <2>3, <2>4, <2>5 DEF ApplyStatus, TypeOK, repoVars, extVars
<1> QED
  BY <1>1, <1>2, <1>3, <1>4, <1>5, <1>6, <1>7, <1>8, <1>9, <1>10, <1>11, <1>12, <1>13
     DEF TaskStep

\* Type correctness: every step.
LEMMA TypeStep == TypeOK /\ [Next]_vars => TypeOK'
<1> SUFFICES ASSUME TypeOK, [Next]_vars PROVE TypeOK'
  OBVIOUS
<1> USE BoundsAssumption
<1>1. ASSUME NEW a \in Triggers, Trigger(a) PROVE TypeOK'
  BY <1>1 DEF Trigger, TypeOK, Actors, apiVars, taskVars, repoVars, extVars
<1>2. ASSUME NEW a \in Triggers, TriggerLost(a) PROVE TypeOK'
  BY <1>2 DEF TriggerLost, Fault, TypeOK, apiVars, taskVars, repoVars, extVars
<1>3. ASSUME NEW a \in Actors, Invocation(a) PROVE TypeOK'
  BY <1>3, InvocationType
<1>4. ASSUME NEW t \in Tasks, TaskStep(t) PROVE TypeOK'
  BY <1>4, TaskType
<1>5. ASSUME Restart PROVE TypeOK'
  BY <1>5, ProcessRestartsType DEF Restart, TypeOK
<1>6. ASSUME CacheSync PROVE TypeOK'
  BY <1>6 DEF CacheSync, TypeOK, actorVars, taskVars, repoVars, extVars
<1>7. ASSUME NextSecond PROVE TypeOK'
  BY <1>7 DEF NextSecond, TypeOK, apiVars, actorVars, taskVars, extVars
<1>8. ASSUME NEW w \in Workloads, CheckpointTaken(w) PROVE TypeOK'
  BY <1>8 DEF CheckpointTaken, TypeOK, apiVars, actorVars, taskVars, repoVars
<1>9. ASSUME NEW p \in Packages, RestoreProgress(p) PROVE TypeOK'
  <2>1. restore' \in [Packages -> {"none", "filed", "New", "Completed", "Failed"}]
    BY <1>9 DEF RestoreProgress, TypeOK
  <2>2. faults' \in 0..MaxFaults
    BY <1>9 DEF RestoreProgress, Fault, TypeOK
  <2> QED
    BY <1>9, <2>1, <2>2 DEF RestoreProgress, TypeOK, apiVars, actorVars, taskVars, repoVars
<1>10. ASSUME UNCHANGED vars PROVE TypeOK'
  BY <1>10 DEF vars, TypeOK, apiVars, actorVars, taskVars, repoVars, extVars
<1> QED
  BY <1>1, <1>2, <1>3, <1>4, <1>5, <1>6, <1>7, <1>8, <1>9, <1>10 DEF Next

\* All of the transition's state keeps its type, for any packages and actors.
THEOREM TypeCorrect == Spec => []TypeOK
<1>1. Init => TypeOK
  BY InitType
<1>2. TypeOK /\ [Next]_vars => TypeOK'
  BY TypeStep
<1> QED
  BY <1>1, <1>2, PTL DEF Spec
------------------------------------------------------------------------------
(* The order of effects *)

\* Every Completed record of a list stands for a pushed application.
DeployedIn(list, apps) ==
    \A i \in DOMAIN list : list[i].condition = "Completed" => apps[list[i].pkg] > 0

\* This is so of all the lists there are, the ones in memory and on the wire.
ListsDeployed ==
    /\ DeployedIn(api.status, dr) /\ DeployedIn(cache.status, dr)
    /\ \A a \in Actors : DeployedIn(mem[a].status, dr)
    /\ \A t \in Tasks : DeployedIn(loc[t].list, dr) /\ DeployedIn(loc[t].sent.status, dr)

\* A task about to record Completed has pushed the application.
OutcomeTrue ==
    \A t \in Tasks :
        pc[t] \in {"sync", "append", "store"} /\ loc[t].condition = "Completed" => dr[Pkg(t)] > 0

\* What stage a task may be in: one of its package's type, and "app" only with
\* the image in the repository or the data restored.
StageOK(t, stage) ==
    /\ stage \in {"clone", "commit"} => Pkg(t) \in Live \intersect Stateful
    /\ stage \in {"restore", "wait"} => Pkg(t) \in Stateful \ Live
    /\ stage = "app" /\ Pkg(t) \in Live \intersect Stateful => t[2] \in src.replaced
    /\ stage = "app" /\ Pkg(t) \in Stateful \ Live => restore[Pkg(t)] = "Completed"

StagesOrdered == \A t \in Tasks : StageOK(t, pc[t])

OrderInv ==
    /\ ListsDeployed /\ OutcomeTrue /\ StagesOrdered
    /\ ImageBeforeApplication /\ RestoreBeforeApplication

\* An empty list claims nothing.
LEMMA DeployedEmpty == ASSUME NEW apps PROVE DeployedIn(<<>>, apps)
  BY DEF DeployedIn

\* Applications are never removed, so a true list stays true.
LEMMA DeployedLater ==
    ASSUME NEW list \in Seq(Record), NEW before, NEW after, DeployedIn(list, before),
           \A p \in Packages : before[p] > 0 => after[p] > 0
    PROVE  DeployedIn(list, after)
<1> SUFFICES ASSUME NEW i \in DOMAIN list, list[i].condition = "Completed"
             PROVE  after[list[i].pkg] > 0
  BY DEF DeployedIn
<1>1. list[i] \in Record
  OBVIOUS
<1>2. list[i].pkg \in Packages /\ before[list[i].pkg] > 0
  BY <1>1 DEF DeployedIn, Record
<1> QED
  BY <1>2

\* A true record keeps a list true.
LEMMA DeployedAppend ==
    ASSUME NEW list \in Seq(Record), NEW apps, NEW r \in Record, DeployedIn(list, apps),
           r.condition = "Completed" => apps[r.pkg] > 0
    PROVE  DeployedIn(Append(list, r), apps)
  BY DEF DeployedIn

\* Effects are never undone: applications, images and restored data stay.
Progress ==
    /\ \A p \in Packages : dr[p] > 0 => dr'[p] > 0
    /\ src.replaced \subseteq src'.replaced
    /\ \A p \in Packages : restore[p] = "Completed" => restore'[p] = "Completed"

\* One task moves to another stage, and the effect of its step is as it should.
LEMMA TaskMoves ==
    ASSUME TypeOK, OrderInv, NEW t \in Tasks, NEW stage, NEW l \in Local,
           pc' = [pc EXCEPT ![t] = stage], loc' = [loc EXCEPT ![t] = l],
           UNCHANGED <<api, cache, mem>>, Progress,
           \A p \in Packages : dr'[p] > 0 => dr[p] > 0 \/ (p = Pkg(t) /\ pc[t] = "app"),
           DeployedIn(l.list, dr), DeployedIn(l.sent.status, dr),
           stage \in {"sync", "append", "store"} /\ l.condition = "Completed" => dr'[Pkg(t)] > 0,
           StageOK(t, stage)'
    PROVE  OrderInv'
<1>1. ListsDeployed'
  <2>1. /\ DeployedIn(api.status, dr') /\ DeployedIn(cache.status, dr')
        /\ \A a \in Actors : DeployedIn(mem[a].status, dr')
    <3>1. api.status \in Seq(Record) /\ cache.status \in Seq(Record)
          /\ \A a \in Actors : mem[a].status \in Seq(Record)
      BY DEF TypeOK, Policy
    <3> QED
      BY <3>1, DeployedLater DEF OrderInv, ListsDeployed, Progress
  <2>2. ASSUME NEW u \in Tasks
        PROVE DeployedIn(loc'[u].list, dr') /\ DeployedIn(loc'[u].sent.status, dr')
    <3>1. DeployedIn(loc'[u].list, dr) /\ DeployedIn(loc'[u].sent.status, dr)
      BY DEF OrderInv, ListsDeployed, TypeOK
    <3>2. loc'[u].list \in Seq(Record) /\ loc'[u].sent.status \in Seq(Record)
      BY DEF TypeOK, Local, Policy
    <3> QED
      BY <3>1, <3>2, DeployedLater DEF Progress
  <2> QED
    BY <2>1, <2>2 DEF ListsDeployed
<1>2. OutcomeTrue'
  <2> SUFFICES ASSUME NEW u \in Tasks, pc'[u] \in {"sync", "append", "store"},
                      loc'[u].condition = "Completed"
               PROVE  dr'[Pkg(u)] > 0
    BY DEF OutcomeTrue
  <2>1. Pkg(u) \in Packages
    BY TaskParts
  <2> QED
    BY <2>1 DEF OrderInv, OutcomeTrue, Progress, TypeOK
<1>3. StagesOrdered'
  <2> SUFFICES ASSUME NEW u \in Tasks PROVE StageOK(u, pc[u])'
    BY DEF StagesOrdered
  <2>1. Pkg(u) \in Packages /\ StageOK(u, pc[u])
    BY TaskParts DEF OrderInv, StagesOrdered
  <2>2. CASE u = t
    BY <2>2 DEF TypeOK, StageOK
  <2>3. CASE u # t
    <3>1. pc'[u] = pc[u]
      BY <2>3 DEF TypeOK
    <3> QED
      BY <2>1, <3>1 DEF StageOK, Progress
  <2> QED
    BY <2>2, <2>3
<1>4. StageOK(t, pc[t]) /\ t[2] \in Workloads
  BY TaskParts DEF OrderInv, StagesOrdered
<1>5. ImageBeforeApplication'
  BY <1>4, PackagesAssumption DEF OrderInv, ImageBeforeApplication, StageOK, Progress
<1>6. RestoreBeforeApplication'
  BY <1>4, PackagesAssumption DEF OrderInv, RestoreBeforeApplication, StageOK, Progress
<1> QED
  BY <1>1, <1>2, <1>3, <1>5, <1>6 DEF OrderInv

\* The order of effects at the start: there are none.
LEMMA InitOrder == Init => OrderInv
<1> SUFFICES ASSUME Init PROVE OrderInv
  OBVIOUS
<1>1. \A t \in Tasks : Pkg(t) \in Packages
  BY TaskParts
<1>2. ListsDeployed
  BY DeployedEmpty DEF Init, ListsDeployed, NoPolicy, NoLocal
<1>3. OutcomeTrue /\ StagesOrdered
  BY <1>1 DEF Init, OutcomeTrue, StagesOrdered, StageOK
<1>4. ImageBeforeApplication /\ RestoreBeforeApplication
  BY PackagesAssumption DEF Init, ImageBeforeApplication, RestoreBeforeApplication
<1> QED
  BY <1>2, <1>3, <1>4 DEF OrderInv

\* A task returns without an effect.
LEMMA FinishOrder ==
    ASSUME TypeOK, OrderInv, NEW t \in Tasks, Finish(t),
           UNCHANGED <<api, cache, mem, dr, restore>>, src.replaced \subseteq src'.replaced
    PROVE  OrderInv'
<1>1. DeployedIn(NoLocal.list, dr) /\ DeployedIn(NoLocal.sent.status, dr)
  BY DeployedEmpty DEF NoLocal, NoPolicy
<1>2. StageOK(t, "none")'
  BY DEF StageOK
<1>3. Progress
  BY DEF Progress
<1> QED
  BY <1>1, <1>2, <1>3, NoLocalType, TaskMoves DEF Finish, Goto, SetLocal

\* The lists of a task in any stage are deployed.
LEMMA LocalLists ==
    ASSUME TypeOK, OrderInv, NEW t \in Tasks
    PROVE  /\ loc[t] \in Local /\ loc[t].list \in Seq(Record) /\ loc[t].condition \in Outcome
           /\ DeployedIn(loc[t].list, dr) /\ DeployedIn(loc[t].sent.status, dr)
           /\ StageOK(t, pc[t])
  BY DEF TypeOK, Local, OrderInv, ListsDeployed, StagesOrdered

\* The outcome is set, with the lists kept.
LEMMA ConcludeOrder ==
    ASSUME TypeOK, OrderInv, NEW t \in Tasks, NEW stage, NEW c \in Outcome,
           Conclude(t, stage, c), stage \in {"append", "sync"},
           c = "Completed" => dr'[Pkg(t)] > 0,
           UNCHANGED <<api, cache, mem, src>>, Progress,
           \A p \in Packages : dr'[p] > 0 => dr[p] > 0 \/ (p = Pkg(t) /\ pc[t] = "app")
    PROVE  OrderInv'
<1> DEFINE l == [loc[t] EXCEPT !.condition = c]
<1>1. l \in Local /\ l.condition = c
  BY LocalLists DEF Local
<1>2. DeployedIn(l.list, dr) /\ DeployedIn(l.sent.status, dr)
  <2>1. l.list = loc[t].list /\ l.sent = loc[t].sent
    BY LocalLists DEF Local
  <2> QED
    BY <2>1, LocalLists
<1>3. StageOK(t, stage)'
  BY DEF StageOK
<1>4. pc' = [pc EXCEPT ![t] = stage] /\ loc' = [loc EXCEPT ![t] = l]
  BY DEF Conclude, Goto, SetLocal
<1> HIDE DEF l
<1> QED
  BY <1>1, <1>2, <1>3, <1>4, TaskMoves

\* A task moves on with its local variables as they are.
LEMMA GotoOrder ==
    ASSUME TypeOK, OrderInv, NEW t \in Tasks, NEW stage, Goto(t, stage), UNCHANGED loc,
           UNCHANGED <<api, cache, mem, dr>>, Progress, StageOK(t, stage)',
           stage \in {"sync", "append", "store"} => pc[t] \in {"sync", "append", "store"}
    PROVE  OrderInv'
<1>1. pc' = [pc EXCEPT ![t] = stage] /\ loc' = [loc EXCEPT ![t] = loc[t]]
  BY DEF Goto, TypeOK
<1>2. stage \in {"sync", "append", "store"} /\ loc[t].condition = "Completed" => dr'[Pkg(t)] > 0
  BY DEF OrderInv, OutcomeTrue
<1> QED
  BY <1>1, <1>2, LocalLists, TaskMoves

\* A restart forgets what was in memory and keeps what was pushed.
LEMMA RestartOrder ==
    ASSUME TypeOK, OrderInv, ProcessRestarts
    PROVE  OrderInv'
<1>1. ListsDeployed'
  BY DeployedEmpty DEF ProcessRestarts, OrderInv, ListsDeployed, NoPolicy, NoLocal, repoVars
<1>2. OutcomeTrue' /\ StagesOrdered'
  BY DEF ProcessRestarts, OutcomeTrue, StagesOrdered, StageOK
<1>3. ImageBeforeApplication' /\ RestoreBeforeApplication'
  BY DEF ProcessRestarts, OrderInv, ImageBeforeApplication, RestoreBeforeApplication,
         repoVars, extVars
<1> QED
  BY <1>1, <1>2, <1>3 DEF OrderInv

\* Only lists change hands: tasks, repositories and restores stay.
LEMMA ListsMove ==
    ASSUME OrderInv, ListsDeployed', UNCHANGED <<pc, dr, src, restore>>,
           \A t \in Tasks : loc'[t].condition = loc[t].condition
    PROVE  OrderInv'
<1>1. OutcomeTrue' /\ StagesOrdered'
  BY DEF OrderInv, OutcomeTrue, StagesOrdered, StageOK
<1>2. ImageBeforeApplication' /\ RestoreBeforeApplication'
  BY DEF OrderInv, ImageBeforeApplication, RestoreBeforeApplication
<1> QED
  BY <1>1, <1>2 DEF OrderInv

\* The order of effects: the steps of an invocation only move lists or start a task.
LEMMA InvocationOrder ==
    ASSUME TypeOK, OrderInv, NEW a \in Actors, Invocation(a)
    PROVE  OrderInv'
<1>1. ASSUME LoadPolicy(a) \/ InvocationEnds(a) PROVE OrderInv'
  <2>1. /\ UNCHANGED <<api, cache, pc, loc, src, dr, restore>>
        /\ mem' = [mem EXCEPT ![a] = cache] \/ mem' = [mem EXCEPT ![a] = NoPolicy]
    BY <1>1 DEF LoadPolicy, InvocationEnds, apiVars, taskVars, repoVars, extVars
  <2>2. DeployedIn(NoPolicy.status, dr)
    BY DeployedEmpty DEF NoPolicy
  <2>3. ListsDeployed'
    BY <2>1, <2>2 DEF OrderInv, ListsDeployed, TypeOK
  <2> QED
    BY <2>1, <2>3, ListsMove
<1>2. ASSUME \/ PolicyNotFound(a) \/ ListPods
             \/ \E w \in Workloads : Skip(a, w)
             \/ \E p \in Packages : ListCheckpoints(a, p) \/ CreateCheckpoints(a, p)
      PROVE OrderInv'
  <2>1. UNCHANGED <<api, cache, mem, pc, loc, src, dr, restore>>
    BY <1>2 DEF PolicyNotFound, ListPods, Skip, ListCheckpoints, CreateCheckpoints,
                apiVars, taskVars, repoVars, extVars
  <2>2. ListsDeployed'
    BY <2>1 DEF OrderInv, ListsDeployed
  <2> QED
    BY <2>1, <2>2, ListsMove
<1>3. ASSUME NEW w \in Workloads, StartTask(a, w) \/ AcquireSlot(a, w) PROVE OrderInv'
  <2> DEFINE t == <<a, w>>
  <2>1. t \in Tasks
    BY DEF Tasks
  <2>2. PICK stage \in {"queued", "init"} :
           Goto(t, stage) /\ UNCHANGED <<loc, api, cache, mem, dr, src, restore>>
    BY <1>3 DEF StartTask, AcquireSlot, apiVars, actorVars, repoVars, extVars
  <2>3. StageOK(t, stage)' /\ Progress
    BY <2>2 DEF StageOK, Progress
  <2> HIDE DEF t
  <2> QED
    BY <2>1, <2>2, <2>3, GotoOrder
<1> QED
  BY <1>1, <1>2, <1>3 DEF Invocation

\* The order of effects: the steps of a task, where the order is made.
LEMMA TaskOrder ==
    ASSUME TypeOK, OrderInv, NEW t \in Tasks, TaskStep(t)
    PROVE  OrderInv'
<1>0. t[1] \in Actors /\ t[2] \in Workloads /\ Pkg(t) \in Packages
  BY TaskParts
<1>00. StageOK(t, pc[t]) /\ loc[t] \in Local
  BY LocalLists
<1>1. ASSUME Initialise(t) PROVE OrderInv'
  <2>1. UNCHANGED <<api, cache, mem, dr, src, restore>> /\ Goto(t, FirstStage(t))
    BY <1>1 DEF Initialise, apiVars, repoVars, extVars
  <2>2. StageOK(t, FirstStage(t))' /\ Progress
    BY <2>1 DEF FirstStage, StageOK, Progress
  <2>3. FirstStage(t) \notin {"sync", "append", "store"}
    BY DEF FirstStage
  <2>4. CASE UNCHANGED loc
    BY <2>1, <2>2, <2>3, <2>4, GotoOrder
  <2>5. CASE SetLocal(t, [loc[t] EXCEPT !.nilTarget = TRUE])
    <3> DEFINE l == [loc[t] EXCEPT !.nilTarget = TRUE]
               stage == FirstStage(t)
    <3>1. l \in Local
      BY LocalType
    <3>2. l.list = loc[t].list /\ l.sent = loc[t].sent
      BY <1>00 DEF Local
    <3>3. DeployedIn(l.list, dr) /\ DeployedIn(l.sent.status, dr)
      BY <3>2, LocalLists
    <3>4. pc' = [pc EXCEPT ![t] = stage] /\ loc' = [loc EXCEPT ![t] = l]
      BY <2>1, <2>5 DEF Goto, SetLocal
    <3>5. StageOK(t, stage)' /\ stage \notin {"sync", "append", "store"}
      BY <2>2, <2>3
    <3> HIDE DEF l, stage
    <3> QED
      BY <2>1, <2>2, <3>1, <3>3, <3>4, <3>5, TaskMoves
  <2> QED
    BY <1>1, <2>4, <2>5 DEF Initialise
<1>2. ASSUME GiveUp(t) PROVE OrderInv'
  <2>1. Finish(t) /\ UNCHANGED <<api, cache, mem, dr, src, restore>>
    BY <1>2 DEF GiveUp, apiVars, repoVars, extVars
  <2> QED
    BY <2>1, FinishOrder
<1>3. ASSUME CloneAndEdit(t) PROVE OrderInv'
  <2>1. UNCHANGED <<api, cache, mem, dr, src, restore>> /\ pc[t] = "clone"
    BY <1>3 DEF CloneAndEdit, TaskUnchanged, apiVars, repoVars, extVars
  <2>2. CASE Finish(t)
    BY <2>1, <2>2, FinishOrder
  <2>3. CASE ~Finish(t)
    <3> DEFINE l == [loc[t] EXCEPT !.base = src.commits, !.changed = t[2] \notin src.replaced]
    <3>1. pc' = [pc EXCEPT ![t] = "commit"] /\ loc' = [loc EXCEPT ![t] = l]
      BY <1>3, <2>3 DEF CloneAndEdit, Goto, SetLocal
    <3>2. l \in Local
      <4>1. src.commits \in Nat /\ (t[2] \notin src.replaced) \in BOOLEAN
        BY DEF TypeOK
      <4> QED
        BY <4>1, LocalType
    <3>3. l.list = loc[t].list /\ l.sent = loc[t].sent
      BY <1>00 DEF Local
    <3>4. DeployedIn(l.list, dr) /\ DeployedIn(l.sent.status, dr)
      BY <3>3, LocalLists
    <3>5. StageOK(t, "commit")' /\ Progress
      BY <1>00, <2>1 DEF StageOK, Progress
    <3> HIDE DEF l
    <3> QED
      BY <2>1, <3>1, <3>2, <3>4, <3>5, TaskMoves
  <2> QED
    BY <2>2, <2>3
<1>4. ASSUME CommitAndPush(t) PROVE OrderInv'
  <2>1. UNCHANGED <<api, cache, mem, dr, restore>> /\ pc[t] = "commit"
    BY <1>4 DEF CommitAndPush, TaskUnchanged, apiVars, extVars
  <2>2. CASE Finish(t) /\ UNCHANGED src
    BY <2>1, <2>2, FinishOrder
  <2>3. CASE Goto(t, "app") /\ UNCHANGED loc /\ src'.replaced = src.replaced \union {t[2]}
    <3>1. StageOK(t, "app")' /\ Progress
      BY <1>00, <2>1, <2>3 DEF StageOK, Progress
    <3> QED
      BY <2>1, <2>3, <3>1, GotoOrder
  <2> QED
    BY <1>4, <2>2, <2>3 DEF CommitAndPush
<1>5. ASSUME PushRestore(t) PROVE OrderInv'
  <2>1. UNCHANGED <<api, cache, mem, dr, src>> /\ pc[t] = "restore"
    BY <1>5 DEF PushRestore, TaskUnchanged, apiVars
  <2>2. Progress
    BY <1>5, <2>1 DEF PushRestore, Progress, TypeOK
  <2>3. CASE Conclude(t, "append", "Failed")
    BY <2>1, <2>2, <2>3, ConcludeOrder DEF Outcome
  <2>4. CASE Goto(t, "wait") /\ UNCHANGED loc
    <3>1. StageOK(t, "wait")'
      BY <1>00, <2>1 DEF StageOK
    <3> QED
      BY <2>1, <2>2, <2>4, <3>1, GotoOrder
  <2> QED
    BY <1>5, <2>3, <2>4 DEF PushRestore
<1>6. ASSUME WaitForRestore(t) PROVE OrderInv'
  <2>1. UNCHANGED <<api, cache, mem, dr, src, restore>> /\ pc[t] = "wait"
    BY <1>6 DEF WaitForRestore, TaskUnchanged, apiVars, extVars
  <2>2. Progress
    BY <2>1 DEF Progress
  <2>3. CASE Conclude(t, "append", "Failed")
    BY <2>1, <2>2, <2>3, ConcludeOrder DEF Outcome
  <2>4. CASE restore[Pkg(t)] = "Completed" /\ Goto(t, "app") /\ UNCHANGED loc
    <3>1. StageOK(t, "app")'
      BY <1>00, <2>1, <2>4 DEF StageOK
    <3> QED
      BY <2>1, <2>2, <2>4, <3>1, GotoOrder
  <2> QED
    BY <1>6, <2>3, <2>4 DEF WaitForRestore
<1>7. ASSUME PushApp(t) PROVE OrderInv'
  <2>1. UNCHANGED <<api, cache, mem, src, restore>> /\ pc[t] = "app"
    BY <1>7 DEF PushApp, TaskUnchanged, apiVars, extVars
  <2>2. CASE Conclude(t, "append", "Failed") /\ UNCHANGED dr
    BY <2>1, <2>2, ConcludeOrder DEF Outcome, Progress
  <2>3. CASE /\ Conclude(t, "sync", "Completed")
             /\ dr' = [dr EXCEPT ![Pkg(t)] = IF @ < 2 THEN @ + 1 ELSE 2]
    <3>1. /\ dr'[Pkg(t)] > 0
          /\ \A p \in Packages : dr[p] > 0 => dr'[p] > 0
          /\ \A p \in Packages : dr'[p] > 0 => dr[p] > 0 \/ p = Pkg(t)
      BY <1>0, <2>3 DEF TypeOK
    <3>2. Progress
      BY <2>1, <3>1 DEF Progress
    <3> QED
      BY <2>1, <2>3, <3>1, <3>2, ConcludeOrder DEF Outcome
  <2> QED
    BY <1>7, <2>2, <2>3 DEF PushApp
<1>8. ASSUME Sync(t) PROVE OrderInv'
  <2>1. /\ UNCHANGED <<api, cache, mem, dr, src, restore, loc>>
        /\ pc[t] = "sync" /\ Goto(t, "append")
    BY <1>8 DEF Sync, TaskUnchanged, apiVars, repoVars, extVars
  <2>2. StageOK(t, "append")' /\ Progress
    BY <2>1 DEF StageOK, Progress
  <2> QED
    BY <2>1, <2>2, GotoOrder
<1>9. ASSUME Panic(t) PROVE OrderInv'
  BY <1>9, RestartOrder DEF Panic
<1>10. ASSUME ReadStatus(t) PROVE OrderInv'
  <2> DEFINE l == [loc[t] EXCEPT !.list = mem[t[1]].status]
  <2>1. UNCHANGED <<api, cache, mem, dr, src, restore>> /\ pc[t] = "append"
    BY <1>10 DEF ReadStatus, TaskUnchanged, apiVars, repoVars, extVars
  <2>2. pc' = [pc EXCEPT ![t] = "store"] /\ loc' = [loc EXCEPT ![t] = l]
    BY <1>10 DEF ReadStatus, Goto, SetLocal
  <2>3. mem[t[1]].status \in Seq(Record) /\ DeployedIn(mem[t[1]].status, dr)
    BY <1>0 DEF TypeOK, Policy, OrderInv, ListsDeployed
  <2>4. l \in Local
    BY <2>3, LocalType
  <2>5. l.list = mem[t[1]].status /\ l.sent = loc[t].sent /\ l.condition = loc[t].condition
    BY <1>00 DEF Local
  <2>6. DeployedIn(l.list, dr) /\ DeployedIn(l.sent.status, dr)
    BY <2>3, <2>5, LocalLists
  <2>7. l.condition = "Completed" => dr'[Pkg(t)] > 0
    BY <2>1, <2>5 DEF OrderInv, OutcomeTrue
  <2>8. StageOK(t, "store")' /\ Progress
    BY <2>1 DEF StageOK, Progress
  <2> HIDE DEF l
  <2> QED
    BY <2>1, <2>2, <2>4, <2>6, <2>7, <2>8, TaskMoves
<1>11. ASSUME AppendRecord(t) PROVE OrderInv'
  <2> DEFINE r == [pkg |-> Pkg(t), condition |-> loc[t].condition, tie |-> FALSE]
  <2>1. /\ UNCHANGED <<api, cache, dr, src, restore, loc>> /\ pc[t] = "store"
        /\ pc' = [pc EXCEPT ![t] = "send"]
    BY <1>11 DEF AppendRecord, Goto, TaskUnchanged, apiVars, repoVars, extVars
  <2>2. DeployedIn(Append(loc[t].list, r), dr)
    <3>1. r \in Record /\ (r.condition = "Completed" => dr[r.pkg] > 0)
      BY <1>0, <2>1, LocalLists DEF Record, OrderInv, OutcomeTrue
    <3> HIDE DEF r
    <3> QED
      BY <3>1, LocalLists, DeployedAppend
  <2>3. \A b \in Actors : mem'[b].status = mem[b].status \/ mem'[b].status = Append(loc[t].list, r)
    BY <1>0, <1>11 DEF AppendRecord, TypeOK, Policy
  <2>4. ListsDeployed'
    BY <2>1, <2>2, <2>3 DEF OrderInv, ListsDeployed
  <2>5. OutcomeTrue' /\ StagesOrdered'
    BY <2>1 DEF OrderInv, OutcomeTrue, StagesOrdered, StageOK, TypeOK
  <2>6. ImageBeforeApplication' /\ RestoreBeforeApplication'
    BY <2>1 DEF OrderInv, ImageBeforeApplication, RestoreBeforeApplication
  <2> QED
    BY <2>4, <2>5, <2>6 DEF OrderInv
<1>12. ASSUME SendStatus(t) PROVE OrderInv'
  <2>1. UNCHANGED <<api, cache, mem, dr, src, restore>>
    BY <1>12 DEF SendStatus, TaskUnchanged, apiVars, repoVars, extVars
  <2>2. CASE Finish(t)
    BY <2>1, <2>2, FinishOrder
  <2>3. CASE \E sent \in {mem[t[1]], [mem[t[1]] EXCEPT !.status = Tied(@)]} :
                Goto(t, "apply") /\ SetLocal(t, [loc[t] EXCEPT !.sent = sent])
    <3>0. PICK sent \in {mem[t[1]], [mem[t[1]] EXCEPT !.status = Tied(@)]} :
             Goto(t, "apply") /\ SetLocal(t, [loc[t] EXCEPT !.sent = sent])
      BY <2>3
    <3> DEFINE l == [loc[t] EXCEPT !.sent = sent]
    <3>1. sent \in Policy /\ DeployedIn(sent.status, dr)
      <4>1. mem[t[1]] \in Policy /\ DeployedIn(mem[t[1]].status, dr)
        BY <1>0 DEF TypeOK, OrderInv, ListsDeployed
      <4>2. mem[t[1]].status \in Seq(Record)
        BY <4>1 DEF Policy
      <4>3. DeployedIn(Tied(mem[t[1]].status), dr)
        BY <4>1, <4>2, TiedList DEF DeployedIn
      <4> QED
        BY <4>1, <4>3, RoundedCopy
    <3>2. l \in Local
      BY <3>1, LocalType
    <3>3. l.list = loc[t].list /\ l.sent = sent
      BY <1>00 DEF Local
    <3>4. DeployedIn(l.list, dr) /\ DeployedIn(l.sent.status, dr)
      BY <3>1, <3>3, LocalLists
    <3>5. StageOK(t, "apply")' /\ Progress
      BY <2>1 DEF StageOK, Progress
    <3>6. pc' = [pc EXCEPT ![t] = "apply"] /\ loc' = [loc EXCEPT ![t] = l]
      BY <3>0 DEF Goto, SetLocal
    <3> HIDE DEF l
    <3> QED
      BY <2>1, <3>2, <3>4, <3>5, <3>6, TaskMoves
  <2> QED
    BY <1>12, <2>2, <2>3 DEF SendStatus
<1>13. ASSUME ApplyStatus(t) PROVE OrderInv'
  <2>1. /\ UNCHANGED <<cache, dr, src, restore>> /\ pc[t] = "apply"
        /\ pc' = [pc EXCEPT ![t] = "none"] /\ loc' = [loc EXCEPT ![t] = NoLocal]
    BY <1>13 DEF ApplyStatus, Finish, Goto, SetLocal, repoVars, extVars
  <2>2. DeployedIn(loc[t].sent.status, dr)
    BY LocalLists
  <2>3. DeployedIn(api'.status, dr) /\ \A b \in Actors : DeployedIn(mem'[b].status, dr)
    <3>1. CASE UNCHANGED <<api, mem>>
      BY <3>1 DEF OrderInv, ListsDeployed
    <3>2. CASE /\ api'.status = loc[t].sent.status
               /\ UNCHANGED mem \/ mem' = [mem EXCEPT ![t[1]] = api']
      BY <2>2, <3>2 DEF OrderInv, ListsDeployed, TypeOK
    <3> QED
      BY <1>13, <3>1, <3>2 DEF ApplyStatus
  <2>4. ListsDeployed'
    <3>1. DeployedIn(NoLocal.list, dr) /\ DeployedIn(NoLocal.sent.status, dr)
      BY DeployedEmpty DEF NoLocal, NoPolicy
    <3> QED
      BY <2>1, <2>3, <3>1 DEF OrderInv, ListsDeployed, TypeOK
  <2>5. OutcomeTrue' /\ StagesOrdered'
    BY <2>1 DEF OrderInv, OutcomeTrue, StagesOrdered, StageOK, TypeOK
  <2>6. ImageBeforeApplication' /\ RestoreBeforeApplication'
    BY <2>1 DEF OrderInv, ImageBeforeApplication, RestoreBeforeApplication
  <2> QED
    BY <2>4, <2>5, <2>6 DEF OrderInv
<1> QED
  BY <1>1, <1>2, <1>3, <1>4, <1>5, <1>6, <1>7, <1>8, <1>9, <1>10, <1>11, <1>12, <1>13
     DEF TaskStep

\* Every step of actors, tasks and environment keeps the order of effects.
LEMMA OrderStep == TypeOK /\ OrderInv /\ [Next]_vars => OrderInv'
<1> SUFFICES ASSUME TypeOK, OrderInv, [Next]_vars PROVE OrderInv'
  OBVIOUS
<1>1. ASSUME NEW a \in Triggers, Trigger(a) \/ TriggerLost(a) PROVE OrderInv'
  <2>1. UNCHANGED <<api, cache, mem, pc, loc, src, dr, restore>>
    BY <1>1 DEF Trigger, TriggerLost, apiVars, taskVars, repoVars, extVars
  <2> QED
    BY <2>1, ListsMove DEF OrderInv, ListsDeployed
<1>2. ASSUME NEW a \in Actors, Invocation(a) PROVE OrderInv'
  BY <1>2, InvocationOrder
<1>3. ASSUME NEW t \in Tasks, TaskStep(t) PROVE OrderInv'
  BY <1>3, TaskOrder
<1>4. ASSUME Restart PROVE OrderInv'
  BY <1>4, RestartOrder DEF Restart
<1>5. ASSUME CacheSync PROVE OrderInv'
  <2>1. UNCHANGED <<api, mem, pc, loc, src, dr, restore>> /\ cache' = api
    BY <1>5 DEF CacheSync, actorVars, taskVars, repoVars, extVars
  <2> QED
    BY <2>1, ListsMove DEF OrderInv, ListsDeployed
<1>6. ASSUME NextSecond \/ (\E w \in Workloads : CheckpointTaken(w)) \/ UNCHANGED vars
      PROVE OrderInv'
  <2>1. UNCHANGED <<api, cache, mem, pc, loc, src, dr, restore>>
    BY <1>6 DEF NextSecond, CheckpointTaken, vars, apiVars, actorVars, taskVars, repoVars, extVars
  <2> QED
    BY <2>1, ListsMove DEF OrderInv, ListsDeployed
<1>7. ASSUME NEW p \in Packages, RestoreProgress(p) PROVE OrderInv'
  <2>1. UNCHANGED <<api, cache, mem, pc, loc, src, dr>>
    BY <1>7 DEF RestoreProgress, apiVars, actorVars, taskVars, repoVars
  <2>2. \A q \in Packages : restore[q] = "Completed" => restore'[q] = "Completed"
    BY <1>7 DEF RestoreProgress, TypeOK
  <2>3. ListsDeployed' /\ OutcomeTrue'
    BY <2>1 DEF OrderInv, ListsDeployed, OutcomeTrue
  <2>4. StagesOrdered'
    BY <2>1, <2>2, TaskParts DEF OrderInv, StagesOrdered, StageOK
  <2>5. ImageBeforeApplication' /\ RestoreBeforeApplication'
    BY <2>1, <2>2, PackagesAssumption
       DEF OrderInv, ImageBeforeApplication, RestoreBeforeApplication
  <2> QED
    BY <2>3, <2>4, <2>5 DEF OrderInv
<1> QED
  BY <1>1, <1>2, <1>3, <1>4, <1>5, <1>6, <1>7 DEF Next

\* The order of effects holds in every reachable state.
THEOREM EffectsOrdered == Spec => []OrderInv
<1>1. Init => OrderInv
  BY InitOrder
<1>2. TypeOK /\ OrderInv /\ [Next]_vars => OrderInv'
  BY OrderStep
<1> QED
  BY <1>1, <1>2, TypeCorrect, PTL DEF Spec

\* No record of the API server claims a transition that was not deployed, for
\* any number of monitors, tasks, faults and restarts.
THEOREM RecordsAreTrue == Spec => []CompletedIsDeployed
<1>1. OrderInv => CompletedIsDeployed
  BY DEF OrderInv, ListsDeployed, DeployedIn, CompletedIsDeployed
<1> QED
  BY <1>1, EffectsOrdered, PTL

\* A live Stateful package is never started on the target cluster from manifests
\* without a checkpoint image.
THEOREM ImageComesFirst == Spec => []ImageBeforeApplication
<1>1. OrderInv => ImageBeforeApplication
  BY DEF OrderInv
<1> QED
  BY <1>1, EffectsOrdered, PTL

\* A Stateful package is never started on the target cluster before its data is
\* restored there.
THEOREM RestoreComesFirst == Spec => []RestoreBeforeApplication
<1>1. OrderInv => RestoreBeforeApplication
  BY DEF OrderInv
<1> QED
  BY <1>1, EffectsOrdered, PTL

==============================================================================
