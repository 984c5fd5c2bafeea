----------------------------- MODULE Transition -----------------------------
(***************************************************************************)
(* The transition of packages away from a failed node of one workload      *)
(* cluster, for one ClusterPolicy.                                         *)
(*                                                                         *)
(* Four goroutines of the operator act on the policy at the same time: the *)
(* heartbeat monitor and the control-plane and CNI monitors (Triggers),    *)
(* which call triggerMigrationNodeCP, and the ClusterPolicy reconciler     *)
(* (Rec), which finds the NotReady node and calls                          *)
(* HandlePodsOnNodeForPolicy.  Each invocation reads its own copy of the   *)
(* policy from the cache and starts one goroutine per workload; these      *)
(* tasks share the copy, push commits and Argo CD applications to the git  *)
(* repositories, append a record to the status of the shared copy and send *)
(* it to the API server, which accepts it only if the copy's               *)
(* resourceVersion is current.                                             *)
(***************************************************************************)
EXTENDS Naturals, Sequences, FiniteSets, SequencesExt

CONSTANTS
    Workloads,      \* annotated workloads with a pod on the failed node
    Packages,       \* names of the policy's packages
    PackageOrder,   \* Spec.PackageSelectors, in order
    PkgOf,          \* the package each workload is annotated with
    Live,           \* packages with liveStatePackage set
    Stateful,       \* packages of type Stateful; the others are Stateless
    Triggers,       \* monitor goroutines that call triggerMigrationNodeCP
    Gated,          \* those that do so only while the policy's status is empty
    Rec,            \* the ClusterPolicy reconciler
    MaxFaults,      \* bound: failing calls, lost timing races and ties
    MaxUpdates,     \* bound: status updates after which no invocation starts;
                    \* liveness properties fail where it is reached
    MaxCrashes      \* bound: restarts of the operator

ASSUME PackagesAssumption ==
    /\ PackageOrder \in Seq(Packages)
    /\ \A p \in Packages : \E i \in DOMAIN PackageOrder : PackageOrder[i] = p
    /\ PkgOf \in [Workloads -> Packages]
    /\ Live \subseteq Packages /\ Stateful \subseteq Packages
ASSUME ActorsAssumption == Gated \subseteq Triggers /\ Rec \notin Triggers
ASSUME BoundsAssumption == MaxFaults \in Nat /\ MaxUpdates \in Nat /\ MaxCrashes \in Nat

VARIABLES
    api,      \* the ClusterPolicy at the API server
    cache,    \* the same in the manager's cache, which may lag behind
    fired,    \* IsTriggered of each monitor
    ctl,      \* where each actor stands
    mem,      \* the copy of the policy an invocation works on
    pkgs,     \* live packages whose checkpoints the invocation has still to list
    todo,     \* workloads the invocation has still to look at
    pc,       \* where each task stands
    loc,      \* local variables of each task
    gitea,    \* the Gitea client, one for the process: none yet, ready or broken
    src,      \* source repository: number of commits, manifests with checkpoint images
    dr,       \* DR repository: Argo CD application files pushed per package, 2 means more
    drBusy,   \* kinds of DR files created in the current second (their names end in it)
    restore,  \* the Velero Restore of each package on the target cluster
    ckpt,     \* the Checkpoint resource of each workload
    foreign,  \* history: how many of the stored records were there before each
              \* invocation began or came from another one
    faults,   \* failing calls so far
    crashes   \* restarts so far

apiVars   == <<api, cache>>
actorVars == <<fired, ctl, mem, pkgs, todo>>
taskVars  == <<pc, loc, gitea>>
repoVars  == <<src, dr, drBusy>>
extVars   == <<restore, ckpt>>
vars == <<apiVars, actorVars, taskVars, repoVars, extVars, foreign, faults, crashes>>

Actors == Triggers \union {Rec}
Tasks  == Actors \X Workloads
Pkg(t) == PkgOf[t[2]]

Outcome == {"Completed", "Failed"}

\* Times are stored in seconds: tie says that a stored record has the same
\* LastTransitionTime as the one of its package before it.
Record  == [pkg : Packages, condition : Outcome, tie : BOOLEAN]
Policy  == [rv : Nat, status : Seq(Record)]

NoPolicy == [rv |-> 0, status |-> <<>>]

Local ==
    [condition : Outcome,      \* the outcome to record
     list      : Seq(Record),  \* the slice append() has read
     sent      : Policy,       \* the object Status().Update has sent
     base      : Nat,          \* the commit of the clone
     changed   : BOOLEAN,      \* whether editing the clone changed a manifest
     nilTarget : BOOLEAN]      \* whether the target cluster's client is nil

NoLocal ==
    [condition |-> "Failed", list |-> <<>>, sent |-> NoPolicy, base |-> 0,
     changed |-> FALSE, nilTarget |-> FALSE]

Stage == {"none", "queued", "init", "clone", "commit", "restore", "wait", "app", "sync",
          "append", "store", "send", "apply"}

\* The semaphores of TriggerTransitionOnMissedNodeHealth and HandlePodsOnNodeForPolicy.
Slots(a) == IF a = Rec THEN 4 ELSE 2

\* What wg.Wait waits for, and the part of it that holds a slot.
Running(a) == {w \in Workloads : pc[<<a, w>>] # "none"}
Holding(a) == {w \in Running(a) : pc[<<a, w>>] # "queued"}

\* Seeded fault: the transition of a plain package has the errgroup's context too.
CtxCancelled_Always(t) == t[1] = Rec

\* After errgroup.Wait the context of a live transition in Reconcile is cancelled.
CtxCancelled(t) == t[1] = Rec /\ Pkg(t) \in Live

------------------------------------------------------------------------------
(* Helpers of the code *)

\* Seeded fault: any record of the package counts as a transition.
IsPackageTransitioned_AnyRecord(status, p) ==
    \E i \in DOMAIN status : status[i].pkg = p

\* The latest record of the package is Completed.  Records are appended in the
\* order of their times; of those with the latest time the first one counts.
IsPackageTransitioned(status, p) ==
    \E i \in DOMAIN status :
        /\ status[i].pkg = p /\ ~status[i].tie
        /\ status[i].condition = "Completed"
        /\ \A j \in DOMAIN status : j > i => status[j].pkg # p \/ status[j].tie

isClusterPolicyStatusEmpty(status) == status = <<>>

Index(p) == CHOOSE i \in DOMAIN PackageOrder : PackageOrder[i] = p

\* A call to Gitea, Velero, a cluster or the API server fails.
Fault == faults < MaxFaults /\ faults' = faults + 1

Goto(t, stage) == pc' = [pc EXCEPT ![t] = stage]

SetLocal(t, l) == loc' = [loc EXCEPT ![t] = l]

\* The goroutine returns.
Finish(t) == Goto(t, "none") /\ SetLocal(t, NoLocal)

\* Seeded fault: the record keeps the state of a transition under way.
Conclude_InProgress(t, stage, condition) ==
    Goto(t, stage) /\ SetLocal(t, [loc[t] EXCEPT !.condition = "InProgress"])

\* The outcome is known and is recorded next.
Conclude(t, stage, condition) ==
    Goto(t, stage) /\ SetLocal(t, [loc[t] EXCEPT !.condition = condition])

------------------------------------------------------------------------------
(* Invocations *)

\* A monitor detects an outage and calls triggerMigrationNodeCP.
Trigger(a) ==
    /\ ctl[a] = "idle" /\ ~fired[a]
    /\ a \in Gated => isClusterPolicyStatusEmpty(cache.status)
    /\ fired' = [fired EXCEPT ![a] = TRUE]
    /\ ctl' = [ctl EXCEPT ![a] = "listing"]
    /\ UNCHANGED <<apiVars, mem, pkgs, todo, taskVars, repoVars, extVars, foreign, faults, crashes>>

\* A gated monitor sets IsTriggered and then finds a record in the status, or
\* cannot read the policy: nothing is migrated until the cluster recovers.
TriggerLost(a) ==
    /\ ctl[a] = "idle" /\ ~fired[a] /\ a \in Gated
    /\ \/ ~isClusterPolicyStatusEmpty(cache.status) /\ UNCHANGED faults
       \/ Fault
    /\ fired' = [fired EXCEPT ![a] = TRUE]
    /\ UNCHANGED <<apiVars, ctl, mem, pkgs, todo, taskVars, repoVars, extVars, foreign, crashes>>

\* triggerMigrationNodeCP finds no policy: the machine and with it the name of
\* the cluster are unknown, or the List fails.
PolicyNotFound(a) ==
    /\ a \in Triggers /\ ctl[a] = "listing"
    /\ Fault
    /\ ctl' = [ctl EXCEPT ![a] = "idle"]
    /\ UNCHANGED <<apiVars, fired, mem, pkgs, todo, taskVars, repoVars, extVars, foreign, crashes>>

\* The invocation reads the policy and goes through its live packages first.
LoadPolicy(a) ==
    /\ ctl[a] = IF a = Rec THEN "idle" ELSE "listing"
    /\ api.rv < MaxUpdates
    /\ ctl' = [ctl EXCEPT ![a] = "packages"]
    /\ mem' = [mem EXCEPT ![a] = cache]
    /\ pkgs' = [pkgs EXCEPT ![a] = Live]
    /\ foreign' = [foreign EXCEPT ![a] = Len(api.status)]
    /\ UNCHANGED <<apiVars, fired, todo, taskVars, repoVars, extVars, faults, crashes>>

\* The loop over the packages has come to p: the tasks of the one before are done.
IsNextPackage(a, p) ==
    /\ ctl[a] = "packages" /\ todo[a] = {} /\ Running(a) = {}
    /\ p \in pkgs[a]
    /\ \A q \in pkgs[a] : Index(p) <= Index(q)

\* The workloads of the package that have a Checkpoint resource.
Listed(p) == {w \in Workloads : PkgOf[w] = p /\ ckpt[w] # "none"}

\* Checkpoints are listed.  A trigger goes on with their workloads, Reconcile
\* only looks whether there are any.
ListCheckpoints(a, p) ==
    /\ IsNextPackage(a, p)
    /\ pkgs' = [pkgs EXCEPT ![a] = @ \ {p}]
    /\ \/ /\ Listed(p) # {} \/ IsPackageTransitioned(mem[a].status, p)
          /\ todo' = [todo EXCEPT ![a] = IF a \in Triggers THEN Listed(p) ELSE {}]
          /\ UNCHANGED faults
       \/ Fault /\ UNCHANGED todo
    /\ UNCHANGED <<apiVars, fired, ctl, mem, taskVars, repoVars, extVars, foreign, crashes>>

\* There is none: both create them from the pods, stopping at the first error.
CreateCheckpoints(a, p) ==
    /\ IsNextPackage(a, p)
    /\ Listed(p) = {} /\ ~IsPackageTransitioned(mem[a].status, p)
    /\ pkgs' = [pkgs EXCEPT ![a] = @ \ {p}]
    /\ LET all == {w \in Workloads : PkgOf[w] = p}
       IN  \E made \in SUBSET all :
              /\ ckpt' = [w \in Workloads |-> IF w \in made THEN "created" ELSE ckpt[w]]
              /\ IF made = all THEN UNCHANGED faults ELSE Fault
    /\ UNCHANGED <<apiVars, fired, ctl, mem, todo, taskVars, repoVars, restore, foreign, crashes>>

\* Then Reconcile lists the nodes of the cluster and the pods of the failed one.
ListPods ==
    /\ ctl[Rec] = "packages" /\ pkgs[Rec] = {}
    /\ ctl' = [ctl EXCEPT ![Rec] = "pods"]
    /\ \/ todo' = [todo EXCEPT ![Rec] = Workloads] /\ UNCHANGED faults
       \/ Fault /\ UNCHANGED todo
    /\ UNCHANGED <<apiVars, fired, mem, pkgs, taskVars, repoVars, extVars, foreign, crashes>>

\* The loop over the workloads is not blocked in a send to the semaphore.
LoopRuns(a) == Running(a) = Holding(a)

\* The shared copy records the workload's package as Completed by now.
Skip(a, w) ==
    /\ w \in todo[a] /\ LoopRuns(a)
    /\ IsPackageTransitioned(mem[a].status, PkgOf[w])
    /\ todo' = [todo EXCEPT ![a] = @ \ {w}]
    /\ UNCHANGED <<apiVars, fired, ctl, mem, pkgs, taskVars, repoVars, extVars, foreign, faults, crashes>>

\* It does not: the task is counted and waits for a slot.
StartTask(a, w) ==
    /\ w \in todo[a] /\ LoopRuns(a)
    /\ ~IsPackageTransitioned(mem[a].status, PkgOf[w])
    /\ todo' = [todo EXCEPT ![a] = @ \ {w}]
    /\ Goto(<<a, w>>, "queued")
    /\ UNCHANGED <<apiVars, fired, ctl, mem, pkgs, loc, gitea, repoVars, extVars, foreign, faults, crashes>>

\* sem <- struct{}{}: the goroutine starts, whatever was recorded meanwhile.
AcquireSlot(a, w) ==
    /\ pc[<<a, w>>] = "queued"
    /\ Cardinality(Holding(a)) < Slots(a)
    /\ Goto(<<a, w>>, "init")
    /\ UNCHANGED <<apiVars, actorVars, loc, gitea, repoVars, extVars, foreign, faults, crashes>>

\* wg.Wait returns and the copy is dropped.
InvocationEnds(a) ==
    /\ ctl[a] = IF a = Rec THEN "pods" ELSE "packages"
    /\ pkgs[a] = {} /\ todo[a] = {} /\ Running(a) = {}
    /\ ctl' = [ctl EXCEPT ![a] = "idle"]
    /\ mem' = [mem EXCEPT ![a] = NoPolicy]
    /\ foreign' = [foreign EXCEPT ![a] = 0]
    /\ UNCHANGED <<apiVars, fired, pkgs, todo, taskVars, repoVars, extVars, faults, crashes>>

------------------------------------------------------------------------------
(* One task: TransitionOnMissedNodeHealth under a trigger, else              *)
(* TransitionSelectedLiveWorkloads or TransitionSelectedWorkloads.           *)

TaskUnchanged == UNCHANGED <<apiVars, fired, ctl, pkgs, todo, gitea, foreign, crashes>>

\* Where the switch on the package's type leads.
FirstStage(t) ==
    CASE Pkg(t) \notin Stateful -> "app"
      [] Pkg(t) \in Stateful /\ Pkg(t) \in Live -> "clone"
      [] OTHER -> "restore"

\* giteaclient.GetClient: the first caller makes the client of the process.
GetClient == gitea # "broken" /\ gitea' = "ready"

\* If that fails the client is kept all the same, never to be initialised.
GetClientFails == gitea = "none" /\ gitea' = "broken" /\ Fault

\* Gitea client, user, repositories, the dr repository, the target cluster and
\* its client; for a live Stateful package the checkpoint image, for another
\* Stateful one a completed backup.  Only a trigger lets a nil client through.
Initialise(t) ==
    /\ pc[t] = "init"
    /\ GetClient
    /\ FirstStage(t) = "clone" => ckpt[t[2]] = "image"
    /\ Goto(t, FirstStage(t))
    /\ \/ UNCHANGED <<loc, faults>>
       \/ /\ t[1] \in Triggers
          /\ SetLocal(t, [loc[t] EXCEPT !.nilTarget = TRUE])
          /\ Fault
    /\ UNCHANGED <<apiVars, fired, ctl, mem, pkgs, todo, repoVars, extVars, foreign, crashes>>

\* An early return before anything was changed; nothing is recorded.
GiveUp(t) ==
    /\ pc[t] = "init"
    /\ Finish(t)
    /\ \/ gitea = "broken" /\ UNCHANGED <<gitea, faults>>
       \/ GetClientFails
       \/ GetClient /\ FirstStage(t) = "clone" /\ ckpt[t[2]] # "image" /\ UNCHANGED faults
       \/ GetClient /\ Fault
    /\ UNCHANGED <<apiVars, fired, ctl, mem, pkgs, todo, repoVars, extVars, foreign, crashes>>

\* CheckRepoForMatchingManifests and UpdateResourceContainers on a fresh clone.
\* Under a cancelled context the clone fails.
CloneAndEdit(t) ==
    /\ pc[t] = "clone"
    /\ \/ /\ ~CtxCancelled(t)
          /\ Goto(t, "commit")
          /\ SetLocal(t, [loc[t] EXCEPT !.base = src.commits,
                                        !.changed = t[2] \notin src.replaced])
          /\ UNCHANGED faults
       \/ CtxCancelled(t) /\ Finish(t) /\ UNCHANGED faults
       \/ Finish(t) /\ Fault
    /\ TaskUnchanged /\ UNCHANGED <<mem, repoVars, extVars>>

\* Seeded fault: the error of CommitAndPush is only logged.
CommitAndPush_IgnoreError(t) ==
    /\ pc[t] = "commit"
    /\ Goto(t, "app")
    /\ \/ src' = [commits |-> src.commits + 1, replaced |-> src.replaced \union {t[2]}]
       \/ UNCHANGED src
    /\ TaskUnchanged /\ UNCHANGED <<loc, mem, dr, drBusy, extVars, faults>>

\* The commit is refused when nothing changed, the push when another commit
\* arrived since the clone; either way the task returns without a record.
CommitAndPush(t) ==
    /\ pc[t] = "commit"
    /\ \/ /\ loc[t].changed /\ loc[t].base = src.commits
          /\ src' = [commits |-> src.commits + 1, replaced |-> src.replaced \union {t[2]}]
          /\ Goto(t, "app")
          /\ UNCHANGED <<loc, faults>>
       \/ /\ ~(loc[t].changed /\ loc[t].base = src.commits)
          /\ Finish(t)
          /\ UNCHANGED <<src, faults>>
       \/ Finish(t) /\ Fault /\ UNCHANGED src
    /\ TaskUnchanged /\ UNCHANGED <<mem, dr, drBusy, extVars>>

\* CreateAndPushVeleroRestore: the Restore manifest.  Its file is named after
\* the second it is created in, so a second one in that second is refused.
PushRestore(t) ==
    /\ pc[t] = "restore"
    /\ \/ /\ "restore" \notin drBusy
          /\ drBusy' = drBusy \union {"restore"}
          /\ restore' = [restore EXCEPT ![Pkg(t)] = IF @ = "none" THEN "filed" ELSE @]
          /\ Goto(t, "wait")
          /\ UNCHANGED <<loc, faults>>
       \/ Conclude(t, "append", "Failed") /\ Fault /\ UNCHANGED <<drBusy, restore>>
    /\ TaskUnchanged /\ UNCHANGED <<mem, src, dr, ckpt>>

\* Seeded fault: a fixed delay instead of waiting for the Restore.
WaitForRestore_FixedDelay(t) ==
    /\ pc[t] = "wait"
    /\ Goto(t, "app")
    /\ drBusy' = {}
    /\ TaskUnchanged /\ UNCHANGED <<loc, mem, src, dr, extVars, faults>>

\* waitForVeleroRestoreCompletion, first after 10 s: a Restore Argo CD has not
\* applied by then, a failed one (after 30 minutes if it failed in part) and one
\* that outlasts 30 minutes are errors.
WaitForRestore(t) ==
    /\ pc[t] = "wait"
    /\ drBusy' = {}
    /\ \/ restore[Pkg(t)] = "Completed" /\ Goto(t, "app") /\ UNCHANGED <<loc, faults>>
       \/ restore[Pkg(t)] = "Failed" /\ Conclude(t, "append", "Failed") /\ UNCHANGED faults
       \/ restore[Pkg(t)] \in {"filed", "New"} /\ Conclude(t, "append", "Failed") /\ Fault
    /\ TaskUnchanged /\ UNCHANGED <<mem, src, dr, extVars>>

\* Seeded fault: the error of CreateFile is dropped.
PushApp_IgnoreError(t) ==
    /\ pc[t] = "app"
    /\ \/ /\ "app" \notin drBusy
          /\ dr' = [dr EXCEPT ![Pkg(t)] = IF @ < 2 THEN @ + 1 ELSE 2]
          /\ drBusy' = drBusy \union {"app"}
          /\ UNCHANGED faults
       \/ Fault /\ UNCHANGED <<dr, drBusy>>
    /\ Conclude(t, "sync", "Completed")
    /\ TaskUnchanged /\ UNCHANGED <<mem, src, extVars>>

\* CreateAndPushArgoApp, and CreateAndPushLiveStateBackupRestore around it: the
\* same naming rule, and an error that is recorded.
PushApp(t) ==
    /\ pc[t] = "app"
    /\ \/ /\ "app" \notin drBusy
          /\ dr' = [dr EXCEPT ![Pkg(t)] = IF @ < 2 THEN @ + 1 ELSE 2]
          /\ drBusy' = drBusy \union {"app"}
          /\ Conclude(t, "sync", "Completed")
          /\ UNCHANGED faults
       \/ Conclude(t, "append", "Failed") /\ Fault /\ UNCHANGED <<dr, drBusy>>
    /\ TaskUnchanged /\ UNCHANGED <<mem, src, extVars>>

\* TriggerArgoCDSyncWithKubeClient: an error only changes the message.
Sync(t) ==
    /\ pc[t] = "sync" /\ ~loc[t].nilTarget
    /\ Goto(t, "append")
    /\ TaskUnchanged /\ UNCHANGED <<loc, mem, repoVars, extVars, faults>>

\* append(clusterPolicy.Status.TransitionedPackages, ...) on the shared copy is
\* not synchronised: the slice is read, and written back in a later step.
ReadStatus(t) ==
    /\ pc[t] = "append"
    /\ Goto(t, "store")
    /\ SetLocal(t, [loc[t] EXCEPT !.list = mem[t[1]].status])
    /\ TaskUnchanged /\ UNCHANGED <<mem, repoVars, extVars, faults>>

AppendRecord(t) ==
    /\ pc[t] = "store"
    /\ mem' = [mem EXCEPT ![t[1]].status =
                  Append(loc[t].list, [pkg |-> Pkg(t), condition |-> loc[t].condition,
                                       tie |-> FALSE])]
    /\ Goto(t, "send")
    /\ TaskUnchanged /\ UNCHANGED <<loc, repoVars, extVars, faults>>

\* The last record was made in the second of an earlier one of its package.
Tied(status) ==
    IF \E i \in 1..(Len(status) - 1) : status[i].pkg = status[Len(status)].pkg
      THEN [status EXCEPT ![Len(status)].tie = TRUE] ELSE status

\* Seeded fault: the copy takes the current resourceVersion before it is sent.
SendStatus_FreshVersion(t) ==
    /\ pc[t] = "send"
    /\ Goto(t, "apply")
    /\ SetLocal(t, [loc[t] EXCEPT !.sent = [mem[t[1]] EXCEPT !.rv = api.rv]])
    /\ TaskUnchanged /\ UNCHANGED <<mem, repoVars, extVars, faults>>

\* Status().Update serialises the copy, its times in seconds; a cancelled context
\* fails it here.
SendStatus(t) ==
    /\ pc[t] = "send"
    /\ IF CtxCancelled(t)
         THEN Finish(t) /\ UNCHANGED faults
         ELSE \/ /\ Goto(t, "apply")
                 /\ SetLocal(t, [loc[t] EXCEPT !.sent = mem[t[1]]])
                 /\ UNCHANGED faults
              \/ /\ Goto(t, "apply")
                 /\ SetLocal(t, [loc[t] EXCEPT !.sent =
                                    [mem[t[1]] EXCEPT !.status = Tied(@)]])
                 /\ Fault
    /\ TaskUnchanged /\ UNCHANGED <<mem, repoVars, extVars>>

\* The API server compares resource versions.
Accepts(object, request) == object.rv = request.rv

\* The API server stores the status of a current copy and the reply is decoded
\* into the shared copy, or is lost; a conflict or an error is logged or ignored.
ApplyStatus(t) ==
    /\ pc[t] = "apply"
    /\ \/ /\ Accepts(api, loc[t].sent)
          /\ api' = [rv |-> api.rv + 1, status |-> loc[t].sent.status]
          /\ foreign' = [a \in Actors |-> IF a = t[1] THEN foreign[a] ELSE Len(api'.status)]
          /\ \/ mem' = [mem EXCEPT ![t[1]] = api'] /\ UNCHANGED faults
             \/ Fault /\ UNCHANGED mem
       \/ ~Accepts(api, loc[t].sent) /\ UNCHANGED <<api, mem, foreign, faults>>
       \/ Fault /\ UNCHANGED <<api, mem, foreign>>
    /\ Finish(t)
    /\ UNCHANGED <<cache, fired, ctl, pkgs, todo, gitea, repoVars, extVars, crashes>>

------------------------------------------------------------------------------
(* The process and its environment *)

\* What a restart leaves.  The heartbeat store is empty and the failed node
\* silent, so the ungated trigger does not fire again; the others may.
ProcessRestarts ==
    /\ cache' = api
    /\ fired' = [a \in Triggers |-> a \notin Gated]
    /\ ctl' = [a \in Actors |-> "idle"]
    /\ mem' = [a \in Actors |-> NoPolicy]
    /\ pkgs' = [a \in Actors |-> {}]
    /\ todo' = [a \in Actors |-> {}]
    /\ pc' = [t \in Tasks |-> "none"]
    /\ loc' = [t \in Tasks |-> NoLocal]
    /\ gitea' = "none"
    /\ foreign' = [a \in Actors |-> 0]
    /\ UNCHANGED <<api, repoVars, extVars, faults>>

\* The sync dereferences a nil client: the panic in a goroutine ends the process.
Panic(t) ==
    /\ pc[t] = "sync" /\ loc[t].nilTarget
    /\ ProcessRestarts
    /\ UNCHANGED crashes

Restart ==
    /\ crashes < MaxCrashes
    /\ crashes' = crashes + 1
    /\ ProcessRestarts

CacheSync ==
    /\ cache # api
    /\ cache' = api
    /\ UNCHANGED <<api, actorVars, taskVars, repoVars, extVars, foreign, faults, crashes>>

\* The clock reaches the next second.
NextSecond ==
    /\ drBusy # {}
    /\ drBusy' = {}
    /\ UNCHANGED <<apiVars, actorVars, taskVars, src, dr, extVars, foreign, faults, crashes>>

\* The checkpoint controller sets LastCheckpointImage.
CheckpointTaken(w) ==
    /\ ckpt[w] = "created"
    /\ ckpt' = [ckpt EXCEPT ![w] = "image"]
    /\ UNCHANGED <<apiVars, actorVars, taskVars, repoVars, restore, foreign, faults, crashes>>

\* Argo CD creates the Restore and Velero runs it, once: its name does not
\* depend on the attempt.
RestoreProgress(p) ==
    /\ \/ restore[p] = "filed" /\ restore' = [restore EXCEPT ![p] = "New"] /\ UNCHANGED faults
       \/ restore[p] = "New" /\ restore' = [restore EXCEPT ![p] = "Completed"] /\ UNCHANGED faults
       \/ restore[p] = "New" /\ restore' = [restore EXCEPT ![p] = "Failed"] /\ Fault
    /\ UNCHANGED <<apiVars, actorVars, taskVars, repoVars, ckpt, foreign, crashes>>

Init ==
    /\ api = NoPolicy
    /\ cache = NoPolicy
    /\ fired = [a \in Triggers |-> FALSE]
    /\ ctl = [a \in Actors |-> "idle"]
    /\ mem = [a \in Actors |-> NoPolicy]
    /\ pkgs = [a \in Actors |-> {}]
    /\ todo = [a \in Actors |-> {}]
    /\ pc = [t \in Tasks |-> "none"]
    /\ loc = [t \in Tasks |-> NoLocal]
    /\ gitea = "none"
    /\ src = [commits |-> 0, replaced |-> {}]
    /\ dr = [p \in Packages |-> 0]
    /\ drBusy = {}
    /\ restore = [p \in Packages |-> "none"]
    /\ ckpt \in [Workloads -> {"none", "created", "image"}]
    /\ \A w \in Workloads : PkgOf[w] \notin Live => ckpt[w] = "none"
    /\ foreign = [a \in Actors |-> 0]
    /\ faults = 0
    /\ crashes = 0

Invocation(a) ==
    \/ PolicyNotFound(a) \/ LoadPolicy(a)
    \/ \E p \in Packages : ListCheckpoints(a, p) \/ CreateCheckpoints(a, p)
    \/ a = Rec /\ ListPods
    \/ \E w \in Workloads : Skip(a, w) \/ StartTask(a, w) \/ AcquireSlot(a, w)
    \/ InvocationEnds(a)

TaskStep(t) ==
    \/ Initialise(t) \/ GiveUp(t)
    \/ CloneAndEdit(t) \/ CommitAndPush(t)
    \/ PushRestore(t) \/ WaitForRestore(t)
    \/ PushApp(t) \/ Sync(t) \/ Panic(t)
    \/ ReadStatus(t) \/ AppendRecord(t) \/ SendStatus(t) \/ ApplyStatus(t)

Next ==
    \/ \E a \in Triggers : Trigger(a) \/ TriggerLost(a)
    \/ \E a \in Actors : Invocation(a)
    \/ \E t \in Tasks : TaskStep(t)
    \/ Restart \/ CacheSync \/ NextSecond
    \/ \E w \in Workloads : CheckpointTaken(w)
    \/ \E p \in Packages : RestoreProgress(p)

Spec == Init /\ [][Next]_vars

\* Goroutines are scheduled and their calls return, the reconciler is requeued
\* every 5 s, watch events arrive, time passes, and Argo CD and Velero work.
Fairness ==
    /\ \A a \in Actors : WF_vars(Invocation(a))
    /\ \A t \in Tasks : WF_vars(TaskStep(t))
    /\ WF_vars(CacheSync) /\ WF_vars(NextSecond)
    /\ \A p \in Packages : WF_vars(RestoreProgress(p))

FairSpec == Spec /\ Fairness

------------------------------------------------------------------------------
(* Properties *)

TypeOK ==
    /\ api \in Policy /\ cache \in Policy
    /\ fired \in [Triggers -> BOOLEAN]
    /\ ctl \in [Actors -> {"idle", "listing", "packages", "pods"}]
    /\ mem \in [Actors -> Policy]
    /\ pkgs \in [Actors -> SUBSET Packages]
    /\ todo \in [Actors -> SUBSET Workloads]
    /\ pc \in [Tasks -> Stage]
    /\ loc \in [Tasks -> Local]
    /\ gitea \in {"none", "ready", "broken"}
    /\ src \in [commits : Nat, replaced : SUBSET Workloads]
    /\ dr \in [Packages -> 0..2]
    /\ drBusy \subseteq {"app", "restore"}
    /\ restore \in [Packages -> {"none", "filed", "New", "Completed", "Failed"}]
    /\ ckpt \in [Workloads -> {"none", "created", "image"}]
    /\ foreign \in [Actors -> Nat]
    /\ faults \in 0..MaxFaults
    /\ crashes \in 0..MaxCrashes

\* A package the API server has a Completed record of has an Argo CD application
\* in the DR repository, whatever raced, failed or restarted on the way.
CompletedIsDeployed ==
    \A i \in DOMAIN api.status :
        api.status[i].condition = "Completed" => dr[api.status[i].pkg] > 0

\* The application of a live Stateful package is deployed only after a manifest
\* with its checkpoint image was pushed to the source repository it points to.
ImageBeforeApplication ==
    \A p \in Live \intersect Stateful :
        dr[p] > 0 => \E w \in Workloads : PkgOf[w] = p /\ w \in src.replaced

\* The application of another Stateful package is deployed only after Velero
\* completed the Restore of its data (the wait in CreateAndPushVeleroRestore).
RestoreBeforeApplication ==
    \A p \in Stateful \ Live : dr[p] > 0 => restore[p] = "Completed"

\* The first n records of a list are those of another.
Keeps(n, list, other) ==
    n <= Len(list) /\ n <= Len(other) /\ \A i \in 1..n : list[i] = other[i]

\* A status update never removes, moves or changes a record that was stored before
\* its invocation began, or by another invocation: the version check keeps stale
\* caches, copies and replies of different invocations apart.  Only a record of
\* the same invocation can be lost, in the unsynchronised append.
ForeignRecordsStay ==
    [][\A t \in Tasks :
          pc[t] = "apply" /\ pc'[t] # "apply" => Keeps(foreign[t[1]], api.status, api'.status)]_api

\* No status update removes or changes a record an earlier one stored: with at
\* most one recording task per invocation, conflicts keep the actors apart.
StatusAppendOnly == [][IsPrefix(api.status, api'.status)]_api

==============================================================================
