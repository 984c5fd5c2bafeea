------------------------ MODULE CheckpointController ------------------------
(***************************************************************************)
(* The Checkpoint controller (internal/controller/checkpoint_controller.go) *)
(* for one Checkpoint resource.  Reconcile runs one call at a time: it      *)
(* keeps the finalizer, schedules a cron job and, for a resource without    *)
(* LastCheckpointTime, takes a first checkpoint itself.  The cron library   *)
(* starts every due job in a goroutine of its own, so runs of               *)
(* performCheckpoint overlap.  The job is a closure over the copy of the    *)
(* resource its Reconcile call read: runs of one job share that copy        *)
(* through a pointer, and the API server refuses a status update from a     *)
(* copy that is not current.                                                *)
(***************************************************************************)
EXTENDS Naturals, Sequences, FiniteSets, SequencesExt

CONSTANTS
    ContainerOrder,  \* the pod's containers, in order
    Ticks,           \* identities of the runs the cron job starts
    First,           \* identity of the run Reconcile makes itself
    Pointers,        \* addresses of copies, enough for all that are in use
    None,            \* no image, no pointer
    MaxTicks,        \* bound: runs the cron job starts
    MaxFaults,       \* bound: failing calls and restarts of the operator
    MaxEdits         \* bound: times someone writes a wrong schedule

Containers == Range(ContainerOrder)
Runs == Ticks \union {First}

ASSUME NamesAssumption ==
    /\ ContainerOrder \in Seq(Containers) /\ ContainerOrder # <<>>
    /\ None \notin Containers /\ None \notin Pointers /\ First \notin Ticks
ASSUME BoundsAssumption == MaxTicks \in Nat /\ MaxFaults \in Nat /\ MaxEdits \in Nat
\* Memory does not run out: the job and every run may hold a copy, and a new
\* Reconcile call still gets one.
ASSUME PointersAssumption ==
    /\ IsFiniteSet(Ticks) /\ IsFiniteSet(Pointers)
    /\ Cardinality(Pointers) > Cardinality(Ticks) + 1

VARIABLES
    api,       \* the Checkpoint at the API server
    cache,     \* the same in the manager's cache
    queued,    \* whether the work queue holds the resource's key
    rec,       \* the Reconcile call: where it stands and its copy's pointer
    heap,      \* the copies in memory
    cron,      \* pointers the scheduler's entries have captured
    job,       \* scheduledJobs: the entry of this resource
    run,       \* the runs of performCheckpoint
    registry,  \* containers whose checkpoint image has been pushed
    ticks,     \* runs the cron job has started
    faults,    \* failing calls and restarts so far
    edits      \* wrong schedules so far

recVars  == <<queued, rec, cron, job>>
boundVars == <<ticks, faults, edits>>
vars == <<api, cache, recVars, heap, run, registry, boundVars>>

Phase == {"", "Running", "Completed", "Failed"}

\* A Checkpoint: only the fields some step reads.  LastCheckpointImage is named
\* after the container, timed says that LastCheckpointTime is set, valid that
\* Spec.Schedule is a cron expression.
Object ==
    [present : BOOLEAN, rv : Nat, finalizer : BOOLEAN, deleting : BOOLEAN, valid : BOOLEAN,
     timed : BOOLEAN, image : Containers \union {None}, phase : Phase]

Created ==
    [present |-> TRUE, rv |-> 1, finalizer |-> FALSE, deleting |-> FALSE,
     valid |-> TRUE, timed |-> FALSE, image |-> None, phase |-> ""]

\* The status updates of a run, by their place in the code.
UpdatePoint == {"begin", "complete", "final", "innerFail", "outerFail"}

RunState ==
    [at    : {"none", "pod", "work", "ok", "error"} \union UpdatePoint,
     stage : {"write", "send", "apply"},       \* of the update at this point
     next  : 1..Len(ContainerOrder),           \* the container in hand
     ptr   : Pointers \union {None},           \* the copy it works on
     sent  : Object]                           \* what the update has sent

NoRun == [at |-> "none", stage |-> "write", next |-> 1, ptr |-> None, sent |-> Created]

NoCall == [at |-> "idle", ptr |-> None]

InUse == cron \union {rec.ptr} \union {run[r].ptr : r \in Runs}

Fault == faults < MaxFaults /\ faults' = faults + 1

\* The API server takes an update of a current copy only.  A call may also fail
\* after it has been taken: the copy is then out of date.
Accepts(object, request) == object.present /\ object.rv = request.rv

------------------------------------------------------------------------------
(* Reconcile *)

Starts(r, p) == run' = [run EXCEPT ![r] = [NoRun EXCEPT !.at = "pod", !.ptr = p]]

\* An error, or a cluster that is not ready: the key is queued again.
Retry == rec' = NoCall /\ queued' = TRUE

\* Get finds nothing: a job that is left is removed.
ReconcileGone ==
    /\ rec.at = "idle" /\ queued /\ ~cache.present
    /\ queued' = FALSE
    /\ cron' = cron \ {job}
    /\ job' = None
    /\ UNCHANGED <<api, cache, rec, heap, run, registry, boundVars>>

\* Get fills a new copy; without the finalizer that is added first.
ReconcileStart ==
    /\ rec.at = "idle" /\ queued /\ cache.present
    /\ queued' = FALSE
    /\ LET p == CHOOSE q \in Pointers : q \notin InUse
           step == IF ~cache.finalizer THEN "finalizer"
                   ELSE IF cache.deleting THEN "delete" ELSE "connect"
       IN  /\ rec' = [at |-> step, ptr |-> p]
           /\ heap' = [q \in Pointers |-> IF q = p THEN cache
                                          ELSE IF q \in InUse THEN heap[q] ELSE Created]
    /\ UNCHANGED <<api, cache, cron, job, run, registry, boundVars>>

AddFinalizer ==
    /\ rec.at = "finalizer"
    /\ \/ /\ Accepts(api, heap[rec.ptr])
          /\ api' = [api EXCEPT !.rv = @ + 1, !.finalizer = TRUE]
          /\ \/ /\ heap' = [heap EXCEPT ![rec.ptr] = api']
                /\ rec' = [rec EXCEPT !.at = IF api.deleting THEN "delete" ELSE "connect"]
                /\ UNCHANGED <<queued, faults>>
             \/ Fault /\ Retry /\ UNCHANGED heap
       \/ ~Accepts(api, heap[rec.ptr]) /\ Retry /\ UNCHANGED <<api, heap, faults>>
       \/ Fault /\ Retry /\ UNCHANGED <<api, heap>>
    /\ UNCHANGED <<cache, cron, job, run, registry, ticks, edits>>

\* Seeded fault: the job is left to the scheduler.
ReconcileDelete_KeepsJob ==
    /\ rec.at = "delete"
    /\ \/ /\ Accepts(api, heap[rec.ptr])
          /\ api' = [api EXCEPT !.rv = @ + 1, !.finalizer = FALSE, !.present = FALSE]
          /\ rec' = NoCall
          /\ UNCHANGED <<queued, faults>>
       \/ ~Accepts(api, heap[rec.ptr]) /\ Retry /\ UNCHANGED <<api, faults>>
       \/ Fault /\ Retry /\ UNCHANGED api
    /\ UNCHANGED <<cache, cron, job, heap, run, registry, ticks, edits>>

\* reconcileDelete: the job is removed, then the finalizer, with which the
\* resource goes.
ReconcileDelete ==
    /\ rec.at = "delete"
    /\ cron' = cron \ {job}
    /\ job' = None
    /\ \/ /\ Accepts(api, heap[rec.ptr])
          /\ api' = [api EXCEPT !.rv = @ + 1, !.finalizer = FALSE, !.present = FALSE]
          /\ \/ rec' = NoCall /\ UNCHANGED <<queued, faults>>
             \/ Fault /\ Retry
       \/ ~Accepts(api, heap[rec.ptr]) /\ Retry /\ UNCHANGED <<api, faults>>
       \/ Fault /\ Retry /\ UNCHANGED api
    /\ UNCHANGED <<cache, heap, run, registry, ticks, edits>>

\* The workload cluster's client, nodes and pod, and initializeClients.
ConnectFails ==
    /\ rec.at = "connect"
    /\ Fault /\ Retry
    /\ UNCHANGED <<api, cache, cron, job, heap, run, registry, ticks, edits>>

\* Seeded fault: a job that is there already is kept.
NewJob_Keeps(p) == IF job = None THEN p ELSE job

\* The entry of this resource is replaced.
NewJob(p) == p

\* reconcileNormal, up to the first checkpoint.
ReconcileNormal ==
    LET p == rec.ptr
    IN  /\ rec.at = "connect" /\ heap[p].valid
        /\ job' = NewJob(p)
        /\ cron' = (cron \ {job}) \union {NewJob(p)}
        /\ IF heap[p].timed
             THEN rec' = NoCall /\ UNCHANGED run
             ELSE rec' = [rec EXCEPT !.at = "first"] /\ Starts(First, p)
        /\ UNCHANGED <<api, cache, queued, heap, registry, boundVars>>

\* AddFunc refuses the schedule when the old entry has already been removed.
ScheduleRefused ==
    /\ rec.at = "connect" /\ ~heap[rec.ptr].valid
    /\ cron' = cron \ {job}
    /\ job' = None
    /\ Retry
    /\ UNCHANGED <<api, cache, heap, run, registry, boundVars>>

\* The first checkpoint returns; its error makes Reconcile fail.
FirstReturns ==
    /\ rec.at = "first" /\ run[First].at \in {"ok", "error"}
    /\ rec' = NoCall
    /\ queued' = (queued \/ run[First].at = "error")
    /\ run' = [run EXCEPT ![First] = NoRun]
    /\ UNCHANGED <<api, cache, heap, cron, job, registry, boundVars>>

\* RequeueAfter: time.Hour
HourPasses ==
    /\ rec.at = "idle" /\ ~queued /\ job # None
    /\ queued' = TRUE
    /\ UNCHANGED <<api, cache, rec, cron, job, heap, run, registry, boundVars>>

------------------------------------------------------------------------------
(* performCheckpoint and checkpointContainer *)

\* The scheduler starts a due job whether or not the previous run has returned.
Tick(r) ==
    /\ ticks < MaxTicks
    /\ run[r] = NoRun
    /\ \E p \in cron : Starts(r, p)
    /\ ticks' = ticks + 1
    /\ UNCHANGED <<api, cache, recVars, heap, registry, faults, edits>>

TickReturns(r) ==
    /\ run[r].at \in {"ok", "error"}
    /\ run' = [run EXCEPT ![r] = NoRun]
    /\ UNCHANGED <<api, cache, recVars, heap, registry, boundVars>>

At(r, point) ==
    run' = [run EXCEPT ![r].at = point, ![r].stage = "write", ![r].sent = Created]

\* A pod that is not Running is no error.
GetPod(r) ==
    /\ run[r].at = "pod"
    /\ \/ At(r, "begin") /\ UNCHANGED faults
       \/ Fault /\ (At(r, "ok") \/ At(r, "error"))
    /\ UNCHANGED <<api, cache, recVars, heap, registry, ticks, edits>>

\* The status fields a run assigns before an update.
Assigned(o, point, c) ==
    CASE point = "begin" -> [o EXCEPT !.timed = TRUE, !.phase = "Running"]
      [] point \in {"innerFail", "outerFail"} -> [o EXCEPT !.timed = TRUE, !.phase = "Failed"]
      [] OTHER -> [o EXCEPT !.timed = TRUE, !.phase = "Completed", !.image = c]

WriteStatus(r) ==
    /\ run[r].at \in UpdatePoint /\ run[r].stage = "write"
    /\ heap' = [heap EXCEPT ![run[r].ptr] =
                   Assigned(@, run[r].at, ContainerOrder[run[r].next])]
    /\ run' = [run EXCEPT ![r].stage = "send"]
    /\ UNCHANGED <<api, cache, recVars, registry, boundVars>>

\* Seeded fault: the copy takes the current resourceVersion before it is sent.
SendStatus_FreshVersion(r) ==
    /\ run[r].at \in UpdatePoint /\ run[r].stage = "send"
    /\ run' = [run EXCEPT ![r].stage = "apply",
                          ![r].sent = [heap[run[r].ptr] EXCEPT !.rv = api.rv]]
    /\ UNCHANGED <<api, cache, recVars, heap, registry, boundVars>>

\* Status().Update serialises the copy, whoever has written to it in between.
SendStatus(r) ==
    /\ run[r].at \in UpdatePoint /\ run[r].stage = "send"
    /\ run' = [run EXCEPT ![r].stage = "apply", ![r].sent = heap[run[r].ptr]]
    /\ UNCHANGED <<api, cache, recVars, heap, registry, boundVars>>

\* Seeded fault: the loop goes one container too far.
Continue_OffByOne(r) ==
    CASE run[r].at = "begin" -> At(r, "work")
      [] run[r].at = "complete" -> At(r, "final")
      [] run[r].at = "innerFail" -> At(r, "outerFail")
      [] run[r].at = "outerFail" -> At(r, "error")
      [] OTHER -> run' = [run EXCEPT ![r].at = "begin", ![r].stage = "write",
                                     ![r].sent = Created, ![r].next = @ + 1]

\* Where a run goes on after an update that was stored.  An error in
\* checkpointContainer is recorded there and once more by performCheckpoint.
Continue(r) ==
    CASE run[r].at = "begin" -> At(r, "work")
      [] run[r].at = "complete" -> At(r, "final")
      [] run[r].at = "innerFail" -> At(r, "outerFail")
      [] run[r].at = "outerFail" -> At(r, "error")
      [] OTHER -> IF run[r].next = Len(ContainerOrder) THEN At(r, "ok")
                  ELSE run' = [run EXCEPT ![r].at = "begin", ![r].stage = "write",
                                          ![r].sent = Created, ![r].next = @ + 1]

\* After one that failed the run stops at this container.
Abort(r) == At(r, IF run[r].at = "outerFail" THEN "error" ELSE "outerFail")

ApplyStatus(r) ==
    /\ run[r].at \in UpdatePoint /\ run[r].stage = "apply"
    /\ \/ /\ Accepts(api, run[r].sent)
          /\ api' = [api EXCEPT !.rv = @ + 1, !.timed = run[r].sent.timed,
                                !.image = run[r].sent.image, !.phase = run[r].sent.phase]
          /\ \/ heap' = [heap EXCEPT ![run[r].ptr] = api'] /\ Continue(r) /\ UNCHANGED faults
             \/ Fault /\ Abort(r) /\ UNCHANGED heap
       \/ ~Accepts(api, run[r].sent) /\ Abort(r) /\ UNCHANGED <<api, heap, faults>>
       \/ Fault /\ Abort(r) /\ UNCHANGED <<api, heap>>
    /\ UNCHANGED <<cache, recVars, registry, ticks, edits>>

\* Seeded fault: an error of PushImage is only logged.
MakeImage_IgnoreError(r) ==
    /\ run[r].at = "work"
    /\ At(r, "complete")
    /\ \/ registry' = registry \union {ContainerOrder[run[r].next]} /\ UNCHANGED faults
       \/ Fault /\ UNCHANGED registry
    /\ UNCHANGED <<api, cache, recVars, heap, ticks, edits>>

\* The kubelet's checkpoint, its upload to and download from MinIO, the build of
\* the image and its push.
MakeImage(r) ==
    /\ run[r].at = "work"
    /\ \/ /\ registry' = registry \union {ContainerOrder[run[r].next]}
          /\ At(r, "complete")
          /\ UNCHANGED faults
       \/ Fault /\ At(r, "innerFail") /\ UNCHANGED registry
    /\ UNCHANGED <<api, cache, recVars, heap, ticks, edits>>

------------------------------------------------------------------------------
(* The environment *)

\* Someone deletes the resource.
Delete ==
    /\ api.present /\ ~api.deleting
    /\ api' = IF api.finalizer THEN [api EXCEPT !.rv = @ + 1, !.deleting = TRUE]
              ELSE [api EXCEPT !.rv = @ + 1, !.present = FALSE]
    /\ UNCHANGED <<cache, recVars, heap, run, registry, boundVars>>

\* Someone writes a schedule that is no cron expression, or a good one again.
EditSchedule ==
    /\ api.present
    /\ \/ api.valid /\ edits < MaxEdits /\ edits' = edits + 1
       \/ ~api.valid /\ UNCHANGED edits
    /\ api' = [api EXCEPT !.rv = @ + 1, !.valid = ~@]
    /\ UNCHANGED <<cache, recVars, heap, run, registry, ticks, faults>>

\* A watch event: every change of the resource queues its key.
CacheSync ==
    /\ cache # api
    /\ cache' = api
    /\ queued' = TRUE
    /\ UNCHANGED <<api, rec, cron, job, heap, run, registry, boundVars>>

Restart ==
    /\ Fault
    /\ cache' = api
    /\ queued' = TRUE
    /\ rec' = NoCall
    /\ heap' = [p \in Pointers |-> Created]
    /\ cron' = {} /\ job' = None
    /\ run' = [r \in Runs |-> NoRun]
    /\ UNCHANGED <<api, registry, ticks, edits>>

Init ==
    /\ api = Created /\ cache = Created /\ queued = TRUE
    /\ rec = NoCall
    /\ heap = [p \in Pointers |-> Created]
    /\ cron = {} /\ job = None
    /\ run = [r \in Runs |-> NoRun]
    /\ registry = {}
    /\ ticks = 0 /\ faults = 0 /\ edits = 0

Reconcile ==
    \/ ReconcileGone \/ ReconcileStart \/ AddFinalizer \/ ReconcileDelete
    \/ ConnectFails \/ ReconcileNormal \/ ScheduleRefused \/ FirstReturns

RunStep(r) ==
    GetPod(r) \/ WriteStatus(r) \/ SendStatus(r) \/ ApplyStatus(r) \/ MakeImage(r)

Next ==
    \/ Reconcile \/ HourPasses
    \/ \E r \in Runs : RunStep(r)
    \/ \E r \in Ticks : Tick(r) \/ TickReturns(r)
    \/ Delete \/ EditSchedule \/ CacheSync \/ Restart

Spec == Init /\ [][Next]_vars

\* The queue's worker and every run are scheduled and their calls return (they
\* all have time limits), watch events arrive and hours pass.
Fairness ==
    /\ WF_vars(Reconcile) /\ WF_vars(HourPasses) /\ WF_vars(CacheSync)
    /\ \A r \in Runs : WF_vars(RunStep(r))
    /\ \A r \in Ticks : WF_vars(TickReturns(r))

FairSpec == Spec /\ Fairness

------------------------------------------------------------------------------
(* Properties *)

TypeOK ==
    /\ api \in Object /\ cache \in Object /\ queued \in BOOLEAN
    /\ rec \in [at : {"idle", "finalizer", "delete", "connect", "first"},
               ptr : Pointers \union {None}]
    /\ heap \in [Pointers -> Object]
    /\ cron \subseteq Pointers /\ job \in Pointers \union {None}
    /\ run \in [Runs -> RunState]
    /\ registry \subseteq Containers
    /\ ticks \in 0..MaxTicks /\ faults \in 0..MaxFaults /\ edits \in 0..MaxEdits

\* The image a transition would put into the manifests has been pushed, and a
\* Completed checkpoint names one, whichever runs overlapped or were refused.
PublishedImageIsPushed ==
    /\ api.image # None => api.image \in registry
    /\ api.phase = "Completed" => api.image # None

\* The finalizer's purpose: a resource that is gone has no job left in the
\* scheduler, and no second entry is left behind that nothing could remove.
GoneIsUnscheduled ==
    /\ ~api.present => cron = {}
    /\ cron = IF job = None THEN {} ELSE {job}

\* In the end the scheduled job works on a current copy of the resource, so its
\* next status update is not refused: Reconcile replaces the job after each change,
\* and finds the way back after a wrong schedule, for which there is no job.
JobBecomesCurrent ==
    <>[](api.present /\ api.valid => job # None /\ heap[job].rv = api.rv)

\* What the transition code relies on.
Contract == INSTANCE CheckpointContract WITH image <- api.image, live <- api.present
ImplementsContract == Contract!Spec

==============================================================================
