# Verification of the transition operator

TLA+ modules for the transition operator (`src/`): a Kubernetes operator on a
management cluster that watches workload clusters, detects failed nodes, and
moves the packages (applications) of a failed node to a target cluster by
writing Argo CD applications, Velero Restores and checkpoint images into git
repositories. TLC checks the modules on small instances; TLAPS proves the most
important invariants for every value of the constants.

`tlc -config X.cfg M` reruns a check, `tlapm` on each of the modules named
`...Proofs` rechecks the proofs. `PROJECT.json` lists the runs, the source lines behind each definition, the hazards and the theorems.

## The system

| Component | State it keeps | Operations | Talks to |
|---|---|---|---|
| Heartbeat server (`reconcilers/heartbeat`) | store of last heartbeats, `NodeState` per node (memory); `NodeHealth` resources | HTTP handler, `MonitorNodes` scan every 100 ms, `UpsertNodeHealth` | calls the policy reconciler's `triggerMigrationNodeCP` and waits for it |
| ClusterPolicy reconciler (`clusterpolicy_controller.go`) | `ClusterPolicy.status.transitionedPackages` | a pass every 5 s: Checkpoints for live packages, then a task per workload on a NotReady node | Gitea, Argo CD, Velero, target cluster |
| Control-plane and CNI monitors (same file; probes in `controlplane`, `cnifault`) | `monitorRegistry`, `CPState` and miss counts (memory); net-test pods on the workload cluster | one goroutine per cluster and kind: probe, count, `triggerMigrationNodeCP` while the status is empty | workload cluster, then as the heartbeat server |
| Triggered transition (`nodehealth_transition.go`) | a copy of the policy shared by its tasks | a task per workload with a Checkpoint | as the reconciler |
| Gitea client (`giteaclient.go`) | one instance per process | `GetClient` | Gitea |
| Manifest scan and edit (`gitea.go`) | a clone, channels | walk, decode, collect; rewrite image; commit and push | source repository |
| Checkpoint controller (`checkpoint_controller.go`) | `Checkpoint.status`, cron entries, `scheduledJobs` | `Reconcile`, finalizer, cron runs of `performCheckpoint` | kubelet, MinIO, buildah, registry |
| Image pre-pull (same file) | pods on the target cluster, a watcher goroutine per pod and call | create, poll, delete | target cluster |
| CAPI clients, MinIO helper, `cmd/main.go`, empty `NodeHealth`/`PackagePolicy` controllers | none of their own | read-only or pure I/O | |

What is hard in it: four goroutines act on one policy from copies read minutes
apart and the API server settles conflicts by resource version; tasks of one
invocation share a copy without a lock; a recovery blocks the monitor that
started it; effects go to three systems (source repository, DR repository,
status) that no transaction joins, and the process may end between them; file
names and times have a resolution of one second; cron runs overlap and share the
object they update; the manifest scan is a pipeline of bounded channels with
three ways to stop early, and the editors of its reports truncate files that
others read; a monitor marks itself triggered before it reads the policy, keeps
the policy it was started for, and probes a cluster through pods that may be
missing; pre-pull pods are named after image and node, so overlapping calls and
the watchers of earlier ones delete and adopt each other's pods. The 40 hazards in
`PROJECT.json` name the lines.

## Modules

**HeartbeatMonitor** - the heartbeat server. `Receive`/`ReportHealthy` are the
handler before and after its API call, so handlers overlap; `WarmupTick`,
`StartScan`, `ScanNode`, `LookupMachine`, `RecoveryReturns`, `MarkUnhealthy`,
`EndScan` are the goroutine, which stays in "recover" while a migration runs;
`MonitorExits` is the `return` on a failed List of AWS machines. Heartbeats are
numbered per node. `age`, `snapAge`, `recovered`, `finished` are history: only
the properties read them.

**Transition** - one ClusterPolicy, one failed node. An *actor* is a monitor or
the reconciler, an *invocation* the pass it makes, a *task* (actor, workload) the
goroutine for one workload. `Trigger`, `TriggerLost`, `PolicyNotFound`,
`LoadPolicy`, `ListCheckpoints`, `CreateCheckpoints`, `ListPods`, `Skip`,
`StartTask`, `AcquireSlot`, `InvocationEnds` are the invocation; `Initialise`/`GiveUp`,
`CloneAndEdit`, `CommitAndPush`, `PushRestore`, `WaitForRestore`, `PushApp`,
`Sync`, `ReadStatus`, `AppendRecord`, `SendStatus`, `ApplyStatus` are the task,
one step per external effect. Notable translations:

- a task is "queued" between the check of the package's records and the slot of
  the semaphore, on which the loop over the workloads waits (`LoopRuns`);
- `append` on the shared copy is a data race, so it is two steps;
  `Status().Update` serialises the copy in one step and is decided by the API
  server in a later one, after which the reply overwrites the shared copy; an
  update that is answered with an error may have been stored;
- `CtxCancelled`: in `TransitionSelectedLiveWorkloads` the context after
  `errgroup.Wait` is cancelled, so the clone and the status update fail, while
  the Gitea calls, which take no context, go on;
- `gitea`: the client singleton is kept even if its first initialisation failed;
- `drBusy`: DR files are named after the second, so a second file of the same
  kind in one second is refused; `tie`: a stored record has the same time, in
  seconds, as an earlier one of its package, and then the earlier one counts;
- `restore`: "filed" is a manifest Argo CD has not applied, "Failed" stands for
  every final phase but Completed. The Restore's name is fixed, so it runs once;
- `ProcessRestarts` clears all memory. The ungated (heartbeat) trigger does not
  fire again, since the new process never heard of the silent node;
- `foreign` is history: for each invocation, how many of the stored records are
  not its own.

**HealthMonitors** - the control-plane and the CNI monitor of one workload
cluster, and the cluster. `StartMonitor` is a Reconcile that finds no registry
entry: the goroutine keeps the name of that policy for life. `EnsureNetTestPods`
and `EnsureNetTestPodsFails` are the preparation of the CNI monitor. One iteration
of the loop is one action: `Warming`, `SkipProbe` (no client, no miss counted),
`GoodProbe`, `BadProbe`. `BadProbe` sets `IsTriggered` with the alarm; the read of
the policy and what follows are `AlarmLost`, or `Migrate` and `MigrationEnds`. The
probes are operators on the state of the cluster, `CheckControlPlaneStatus(lost)`
and `CheckCNIStatus(lost)`, where `lost` is the call that gets no answer; the order
in which pods are listed decides the target of a ping. The migration itself is
Transition's. `outcome` and `failures` are history.

**ManifestScan** - `CheckRepoForMatchingManifests` after the clone, one action
per branch of each `select`, channels as bounded sequences. `FileError` is a file
that cannot be read, before its first report, or decoded further, after any of them.

**ManifestUpdate** - extends ManifestScan by what `TransitionOnMissedNodeHealth`
does with its result: a goroutine per report under a semaphore of two
(`ReadManifest`, `Truncate`, `WriteManifest`, `EditError`), `EndEdits` and
`CommitAndPush`. A file is a sequence of YAML documents of which the editor decodes
the first; `os.WriteFile` is two steps, and a reader in between sees an empty file.

**CheckpointController** - one Checkpoint resource. `heap` holds the copies in
memory: the closure of the cron job captures the pointer its `Reconcile` call
read, so overlapping runs share a copy. Every status update is write, send,
apply, and an update that is answered with an error may have been stored. The calls
that make an image are one step, `MakeImage`, that may fail
(making and pushing an image without publishing it included). `EditSchedule` makes
the schedule one that does not parse, or a good one again; for a wrong one
`reconcileNormal` has removed the old entry when `AddFunc` refuses the new one
(`ScheduleRefused`).

**PrePull** - `PreDownloadImageToTargetCluster`, one action per request: `OpenTarget`,
`EnsureNamespace`, `ListNodes`, then for each node `SkipNode` or `FindPod`, `DeletePod`, `Sleep`,
`CreatePod` (which passes over AlreadyExists), and per pod left behind the watcher
`WatchPoll`, `WatchTimeout`, `WatchDelete`. `Pull`, `Finish`, `RemovePod` are the
target cluster; a pod may fail before it has pulled. A Create or Delete that is
answered with an error may have been carried out: after such a Create the call
returns and leaves a pod without a watcher. Images are numbered as they are
published, since all are tagged `latest`. `orphaned` is history: since a watcher was
last started for the pod, a Create or a Delete of it was answered with an error or
the process restarted.

**CheckpointContract** - what the transition code relies on when it reads a
Checkpoint: a published image is in the registry and is never withdrawn.
`CheckpointController` is checked to implement it (`ImplementsContract`).

**MCHeartbeat, MCTransition, MCMonitors, MCScan, MCManifests, MCCheckpoint,
MCPrePull** - the instances TLC runs and the properties that quote a doc or comment
of the repository.

**HeartbeatProofs, TransitionProofs, RecordProofs, MonitorProofs, ManifestProofs,
CheckpointProofs, PrePullProofs** - the proofs. RecordProofs extends TransitionProofs.

Operators named `X_Something` with the comment "Seeded fault" are wrong variants of
`X` that the properties must catch; no specification uses them.

## Runs

| Run | Instance | Shows |
|---|---|---|
| `heartbeat` | 2 nodes, one AWS; 2 and 1 heartbeats; miss limit 2; a restart | recovery only after enough silence, once per silence, always in the end; Unhealthy only after the recovery |
| `transition` | heartbeat and control-plane monitor and reconciler; a live Stateful and a plain Stateless package; 1 failing call; stale cache | a Completed record implies an application, an image comes before it, no record is overwritten |
| `plain` | two workloads of one Stateful package without live state; 2 failing calls; a restart | data restored before deployment; no update loses a record of another invocation; the package is recorded in the end and then left alone |
| `monitors` | 1 policy, 2 control-plane nodes with a net-test pod and another pod each; 3 lost answers or changes of cluster and policy; a restart | an alarm has a cause that a tick without a client is not, one alarm per outage, a lasting outage is acted on or its alarm was lost at the policy, a recovery arms the monitor again |
| `manifests` | 3 files of 2 documents (2, 1 and 0 matches), 2 workers, channels of capacity 1, 2 editors at a time, undecodable files, walk error, cancellation, failing edits | no send on a closed channel, no invented or repeated match, a drained scan is complete; no truncated file is pushed, and nothing unless every report was handled; the update ends and leaves no goroutine |
| `checkpoint` | 1 container, reconcile and 1 cron run or 1 wrong schedule, deletion, 1 failing call or restart | published images are pushed, no job outlives the resource, with a good schedule the job's copy becomes current, the contract holds |
| `prepull` | 2 calls, 1 worker and 1 control-plane node, two images; 1 failing request, failing pod or restart | no pod is left without a watcher, and pods are removed in the end, except those an unanswered request or a restart orphaned |

Expected violations, each a disagreement between the code and what it says of
itself (quoted under `findings`): `duplicate` (one package is deployed twice in one
pass), `retry` (an uninitialised Gitea client is never retried), `record` (a live
Stateless package is deployed by the reconciler and never recorded), `scan_complete`
(a scan may miss matches without an error), `arrives` (of two overlapping pre-pulls of one image neither
brings it to the node: the second deletes the first one's pod before it has pulled
and then takes the terminating pod for its own; no call fails, and every pull that
is left alone ends within its watcher's time).

Disagreements that need no run, since one line shows them:

- `HEARTBEAT_FAULT_DELAY` (`USER-GUIDE.md:250`, `recovery-flow.md:196`) is not read:
  the line is commented out (`heartbeat_server.go:83`) and the delay is 13 scans of
  100 ms;
- `LastCheckpointTime` is "the last time a checkpoint was successfully created"
  (`checkpoint_types.go:176`) and is set with every status update of a run;
- net-test pods are created "on each worker node" (`clusterpolicy_controller.go:1374`),
  but only control-plane nodes get one;
- "If exec timed out, treat as healthy" (`cni.go:100`) is about a case that cannot be
  reached; a timed-out exec is a failed probe;
- the CNI probe "selects a random pod from the worker node" (`USER-GUIDE.md:522`),
  but takes the first pod listed on another node;
- `UpdateResourceContainers` "updates matching container images inside a local
  Kubernetes manifest file" (`gitea.go:373`) by decoding the first YAML document
  (`gitea.go:383`) and writing it over the whole file (`gitea.go:421`): the other
  documents are lost, also the one the scan matched;
- the image is pre-pulled on "all nodes" (`checkpoint_controller.go:847`), but
  control-plane nodes are skipped.

### Bounds

`MissLimit` of the heartbeat server, the warm-ups, channel capacities and the
number of workers are smaller than in the code; each is still exceeded, filled or
contended in the runs. `MaxBeats`, `MaxCrashes`, `MaxTicks` cap counters the code
does not have. `MaxFaults` counts failing calls,
lost races against a timer and ties of times; two are enough in `plain` for a
failure of the retry of a failure. `MaxUpdates` stops new invocations once that
many status updates were stored. In `plain` a behaviour that reaches this bound does
not count as settled: `PlainPackagesSettle` also asks that the bound is not reached, so
transitions that are recorded and repeated for ever end there with the property violated. With 6 updates the
retries two faults and a restart can cause do reach it; 7 is the least number with
which the run passes. In `transition` the bound lets a second invocation see the first one's record. With one
container and one tick `checkpoint` has up to two overlapping runs and three
copies in memory; two containers have more than five million states. `MaxEdits`
counts wrong schedules, each of which may be corrected. `TickOrEditSpec` leaves out
behaviours with both a tick and a wrong schedule, which do not fit into five minutes;
a wrong schedule still meets the first run, lagging caches, deletion and a restart.

`monitors` has the real limits of 2 misses, 3 s of silence and 5 s between attempts;
`MaxGap` lets ticks of the CNI monitor be 1 or 2 s apart, so that its limit is passed
after two to four failed probes, or after one that follows ticks without a client. `MaxChanges` counts lost answers and changes of the
cluster and the policy together: three are enough for an outage, its end and a
second outage, or for an outage while the policy is deleted and created again. With
one policy the monitor's policy is the only one of the cluster; several are left to
the module's constants. `prepull` has two calls, the least that can delete and
adopt each other's pods, and one worker, since pods of different nodes share nothing but the
order in which a call makes them.
Two equal nodes, workers or actors are never declared
symmetric, because liveness is checked or their parameters differ.

`StatusAppendOnly` is checked with at most one recording task per invocation. With
two, the unsynchronised `append` can drop a record of the same invocation:
`ForeignRecordsStay`, checked with two, says that no other can be lost, and
`PlainPackagesComplete` that the package is still recorded in the end. `CHECK_DEADLOCK FALSE` appears because each of these systems may
stop: agents fall silent, a scan returns, updates and faults are bounded.

### Fairness

Weak fairness of each goroutine (the monitor, each invocation and task, each
worker, each run): the Go scheduler runs it and every call it makes has a timeout
or a connection that breaks. Weak fairness of the manager's cache (watch events
arrive), of the clock, of the 5 s and 1 h requeues, and, in `FairSpec` of
Transition, of Argo CD and Velero finishing a Restore. In HealthMonitors the loops and
the preparation are fair (tickers keep firing), and neither the kubelet nor the end
of a migration is; in PrePull the calls and watchers are (each has a timeout of two
minutes), and the kubelet is not, so a pod may pull forever and is removed all the same. Only `arrives`, an expected
violation, has a fair kubelet whose pulls end before the watcher's timeout
(`PromptSpec`), so that its counterexample is not a slow node. Never assumed elsewhere: that a call
succeeds (failures are bounded instead, so "in the end" means "once calls stop
failing"), that heartbeats arrive, that the process restarts, that a monitor
triggers, that a checkpoint is taken. `PlainPackagesComplete` and `PlainPackagesSettle` except two failures
that are for good (`Hopeless`): a failed Restore and a Gitea client that could not
be initialised.

## Proofs

All constants arbitrary, under the `ASSUME`s of the modules (sets are disjoint
where the code has different names, bounds are naturals, channels have room for one
element; TLC evaluates them in the runs). Two deserve a word. `PointersAssumption`
of CheckpointController says that there are more copies than can be in hand at the
same time, since Go allocates a new object for every Reconcile call and collects
those nobody refers to. `DocsAssumption` of ManifestUpdate says that a file has at
least one document, so that an empty file is always a truncated one.

Every safety property that a passing run checks, invariant or action property, is a
theorem, except `StatusAppendOnly`, which is not true of every instance; the inductive invariants were checked by TLC on the instances of the runs before they
were proved.

**HeartbeatProofs.** `IndInv` (`Inductive`) strengthens the properties, which are
not inductive by themselves: a recovery is started from a `NodeState`, so the
invariant relates each `NodeState` to history - a miss count never exceeds the
number of snapshots that held the heartbeat it counts for - and, for the once-only
property, what has been recovered to `IsTriggered` or to an older heartbeat.
`TypeCorrect`, `SilenceIsSeen`, `UnhealthyIsLate` follow, and `RecoveredOnce` is the
action property `OneRecoveryPerSilence`.

**TransitionProofs.** `TypeCorrect` first, action by action. `OrderInv`
(`EffectsOrdered`) says what the stage of a task implies for the outside: a task at
"sync" or later with outcome Completed has its application in the DR repository; a
task at "app" of a live Stateful package has its image pushed, of another Stateful
package its Restore completed; and every list of records anywhere - at the API
server, in the cache, in each shared copy, in the local slice and in the request
under way of each task - contains Completed only for deployed packages. The lists are needed because a
record reaches the API server through a stale local slice, an overwritten shared
copy or another task's update. `RecordsAreTrue`, `ImageComesFirst` and
`RestoreComesFirst` follow.

**RecordProofs.** `ForeignStay` is the action property `ForeignRecordsStay`, with no
assumption on how many tasks record at a time. Two tasks of one invocation append to
the same slice without a lock, and the later one can store a list it has read before
the earlier one's record was accepted; so records of the same invocation can be lost,
and the theorem says that no others can. `foreign` splits the stored list: its first
`foreign[a]` records were there when the invocation read its copy, or were stored by
another one since. The invariant (`RecordsInvariant`) says that whatever an invocation
has in hand is older than the API server's version, and then will be refused, or has
these records unchanged: the cache (`CacheTrue`), the shared copy (`CopiesFit`), a slice
that was read (`SlicesFit`), what is about to be sent (`SendsFit`) and what is under way
(`SentFit`). An accepted update makes every copy of the other invocations old, also
when its reply is lost. `RestIsQuiet` (no task outside an invocation) is needed
because a new invocation replaces the shared copy.

**MonitorProofs.** `TypeCorrect` is proved in three parts: the monitors, the history
and the cluster. `Inv` (`MonitorsInvariant`) adds to `AlarmHasCause` that the misses
of the control-plane monitor never exceed the failed probes, that the flag is up at
an alarm, during a migration and for as long as the outcome of the last alarm is not
followed by a good probe, and that a monitor that is off has no outcome. With it
`AlarmsAreCaused` and the action property in `OneAlarm` follow: a probe raises an
alarm only with the flag down, so there was no alarm since the last good probe.

**ManifestProofs.** `UpdateInv` (`ManifestInvariant`) covers the scan and what follows
it. The two channels are read as two queues: `Pending`, the files in `fileCh` and those
the walker has still to send, and `Reports`, the answer so far and `matchCh`; a send or
a receive leaves the queue as it is. `EachFileOnce` is the account: a
file is in `Pending` and has no report, or one worker has it and the reports made and
still to be made are its matches, or it is dealt with; `NothingLost` says that without
an error the last case means all matches were reported. `EndsInOrder` is what a
return or a close tells about the goroutines before it, down to the closer. From these follow
`NoSendOnClosedChannel`, `NoSpuriousReports` and `DrainedScanComplete`. For the edits,
`FilesInHand` says that a file is as cloned, as rewritten, or empty while one of its
goroutines is between the two halves of the write or has failed there, and
`EditorsKnow` that a goroutine that is done leaves its file edited or, for the moment,
empty. The caller commits only when all are done, so then no file is empty:
`PushedFilesWhole`, `PushAllOrNothing`.

**CheckpointProofs.** `Inv` (`CheckpointInvariant`): who has a copy in hand
(`CopiesInHand`), that the scheduler has the entry of `scheduledJobs` and no other
(`OneEntry`), which states of the resource a lagging cache and a call under way allow
(`Guarded`, `FinalizerIsNew`: a call that adds the finalizer to a current copy is the
first to do so, and from then on the resource cannot go before the deletion branch has
removed the job), that each copy names a pushed image or none (`AllHonest`), and that no
copy is ahead of the API server, a current one having an image if that has one
(`AllBehind`). `PublishedImageSafe` needs honesty of all copies, since any of them may
become the stored object; `GoneSafe` needs the finalizer. `ContractImplemented` is the refinement of
CheckpointContract: initial states map to the abstract initial state; a push maps to
`Push`; an accepted update either keeps the image, a stutter, or publishes one that
honesty says is in the registry, and by `AllBehind` never one that has none; the
finalizer's update that lets the resource go maps to `Remove`; all other steps stutter.

**PrePullProofs.** `TypeCorrect` includes that a call in one of its loops is at a node
and looks for, deletes and creates pods on worker nodes only. `PodIsWatched` is inductive with the types of three variables:
Create and the start of the watcher are one step of the model since nothing between
them can fail, and a watcher ends only when the pod is gone, is being removed or is
orphaned (`PodsAreWatched`). A Create that is answered with an error orphans the pod
if it was stored (`CreateFailsKeeps`).

Only model-checked: all liveness (`SilentNodeIsRecovered`, `PlainPackagesComplete`,
`PlainPackagesSettle`, `OutageIsActedOn`, `RecoveryRearms`, `UpdateEnds`,
`NoGoroutineLeft`, `JobBecomesCurrent`, `PodsAreRemoved`), which needs fairness and
ENABLED, and `StatusAppendOnly`, which holds only with one recording task per
invocation. The expected violations are counterexamples and
have nothing to prove.

## Not modelled

Recovery of the failed node and transition back (the code has none); several
clusters, and several policies acted on by one transition; contents of manifests, applications and Restores; payloads
of heartbeats; the choice of target cluster (a maximum over a list); the MinIO
helper (pure I/O; its failure is one of `MakeImage`); targets of a ping that use the
host network; `OriginalImage` of a Checkpoint; `TransitionAllWorkloads` (no body) and the interface
editors and Argo CD helpers without callers; generated code and tests.

## Plan

1. Done: HeartbeatMonitor, Transition, ManifestScan, CheckpointController with its
   contract; their runs; proofs of HeartbeatMonitor and Transition.
2. Done: HealthMonitors, ManifestUpdate, PrePull, their runs, and proofs of the
   safety of HealthMonitors and PrePull. Left of this step:
   `OriginalImage` and two containers in CheckpointController, which needs a smaller
   model of the runs to be checked.
3. Done: proofs of all safety properties of the runs, of the refinement of
   CheckpointContract, and of which stored records stay.
4. Left: proofs of properties the runs do not state yet, such as how many
   checkpoint jobs can run at a time, and a contract for the manifest update that
   Transition's `CloneAndEdit` and `CommitAndPush` rely on.
