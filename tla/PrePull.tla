------------------------------- MODULE PrePull -------------------------------
(***************************************************************************)
(* PreDownloadImageToTargetCluster (internal/controller/                   *)
(* checkpoint_controller.go): after a checkpoint image was published, the  *)
(* run of the checkpoint job puts one pod per worker node on the target    *)
(* cluster that pulls the image, then one per node for the original image, *)
(* and leaves a watcher goroutine behind for each pod.  The name of a pod  *)
(* is made of image and node only, so calls that overlap, and the watchers *)
(* of earlier calls, work on the same pods.  A request to the target       *)
(* cluster is one action.                                                  *)
(***************************************************************************)
EXTENDS Naturals, Sequences, FiniteSets, SequencesExt

CONSTANTS
    Calls,        \* calls, made by overlapping or successive runs of the job
    NodeList,     \* the nodes of the target cluster, as listed
    ControlPlane, \* those with the control-plane label
    HasOriginal,  \* originalImage is neither empty nor the checkpoint image
    MaxFaults     \* bound on requests and pods that fail and restarts of the operator

Images  == {"checkpoint"} \cup (IF HasOriginal THEN {"original"} ELSE {})
Workers == Range(NodeList) \ ControlPlane
Names   == Images \X Workers   \* the names of the pods
Items   == Images \X Range(NodeList)   \* what the loops go over

ASSUME CallsAssumption == IsFiniteSet(Calls) /\ NodeList \in Seq(Range(NodeList))
ASSUME BoundsAssumption == HasOriginal \in BOOLEAN /\ MaxFaults \in Nat

VARIABLES
    namespace, \* whether the pre-pull namespace exists
    pod,       \* each pod: absent, pulling, pulled, ended, terminating
    call,      \* each call: where it stands and the pods it has still to make
    watcher,   \* the goroutine each call has left behind for each pod
    published, \* checkpoint images published so far; each is tagged latest
    version,   \* the image each call is about
    onNode,    \* the latest version of the image that the node has, 0 for none
    orphaned,  \* history: since a goroutine was last started for the pod, its delete
               \* has failed or a restart has ended it; or the pod's Create returned
               \* an error and none was started
    faults     \* failures and restarts so far

vars == <<namespace, pod, call, watcher, published, version, onNode, orphaned, faults>>

At(step, todo) == [at |-> step, todo |-> todo]
Idle   == At("idle", <<>>)
Failed == At("error", <<>>)
Done   == At("ok", <<>>)

Fault   == faults < MaxFaults /\ faults' = faults + 1
Answers == UNCHANGED faults
Current(c) == Head(call[c].todo)

\* Delete by name: whichever pod has the name now.
Deleted(nm) == pod[nm] # "absent" /\ pod' = [pod EXCEPT ![nm] = "terminating"]

------------------------------------------------------------------------------
(* A call *)

\* A client, an error, or neither when CAPI does not have the cluster Ready.
GetWorkloadClusterClient(outcome) ==
    \/ outcome = "client" /\ Answers
    \/ outcome \in {"error", "nil"} /\ Fault

\* No client, with or without an error, ends the call.
OpenTarget(c) ==
    /\ call[c] = Idle /\ version[c] = 0
    /\ published' = published + 1
    /\ version' = [version EXCEPT ![c] = published + 1]
    /\ \E outcome \in {"client", "error", "nil"} :
          /\ GetWorkloadClusterClient(outcome)
          /\ call' = [call EXCEPT ![c] = IF outcome = "client" THEN At("namespace", <<>>) ELSE Failed]
    /\ UNCHANGED <<namespace, pod, watcher, onNode, orphaned>>

\* createPrepullPodsNamespace: Get, then Create; an error is only logged.
EnsureNamespace(c) ==
    /\ call[c].at = "namespace"
    /\ call' = [call EXCEPT ![c].at = "list"]
    /\ \/ namespace' = TRUE /\ Answers
       \/ UNCHANGED namespace /\ Fault
    /\ UNCHANGED <<pod, watcher, published, version, onNode, orphaned>>

\* The loop over the nodes for one image and then for the other.
ListNodes(c) ==
    /\ call[c].at = "list"
    /\ LET For(image) == [i \in DOMAIN NodeList |-> <<image, NodeList[i]>>]
           todo == For("checkpoint") \o (IF HasOriginal THEN For("original") ELSE <<>>)
       IN  \/ call' = [call EXCEPT ![c] = IF todo = <<>> THEN Done ELSE At("find", todo)] /\ Answers
           \/ call' = [call EXCEPT ![c] = Failed] /\ Fault
    /\ UNCHANGED <<namespace, pod, watcher, published, version, onNode, orphaned>>

\* Seeded fault: the loop goes on after the last node.
Advance_NoEnd(c) == [call EXCEPT ![c] = At("find", Tail(@.todo))]

\* The next node, the next loop, or the end of the call.
Advance(c) == [call EXCEPT ![c] = IF Len(@.todo) = 1 THEN Done ELSE At("find", Tail(@.todo))]

\* continue, for a node with the control-plane label.
SkipNode(c) ==
    /\ call[c].at = "find" /\ Current(c)[2] \in ControlPlane
    /\ call' = Advance(c)
    /\ UNCHANGED <<namespace, pod, watcher, published, version, onNode, orphaned, faults>>

\* Get of the pod: not found, found, or an error that ends the call.
FindPod(c) ==
    /\ call[c].at = "find" /\ Current(c)[2] \notin ControlPlane
    /\ \/ /\ call' = [call EXCEPT ![c].at = IF pod[Current(c)] = "absent" THEN "create" ELSE "delete"]
          /\ Answers
       \/ call' = [call EXCEPT ![c] = Failed] /\ Fault
    /\ UNCHANGED <<namespace, pod, watcher, published, version, onNode, orphaned>>

\* Delete of the pod found.  Any error ends the call, and so does a pod that a
\* watcher has removed meanwhile; the request may have been carried out in spite of
\* the error.  The second loop sleeps afterwards.
DeletePod(c) ==
    /\ call[c].at = "delete"
    /\ \/ /\ Deleted(Current(c))
          /\ call' = [call EXCEPT ![c].at = IF Current(c)[1] = "original" THEN "sleep" ELSE "create"]
          /\ Answers
       \/ /\ call' = [call EXCEPT ![c] = Failed]
          /\ IF pod[Current(c)] = "absent" THEN Answers ELSE Fault
          /\ UNCHANGED pod \/ Deleted(Current(c))
    /\ UNCHANGED <<namespace, watcher, published, version, onNode, orphaned>>

\* time.Sleep(3 * time.Second): the pod may be gone afterwards or not.
Sleep(c) ==
    /\ call[c].at = "sleep"
    /\ call' = [call EXCEPT ![c].at = "create"]
    /\ UNCHANGED <<namespace, pod, watcher, published, version, onNode, orphaned, faults>>

\* Create, where AlreadyExists is passed over, and go func(podName).
CreatePod(c) ==
    /\ call[c].at = "create" /\ namespace
    /\ pod' = [pod EXCEPT ![Current(c)] = IF @ = "absent" THEN "pulling" ELSE @]
    /\ orphaned' = [orphaned EXCEPT ![Current(c)] = FALSE]
    /\ watcher' = [watcher EXCEPT ![<<c, Current(c)>>] = "watching"]
    /\ call' = Advance(c)
    /\ UNCHANGED <<namespace, published, version, onNode, faults>>

\* Any other error of Create ends the call before the watcher is started, also when
\* the API server has stored the pod and only the answer was lost.
CreatePodFails(c) ==
    /\ call[c].at = "create"
    /\ call' = [call EXCEPT ![c] = Failed]
    /\ \/ /\ IF namespace THEN Fault ELSE Answers
          /\ UNCHANGED <<pod, orphaned>>
       \/ /\ namespace /\ Fault
          /\ pod[Current(c)] = "absent"
          /\ pod' = [pod EXCEPT ![Current(c)] = "pulling"]
          /\ orphaned' = [orphaned EXCEPT ![Current(c)] = TRUE]
    /\ UNCHANGED <<namespace, watcher, published, version, onNode>>

------------------------------------------------------------------------------
(* The watcher of call c for pod nm *)

\* A poll every 3 s: not found ends it; a finished pod, or an error, has it delete.
\* A terminating pod may have finished or not.
WatchPoll(c, nm) ==
    /\ watcher[<<c, nm>>] = "watching"
    /\ \/ pod[nm] = "absent" /\ watcher' = [watcher EXCEPT ![<<c, nm>>] = "none"] /\ Answers
       \/ /\ pod[nm] \in {"ended", "terminating"}
          /\ watcher' = [watcher EXCEPT ![<<c, nm>>] = "deleting"] /\ Answers
       \/ watcher' = [watcher EXCEPT ![<<c, nm>>] = "deleting"] /\ Fault
    /\ UNCHANGED <<namespace, pod, call, published, version, onNode, orphaned>>

\* Seeded fault: the time-out ends the watcher.
WatchTimeout_LeavesPod(c, nm) ==
    /\ watcher[<<c, nm>>] = "watching"
    /\ watcher' = [watcher EXCEPT ![<<c, nm>>] = "none"]
    /\ UNCHANGED <<namespace, pod, call, published, version, onNode, orphaned, faults>>

\* Two minutes are over.
WatchTimeout(c, nm) ==
    /\ watcher[<<c, nm>>] = "watching"
    /\ watcher' = [watcher EXCEPT ![<<c, nm>>] = "deleting"]
    /\ UNCHANGED <<namespace, pod, call, published, version, onNode, orphaned, faults>>

\* Seeded fault: only a pod that has finished is deleted.
WatchDelete_OnlyEnded(c, nm) ==
    /\ watcher[<<c, nm>>] = "deleting"
    /\ watcher' = [watcher EXCEPT ![<<c, nm>>] = "none"]
    /\ IF pod[nm] = "ended" THEN Deleted(nm) ELSE UNCHANGED pod
    /\ UNCHANGED <<namespace, call, published, version, onNode, orphaned, faults>>

\* The delete is by name; an error, which may hide that the pod was deleted, is only
\* logged.
WatchDelete(c, nm) ==
    /\ watcher[<<c, nm>>] = "deleting"
    /\ watcher' = [watcher EXCEPT ![<<c, nm>>] = "none"]
    /\ \/ /\ Deleted(nm) \/ (pod[nm] = "absent" /\ UNCHANGED pod)
          /\ Answers /\ UNCHANGED orphaned
       \/ /\ Deleted(nm) \/ UNCHANGED pod
          /\ Fault /\ orphaned' = [orphaned EXCEPT ![nm] = TRUE]
    /\ UNCHANGED <<namespace, call, published, version, onNode>>

------------------------------------------------------------------------------
(* The target cluster *)

\* ImagePullPolicy of the pod.
PullPolicy(image) == IF image = "checkpoint" THEN "Always" ELSE "IfNotPresent"

\* The kubelet pulls the image, unless the node has one and the policy lets it be.
Pull(nm) ==
    /\ pod[nm] = "pulling"
    /\ pod' = [pod EXCEPT ![nm] = "pulled"]
    /\ onNode' = [onNode EXCEPT ![nm] =
                     IF @ > 0 /\ PullPolicy(nm[1]) = "IfNotPresent" THEN @
                     ELSE IF nm[1] = "checkpoint" THEN published ELSE 1]
    /\ UNCHANGED <<namespace, call, watcher, published, version, orphaned, faults>>

\* The pod has slept for its seconds; or it has failed, which a pod bound by NodeName
\* may also do before it has pulled.
Finish(nm) ==
    /\ \/ pod[nm] = "pulled" /\ Answers
       \/ pod[nm] = "pulling" /\ Fault
    /\ pod' = [pod EXCEPT ![nm] = "ended"]
    /\ UNCHANGED <<namespace, call, watcher, published, version, onNode, orphaned>>

\* A terminating pod is gone after its grace period.
RemovePod(nm) ==
    /\ pod[nm] = "terminating"
    /\ pod' = [pod EXCEPT ![nm] = "absent"]
    /\ UNCHANGED <<namespace, call, watcher, published, version, onNode, orphaned, faults>>

\* Calls and watchers are lost, the pods stay.
ProcessRestarts ==
    /\ Fault
    /\ call' = [c \in Calls |-> IF call[c].at \in {"idle", "ok"} THEN call[c] ELSE Failed]
    /\ watcher' = [w \in Calls \X Names |-> "none"]
    /\ orphaned' = [nm \in Names |-> orphaned[nm] \/ pod[nm] # "absent"]
    /\ UNCHANGED <<namespace, pod, published, version, onNode>>

------------------------------------------------------------------------------

Init ==
    /\ namespace = FALSE
    /\ pod = [nm \in Names |-> "absent"]
    /\ call = [c \in Calls |-> Idle]
    /\ watcher = [w \in Calls \X Names |-> "none"]
    /\ published = 0 /\ version = [c \in Calls |-> 0]
    /\ onNode = [nm \in Names |-> 0]
    /\ orphaned = [nm \in Names |-> FALSE]
    /\ faults = 0

Call(c) ==
    \/ OpenTarget(c) \/ EnsureNamespace(c) \/ ListNodes(c) \/ SkipNode(c) \/ FindPod(c)
    \/ DeletePod(c) \/ Sleep(c) \/ CreatePod(c) \/ CreatePodFails(c)

\* A poll that finds the pod at work changes nothing; the time-out comes at last.
Watcher(c, nm) == WatchPoll(c, nm) \/ WatchTimeout(c, nm) \/ WatchDelete(c, nm)

Kubelet(nm) == Pull(nm) \/ Finish(nm) \/ RemovePod(nm)

Next ==
    \/ \E c \in Calls : Call(c) \/ \E nm \in Names : Watcher(c, nm)
    \/ \E nm \in Names : Kubelet(nm)
    \/ ProcessRestarts

Spec == Init /\ [][Next]_vars

\* Goroutines run on and the time-outs come; nothing is assumed of the kubelet.
FairSpec ==
    /\ Spec
    /\ \A c \in Calls : WF_vars(Call(c))
    /\ \A c \in Calls, nm \in Names : WF_vars(Watcher(c, nm))

------------------------------------------------------------------------------
(* Properties *)

Steps == {"idle", "namespace", "list", "find", "delete", "sleep", "create", "ok", "error"}
Looping == {"find", "delete", "sleep", "create"}

TypeOK ==
    /\ namespace \in BOOLEAN
    /\ pod \in [Names -> {"absent", "pulling", "pulled", "ended", "terminating"}]
    /\ call \in [Calls -> [at : Steps, todo : Seq(Items)]]
    /\ \A c \in Calls : /\ call[c].at \in Looping => call[c].todo # <<>>
                        /\ call[c].at \in Looping \ {"find"} => Current(c) \in Names
    /\ watcher \in [Calls \X Names -> {"none", "watching", "deleting"}]
    /\ published \in Nat /\ version \in [Calls -> Nat] /\ onNode \in [Names -> Nat]
    /\ orphaned \in [Names -> BOOLEAN]
    /\ faults \in 0..MaxFaults

\* No pod is left behind, although calls delete, create and watch each other's pods:
\* one that is not being removed has a goroutine that will remove it, except where a
\* Create or a Delete of it was answered with an error or the operator restarted.
PodIsWatched ==
    \A nm \in Names :
       pod[nm] \in {"pulling", "pulled", "ended"} /\ ~orphaned[nm]
          => \E c \in Calls : watcher[<<c, nm>>] # "none"

\* "wait for the Pod to complete and then delete it or delete once image is
\* pulled": every pod is removed in the end, pulled or not, unless orphaned.
PodsAreRemoved ==
    \A nm \in Names : <>[](pod[nm] \in {"absent", "terminating"} \/ orphaned[nm])

\* "pre-downloads the image to all nodes in the target cluster": where a call
\* returned without an error, every worker gets its image or a later one.
ImageArrives ==
    \A c \in Calls, nm \in Names :
       call[c] = Done ~> onNode[nm] >= IF nm[1] = "checkpoint" THEN version[c] ELSE 1

==============================================================================
