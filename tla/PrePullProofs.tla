---------------------------- MODULE PrePullProofs ----------------------------
(* Proofs about PrePull, for every value of its constants. *)
EXTENDS PrePull, SequenceTheorems, TLAPS

Phases == {"absent", "pulling", "pulled", "ended", "terminating"}

\* What the proof needs of the types; which pods a call has still to make does not
\* matter, only that a pod and its watcher have the same name.
WatchType ==
    /\ pod \in [Names -> Phases]
    /\ watcher \in [Calls \X Names -> {"none", "watching", "deleting"}]
    /\ orphaned \in [Names -> BOOLEAN]

WatchInv == WatchType /\ PodIsWatched

LEMMA InitWatch == Init => WatchInv
  BY DEF Init, WatchInv, WatchType, PodIsWatched, Phases

LEMMA UnchangedKeeps ==
  ASSUME WatchInv, UNCHANGED <<pod, watcher, orphaned>>
  PROVE  WatchInv'
  BY DEF WatchInv, WatchType, PodIsWatched

\* A pod that is being removed needs no watcher.
LEMMA DeletedKeeps ==
  ASSUME WatchInv, NEW nm, Deleted(nm), UNCHANGED <<watcher, orphaned>>
  PROVE  WatchInv'
  <1>1. pod' = [pod EXCEPT ![nm] = "terminating"]  BY DEF Deleted
  <1> QED  BY <1>1 DEF WatchInv, WatchType, PodIsWatched, Phases

\* Create and the watcher that follows it go together.
LEMMA CreateKeeps ==
  ASSUME WatchInv, NEW c \in Calls, CreatePod(c)
  PROVE  WatchInv'
  <1> DEFINE cur == Current(c)
  <1>1. /\ pod' = [pod EXCEPT ![cur] = IF @ = "absent" THEN "pulling" ELSE @]
        /\ orphaned' = [orphaned EXCEPT ![cur] = FALSE]
        /\ watcher' = [watcher EXCEPT ![<<c, cur>>] = "watching"]
     BY DEF CreatePod
  <1> HIDE DEF cur
  <1>2. WatchType'  BY <1>1 DEF WatchInv, WatchType, Phases
  <1>3. PodIsWatched'
    <2> SUFFICES ASSUME NEW nm \in Names, pod'[nm] \in {"pulling", "pulled", "ended"}, ~orphaned'[nm]
                 PROVE  \E e \in Calls : watcher'[<<e, nm>>] # "none"
       BY DEF PodIsWatched
    <2>1. CASE nm = cur
      <3>1. watcher'[<<c, nm>>] = "watching"  BY <1>1, <2>1 DEF WatchInv, WatchType
      <3> QED  BY <3>1
    <2>2. CASE nm # cur
      <3>1. pod'[nm] = pod[nm] /\ orphaned'[nm] = orphaned[nm]  BY <1>1, <2>2 DEF WatchInv, WatchType
      <3>2. PICK e \in Calls : watcher[<<e, nm>>] # "none"  BY <3>1 DEF WatchInv, PodIsWatched
      <3>3. watcher'[<<e, nm>>] = watcher[<<e, nm>>]  BY <1>1, <2>2 DEF WatchInv, WatchType
      <3> QED  BY <3>2, <3>3
    <2> QED  BY <2>1, <2>2
  <1> QED  BY <1>2, <1>3 DEF WatchInv

\* A Create that returns an error leaves the pod as it was, or orphaned.
LEMMA CreateFailsKeeps ==
  ASSUME WatchInv, NEW c \in Calls, CreatePodFails(c)
  PROVE  WatchInv'
  <1> DEFINE cur == Current(c)
  <1>1. watcher' = watcher  BY DEF CreatePodFails
  <1>2. CASE UNCHANGED <<pod, orphaned>>  BY <1>1, <1>2, UnchangedKeeps
  <1>3. CASE /\ pod' = [pod EXCEPT ![cur] = "pulling"]
             /\ orphaned' = [orphaned EXCEPT ![cur] = TRUE]
    <2> HIDE DEF cur
    <2>1. WatchType'  BY <1>1, <1>3 DEF WatchInv, WatchType, Phases
    <2>2. \A nm \in Names : ~orphaned'[nm] => pod'[nm] = pod[nm] /\ ~orphaned[nm]
       BY <1>3 DEF WatchInv, WatchType
    <2>3. PodIsWatched'  BY <1>1, <2>2 DEF WatchInv, PodIsWatched
    <2> QED  BY <2>1, <2>3 DEF WatchInv
  <1> QED  BY <1>2, <1>3 DEF CreatePodFails

\* Requests of a call before Create leave the watchers alone.
LEMMA CallKeeps ==
  ASSUME WatchInv, NEW c \in Calls, Call(c)
  PROVE  WatchInv'
  <1>1. CASE OpenTarget(c) \/ EnsureNamespace(c) \/ ListNodes(c) \/ SkipNode(c)
                \/ FindPod(c) \/ Sleep(c)
    <2>1. UNCHANGED <<pod, watcher, orphaned>>
       BY <1>1 DEF OpenTarget, EnsureNamespace, ListNodes, SkipNode, FindPod, Sleep
    <2> QED  BY <2>1, UnchangedKeeps
  <1>2. CASE DeletePod(c)
    <2>1. UNCHANGED <<watcher, orphaned>> /\ (Deleted(Current(c)) \/ UNCHANGED pod)
       BY <1>2 DEF DeletePod
    <2> QED  BY <2>1, DeletedKeeps, UnchangedKeeps
  <1>3. CASE CreatePod(c) \/ CreatePodFails(c)  BY <1>3, CreateKeeps, CreateFailsKeeps
  <1> QED  BY <1>1, <1>2, <1>3 DEF Call

\* A watcher that ends has found the pod gone, has had it removed, or has orphaned it.
LEMMA WatcherKeeps ==
  ASSUME WatchInv, NEW c \in Calls, NEW nm \in Names, Watcher(c, nm)
  PROVE  WatchInv'
  <1>1. PICK s \in {"none", "deleting"} : watcher' = [watcher EXCEPT ![<<c, nm>>] = s]
     BY DEF Watcher, WatchPoll, WatchTimeout, WatchDelete
  <1>2. \A other \in Names \ {nm} : pod'[other] = pod[other] /\ orphaned'[other] = orphaned[other]
     BY DEF Watcher, WatchPoll, WatchTimeout, WatchDelete, Deleted, WatchInv, WatchType
  <1>3. pod' \in [Names -> Phases] /\ orphaned' \in [Names -> BOOLEAN]
     BY DEF Watcher, WatchPoll, WatchTimeout, WatchDelete, Deleted, WatchInv, WatchType, Phases
  <1>4. WatchType'  BY <1>1, <1>3 DEF WatchInv, WatchType
  <1>5. s = "none" => pod'[nm] \in {"absent", "terminating"} \/ orphaned'[nm]
    <2> SUFFICES ASSUME s = "none" PROVE pod'[nm] \in {"absent", "terminating"} \/ orphaned'[nm]
       OBVIOUS
    <2>0. watcher'[<<c, nm>>] = "none"  BY <1>1 DEF WatchInv, WatchType
    <2>1. CASE WatchPoll(c, nm)
       BY <2>0, <2>1 DEF WatchPoll, WatchInv, WatchType
    <2>2. CASE WatchTimeout(c, nm)
       BY <2>0, <2>2 DEF WatchTimeout, WatchInv, WatchType
    <2>3. CASE WatchDelete(c, nm)
       BY <2>3 DEF WatchDelete, Deleted, WatchInv, WatchType
    <2> QED  BY <2>1, <2>2, <2>3 DEF Watcher
  <1>6. PodIsWatched'
    <2> SUFFICES ASSUME NEW other \in Names, pod'[other] \in {"pulling", "pulled", "ended"}, ~orphaned'[other]
                 PROVE  \E e \in Calls : watcher'[<<e, other>>] # "none"
       BY DEF PodIsWatched
    <2>1. CASE other = nm
      <3>1. watcher'[<<c, nm>>] = s  BY <1>1 DEF WatchInv, WatchType
      <3>2. s # "none"  BY <2>1, <1>5
      <3> QED  BY <2>1, <3>1, <3>2
    <2>2. CASE other # nm
      <3>1. PICK e \in Calls : watcher[<<e, other>>] # "none"  BY <2>2, <1>2 DEF WatchInv, PodIsWatched
      <3>2. watcher'[<<e, other>>] = watcher[<<e, other>>]  BY <1>1, <2>2 DEF WatchInv, WatchType
      <3> QED  BY <3>1, <3>2
    <2> QED  BY <2>1, <2>2
  <1> QED  BY <1>4, <1>6 DEF WatchInv

\* A pod on its way from pulling to ended has been watched all along.
LEMMA KubeletKeeps ==
  ASSUME WatchInv, NEW nm \in Names, Kubelet(nm)
  PROVE  WatchInv'
  <1>1. UNCHANGED <<watcher, orphaned>>
     BY DEF Kubelet, Pull, Finish, RemovePod
  <1>2. WatchType'
     BY <1>1 DEF Kubelet, Pull, Finish, RemovePod, WatchInv, WatchType, Phases
  <1>3. \A other \in Names : pod'[other] \in {"pulling", "pulled", "ended"} =>
                                pod[other] \in {"pulling", "pulled", "ended"}
     BY DEF Kubelet, Pull, Finish, RemovePod, WatchInv, WatchType
  <1>4. PodIsWatched'  BY <1>1, <1>3 DEF WatchInv, PodIsWatched
  <1> QED  BY <1>2, <1>4 DEF WatchInv

LEMMA RestartKeeps ==
  ASSUME WatchInv, ProcessRestarts
  PROVE  WatchInv'
  <1>1. WatchType'  BY DEF ProcessRestarts, WatchInv, WatchType
  <1>2. \A nm \in Names : pod'[nm] # "absent" => orphaned'[nm]
     BY DEF ProcessRestarts
  <1>3. PodIsWatched'  BY <1>2 DEF PodIsWatched
  <1> QED  BY <1>1, <1>3 DEF WatchInv

\* No pre-pull pod is left behind, with any number of overlapping calls, nodes and
\* failing requests: the pod that PreDownloadImageToTargetCluster created has a
\* goroutine that will delete it, except where a Create or a Delete of it was answered
\* with an error or the operator restarted.
THEOREM PodsAreWatched == Spec => []PodIsWatched
  <1>1. Init => WatchInv  BY InitWatch
  <1>2. WatchInv /\ [Next]_vars => WatchInv'
    <2> SUFFICES ASSUME WatchInv, [Next]_vars PROVE WatchInv'  OBVIOUS
    <2>1. CASE UNCHANGED vars  BY <2>1, UnchangedKeeps DEF vars
    <2>2. CASE Next  BY <2>2, CallKeeps, WatcherKeeps, KubeletKeeps, RestartKeeps DEF Next
    <2> QED  BY <2>1, <2>2
  <1>3. WatchInv => PodIsWatched  BY DEF WatchInv
  <1> QED  BY <1>1, <1>2, <1>3, PTL DEF Spec
------------------------------------------------------------------------------
(* Types *)

\* Where a call can stand: it has something to do while it is in a loop, and past
\* the check of the label it is at a worker.
CallState ==
    {st \in [at : Steps, todo : Seq(Items)] :
        /\ st.at \in Looping => st.todo # <<>>
        /\ st.at \in Looping \ {"find"} => Head(st.todo) \in Names}

\* TypeOK without the calls.
RestOK ==
    /\ namespace \in BOOLEAN
    /\ pod \in [Names -> Phases]
    /\ watcher \in [Calls \X Names -> {"none", "watching", "deleting"}]
    /\ published \in Nat /\ version \in [Calls -> Nat] /\ onNode \in [Names -> Nat]
    /\ orphaned \in [Names -> BOOLEAN]
    /\ faults \in 0..MaxFaults

TypeInv == RestOK /\ call \in [Calls -> CallState]

LEMMA TypeParts == TypeInv => TypeOK
  <1>1. ASSUME call \in [Calls -> CallState]
        PROVE  /\ call \in [Calls -> [at : Steps, todo : Seq(Items)]]
               /\ \A c \in Calls : /\ call[c].at \in Looping => call[c].todo # <<>>
                                   /\ call[c].at \in Looping \ {"find"} => Current(c) \in Names
     BY <1>1 DEF CallState, Current
  <1> QED  BY <1>1 DEF TypeInv, TypeOK, RestOK, Phases

LEMMA InitTypes == Init => TypeInv
  <1> SUFFICES ASSUME Init PROVE RestOK /\ call \in [Calls -> CallState]  BY DEF TypeInv
  <1>1. Idle \in CallState  BY EmptySeq DEF Idle, At, CallState, Steps, Looping
  <1>2. RestOK
    <2>1. /\ namespace \in BOOLEAN
          /\ orphaned \in [Names -> BOOLEAN]
       BY Zenon DEF Init
    <2>2. pod \in [Names -> Phases]  BY DEF Init, Phases
    <2>3. watcher \in [Calls \X Names -> {"none", "watching", "deleting"}]  BY DEF Init
    <2>4. published \in Nat /\ version \in [Calls -> Nat] /\ onNode \in [Names -> Nat] /\ faults \in 0..MaxFaults
       BY BoundsAssumption DEF Init
    <2> QED  BY <2>1, <2>2, <2>3, <2>4 DEF RestOK
  <1> QED  BY <1>1, <1>2 DEF Init

LEMMA EndsAreStates == Failed \in CallState /\ Done \in CallState
  BY EmptySeq DEF Failed, Done, At, CallState, Steps, Looping

\* The loops go over nodes that were listed.
LEMMA ListIsLoop ==
  ASSUME NEW image \in Images
  PROVE  [i \in DOMAIN NodeList |-> <<image, NodeList[i]>>] \in Seq(Items)
  <1>1. NodeList \in Seq(Range(NodeList))  BY CallsAssumption
  <1>2. \A i \in DOMAIN NodeList : NodeList[i] \in Range(NodeList)  BY DEF Range
  <1>3. DOMAIN NodeList = 1..Len(NodeList) /\ Len(NodeList) \in Nat  BY <1>1
  <1>4. \A i \in 1..Len(NodeList) : <<image, NodeList[i]>> \in Items  BY <1>2, <1>3 DEF Items
  <1> QED  BY <1>3, <1>4

LEMMA TailOfLonger ==
  ASSUME NEW s \in Seq(Items), s # <<>>, Len(s) # 1
  PROVE  Tail(s) \in Seq(Items) /\ Tail(s) # <<>>
  <1>1. Tail(s) \in Seq(Items) /\ Len(Tail(s)) = Len(s) - 1  BY HeadTailProperties
  <1>2. Len(s) \in Nat /\ Len(s) - 1 # 0  OBVIOUS
  <1>3. Len(Tail(s)) # 0  BY <1>1, <1>2
  <1>4. Tail(s) # <<>>
    <2>1. Len(<<>>) = 0  OBVIOUS
    <2>2. ASSUME Tail(s) = <<>> PROVE FALSE
      <3>1. Len(Tail(s)) = Len(<<>>)  BY <2>2, Zenon
      <3> QED  BY <1>3, <2>1, <3>1, Zenon
    <2> QED  BY <2>2
  <1> QED  BY <1>1, <1>4

\* A step of a loop leaves the call at a node, or done.
LEMMA AdvanceTypes ==
  ASSUME call \in [Calls -> CallState], NEW c \in Calls, call[c].at \in Looping, call' = Advance(c)
  PROVE  call' \in [Calls -> CallState]
  <1> DEFINE todo == call[c].todo
  <1>1. todo \in Seq(Items) /\ todo # <<>>  BY DEF CallState
  <1>2. Len(todo) # 1 => Tail(todo) \in Seq(Items) /\ Tail(todo) # <<>>
     BY <1>1, TailOfLonger
  <1>3. Len(todo) # 1 => At("find", Tail(todo)) \in CallState
     BY <1>2 DEF At, CallState, Steps, Looping
  <1> HIDE DEF todo
  <1>4. call' = [call EXCEPT ![c] = IF Len(todo) = 1 THEN Done ELSE At("find", Tail(todo))]
     BY DEF Advance, todo
  <1> QED  BY <1>3, <1>4, EndsAreStates

\* Within a node of a loop only the step changes.
LEMMA StepTypes ==
  ASSUME call \in [Calls -> CallState], NEW c \in Calls, NEW s \in Looping \ {"find"},
         call[c].at \in Looping, Head(call[c].todo) \in Names, call' = [call EXCEPT ![c].at = s]
  PROVE  call' \in [Calls -> CallState]
  <1> DEFINE st == [call[c] EXCEPT !.at = s]
  <1>1. call[c] \in CallState  OBVIOUS
  <1>2. st.at = s /\ st.todo = call[c].todo /\ st \in [at : Steps, todo : Seq(Items)]
     BY <1>1 DEF CallState, Steps, Looping
  <1>3. st \in CallState  BY <1>1, <1>2 DEF CallState
  <1>4. call' = [call EXCEPT ![c] = st]  OBVIOUS
  <1> QED  BY <1>3, <1>4

\* The same for a call that stops with an error.
LEMMA FailedTypes ==
  ASSUME call \in [Calls -> CallState], NEW c \in Calls, call' = [call EXCEPT ![c] = Failed]
  PROVE  call' \in [Calls -> CallState]
  BY EndsAreStates

LEMMA FaultTypes ==
  ASSUME faults \in 0..MaxFaults, Answers \/ Fault
  PROVE  faults' \in 0..MaxFaults
  BY BoundsAssumption DEF Answers, Fault

\* What OpenTarget to CreatePod do to the calls.
LEMMA CallTypes ==
  ASSUME TypeInv, NEW c \in Calls, Call(c)
  PROVE  call' \in [Calls -> CallState]
  <1>0. call \in [Calls -> CallState] /\ call[c] \in CallState  BY DEF TypeInv
  <1>1. CASE OpenTarget(c)
    <2>1. At("namespace", <<>>) \in CallState  BY EmptySeq DEF At, CallState, Steps, Looping
    <2> QED  BY <1>0, <1>1, <2>1, EndsAreStates DEF OpenTarget
  <1>2. CASE EnsureNamespace(c)
    <2> DEFINE st == [call[c] EXCEPT !.at = "list"]
    <2>1. st.at = "list" /\ st \in [at : Steps, todo : Seq(Items)]  BY <1>0 DEF CallState, Steps
    <2>2. st \in CallState  BY <2>1 DEF CallState, Looping
    <2>3. call' = [call EXCEPT ![c] = st]  BY <1>2 DEF EnsureNamespace
    <2> QED  BY <1>0, <2>2, <2>3
  <1>3. CASE ListNodes(c)
    <2> DEFINE For(image) == [i \in DOMAIN NodeList |-> <<image, NodeList[i]>>]
               todo == For("checkpoint") \o (IF HasOriginal THEN For("original") ELSE <<>>)
    <2>1. For("checkpoint") \in Seq(Items)  BY ListIsLoop DEF Images
    <2>2. HasOriginal => For("original") \in Seq(Items)  BY ListIsLoop DEF Images
    <2> HIDE DEF For
    <2>3. todo \in Seq(Items)  BY <2>1, <2>2, EmptySeq
    <2> HIDE DEF todo
    <2>4. todo # <<>> => At("find", todo) \in CallState  BY <2>3 DEF At, CallState, Steps, Looping
    <2>5. \/ call' = [call EXCEPT ![c] = IF todo = <<>> THEN Done ELSE At("find", todo)]
          \/ call' = [call EXCEPT ![c] = Failed]
       BY <1>3 DEF ListNodes, todo, For
    <2> QED  BY <1>0, <2>4, <2>5, EndsAreStates
  <1>4. CASE SkipNode(c)  BY <1>0, <1>4, AdvanceTypes DEF SkipNode, Looping
  <1>5. CASE FindPod(c)
    <2>1. call[c].at = "find" /\ call[c].todo \in Seq(Items) /\ call[c].todo # <<>>
       BY <1>0, <1>5 DEF FindPod, CallState, Looping
    <2>2. Head(call[c].todo) \in Items /\ Head(call[c].todo)[2] \notin ControlPlane
       BY <1>5, <2>1, HeadTailProperties DEF FindPod, Current
    <2>3. Head(call[c].todo) \in Names  BY <2>2 DEF Items, Names, Workers
    <2>4. \/ \E s \in {"create", "delete"} : call' = [call EXCEPT ![c].at = s]
          \/ call' = [call EXCEPT ![c] = Failed]
       BY <1>5 DEF FindPod
    <2> QED  BY <1>0, <2>1, <2>3, <2>4, StepTypes, FailedTypes DEF Looping
  <1>6. CASE DeletePod(c) \/ Sleep(c)
    <2>1. call[c].at \in Looping \ {"find"}  BY <1>6 DEF DeletePod, Sleep, Looping
    <2>2. Head(call[c].todo) \in Names  BY <1>0, <2>1 DEF CallState
    <2>3. \/ \E s \in {"create", "sleep"} : call' = [call EXCEPT ![c].at = s]
          \/ call' = [call EXCEPT ![c] = Failed]
       BY <1>6 DEF DeletePod, Sleep
    <2> QED  BY <1>0, <2>1, <2>2, <2>3, StepTypes, FailedTypes DEF Looping
  <1>7. CASE CreatePod(c)  BY <1>0, <1>7, AdvanceTypes DEF CreatePod, Looping
  <1>8. CASE CreatePodFails(c)  BY <1>0, <1>8, FailedTypes DEF CreatePodFails
  <1> QED  BY <1>1, <1>2, <1>3, <1>4, <1>5, <1>6, <1>7, <1>8 DEF Call

\* What they do to the pods and the rest.
LEMMA CallRest ==
  ASSUME TypeInv, NEW c \in Calls, Call(c)
  PROVE  RestOK'
  <1>0. RestOK  BY DEF TypeInv
  <1>1. CASE OpenTarget(c)
    <2>1. Answers \/ Fault  BY <1>1 DEF OpenTarget, GetWorkloadClusterClient
    <2>2. published' \in Nat /\ version' \in [Calls -> Nat]  BY <1>0, <1>1 DEF OpenTarget, RestOK
    <2> QED  BY <1>0, <1>1, <2>1, <2>2, FaultTypes DEF OpenTarget, RestOK
  <1>2. CASE EnsureNamespace(c)
    <2>1. Answers \/ Fault  BY <1>2 DEF EnsureNamespace
    <2>2. namespace' \in BOOLEAN  BY <1>0, <1>2, Zenon DEF EnsureNamespace, RestOK
    <2> QED  BY <1>0, <1>2, <2>1, <2>2, FaultTypes DEF EnsureNamespace, RestOK
  <1>3. CASE ListNodes(c) \/ SkipNode(c) \/ FindPod(c) \/ Sleep(c)
    <2>1. Answers \/ Fault  BY <1>3 DEF ListNodes, SkipNode, FindPod, Sleep, Answers
    <2>2. UNCHANGED <<namespace, pod, watcher, published, version, onNode, orphaned>>
       BY <1>3 DEF ListNodes, SkipNode, FindPod, Sleep
    <2> QED  BY <1>0, <2>1, <2>2, FaultTypes DEF RestOK
  <1>4. CASE DeletePod(c)
    <2>1. Answers \/ Fault  BY <1>4 DEF DeletePod
    <2>2. UNCHANGED pod \/ Deleted(Current(c))  BY <1>4 DEF DeletePod
    <2>3. pod' \in [Names -> Phases]  BY <1>0, <2>2 DEF Deleted, RestOK, Phases
    <2> QED  BY <1>0, <1>4, <2>1, <2>3, FaultTypes DEF DeletePod, RestOK
  <1>6. CASE CreatePodFails(c)
    <2>1. Answers \/ Fault  BY <1>6 DEF CreatePodFails
    <2>2. pod' \in [Names -> Phases] /\ orphaned' \in [Names -> BOOLEAN]
       BY <1>0, <1>6 DEF CreatePodFails, RestOK, Phases
    <2> QED  BY <1>0, <1>6, <2>1, <2>2, FaultTypes DEF CreatePodFails, RestOK
  <1>5. CASE CreatePod(c)
    <2> DEFINE cur == Current(c)
    <2>1. /\ pod' = [pod EXCEPT ![cur] = IF @ = "absent" THEN "pulling" ELSE @]
          /\ orphaned' = [orphaned EXCEPT ![cur] = FALSE]
          /\ watcher' = [watcher EXCEPT ![<<c, cur>>] = "watching"]
          /\ UNCHANGED <<namespace, published, version, onNode, faults>>
       BY <1>5 DEF CreatePod
    <2> HIDE DEF cur
    <2>2. pod' \in [Names -> Phases]  BY <1>0, <2>1 DEF RestOK, Phases
    <2>3. orphaned' \in [Names -> BOOLEAN]  BY <1>0, <2>1 DEF RestOK
    <2>4. watcher' \in [Calls \X Names -> {"none", "watching", "deleting"}]  BY <1>0, <2>1 DEF RestOK
    <2> QED  BY <1>0, <2>1, <2>2, <2>3, <2>4 DEF RestOK
  <1> QED  BY <1>1, <1>2, <1>3, <1>4, <1>5, <1>6 DEF Call

LEMMA WatcherTypes ==
  ASSUME TypeInv, NEW c \in Calls, NEW nm \in Names, Watcher(c, nm)
  PROVE  TypeInv'
  <1>0. RestOK /\ call \in [Calls -> CallState]  BY DEF TypeInv
  <1>1. /\ UNCHANGED <<namespace, call, published, version, onNode>>
        /\ \E s \in {"none", "deleting"} : watcher' = [watcher EXCEPT ![<<c, nm>>] = s]
        /\ UNCHANGED pod \/ Deleted(nm)
     BY DEF Watcher, WatchPoll, WatchTimeout, WatchDelete
  <1>2. Answers \/ Fault  BY DEF Watcher, WatchPoll, WatchTimeout, WatchDelete, Answers
  <1>3. pod' \in [Names -> Phases]  BY <1>0, <1>1 DEF Deleted, RestOK, Phases
  <1>5. orphaned' \in [Names -> BOOLEAN]
     BY <1>0 DEF Watcher, WatchPoll, WatchTimeout, WatchDelete, RestOK
  <1>6. watcher' \in [Calls \X Names -> {"none", "watching", "deleting"}]  BY <1>0, <1>1 DEF RestOK
  <1>7. faults' \in 0..MaxFaults  BY <1>0, <1>2, FaultTypes DEF RestOK
  <1>8. RestOK'  BY <1>0, <1>1, <1>3, <1>5, <1>6, <1>7 DEF RestOK
  <1>9. call' \in [Calls -> CallState]  BY <1>0, <1>1
  <1> QED  BY <1>8, <1>9 DEF TypeInv

LEMMA KubeletTypes ==
  ASSUME TypeInv, NEW nm \in Names, Kubelet(nm)
  PROVE  TypeInv'
  <1>0. RestOK /\ call \in [Calls -> CallState]  BY DEF TypeInv
  <1>1. /\ UNCHANGED <<namespace, call, watcher, published, version, orphaned>>
        /\ \E s \in Phases : pod' = [pod EXCEPT ![nm] = s]
     BY DEF Kubelet, Pull, Finish, RemovePod, Phases
  <1>2. onNode' \in [Names -> Nat]
    <2>1. CASE Pull(nm)
      <3>1. PICK v \in Nat : onNode' = [onNode EXCEPT ![nm] = v]
         BY <1>0, <2>1 DEF Pull, RestOK
      <3> QED  BY <1>0, <3>1 DEF RestOK
    <2>2. CASE Finish(nm) \/ RemovePod(nm)  BY <1>0, <2>2 DEF Finish, RemovePod, RestOK
    <2> QED  BY <2>1, <2>2 DEF Kubelet
  <1>3. pod' \in [Names -> Phases]  BY <1>0, <1>1 DEF RestOK
  <1>6. faults' \in 0..MaxFaults
    <2>1. Answers \/ Fault  BY DEF Kubelet, Pull, Finish, RemovePod, Answers
    <2> QED  BY <1>0, <2>1, FaultTypes DEF RestOK
  <1>4. RestOK'  BY <1>0, <1>1, <1>2, <1>3, <1>6 DEF RestOK
  <1>5. call' \in [Calls -> CallState]  BY <1>0, <1>1
  <1> QED  BY <1>4, <1>5 DEF TypeInv

LEMMA RestartTypes ==
  ASSUME TypeInv, ProcessRestarts
  PROVE  TypeInv'
  <1>0. RestOK /\ call \in [Calls -> CallState]  BY DEF TypeInv
  <1>1. call' \in [Calls -> CallState]  BY <1>0, EndsAreStates DEF ProcessRestarts
  <1>2. watcher' \in [Calls \X Names -> {"none", "watching", "deleting"}]  BY DEF ProcessRestarts
  <1>3. orphaned' \in [Names -> BOOLEAN]  BY <1>0 DEF ProcessRestarts, RestOK
  <1>4. faults' \in 0..MaxFaults  BY <1>0, FaultTypes DEF ProcessRestarts, RestOK
  <1>5. RestOK'  BY <1>0, <1>2, <1>3, <1>4 DEF ProcessRestarts, RestOK
  <1> QED  BY <1>1, <1>5 DEF TypeInv

\* Type correctness for any nodes, calls and faults: a call of
\* PreDownloadImageToTargetCluster that is in one of its loops is at a node, and it
\* looks for, deletes and creates pods on nodes without the control-plane label only.
THEOREM TypeCorrect == Spec => []TypeOK
  <1>1. TypeInv /\ [Next]_vars => TypeInv'
    <2> SUFFICES ASSUME TypeInv, [Next]_vars PROVE TypeInv'  OBVIOUS
    <2>1. CASE UNCHANGED vars
      <3>1. UNCHANGED <<namespace, pod, call, watcher, published, version, onNode, orphaned, faults>>
         BY <2>1 DEF vars
      <3> QED  BY <3>1 DEF TypeInv, RestOK
    <2>2. CASE Next
      <3>1. ASSUME NEW c \in Calls, Call(c) PROVE TypeInv'
         BY <3>1, CallTypes, CallRest DEF TypeInv
      <3> QED  BY <2>2, <3>1, WatcherTypes, KubeletTypes, RestartTypes DEF Next
    <2> QED  BY <2>1, <2>2
  <1> QED  BY <1>1, InitTypes, TypeParts, PTL DEF Spec


==============================================================================
