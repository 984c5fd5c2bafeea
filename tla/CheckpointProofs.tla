-------------------------- MODULE CheckpointProofs --------------------------
(* Proofs about CheckpointController, for every value of its constants. *)
EXTENDS CheckpointController, FiniteSetTheorems, TLAPS

Calls == {"idle", "finalizer", "delete", "connect", "first"}

\* Who has a copy in hand: a call, until it returns, and a run, until it returns.
\* Only the first run works inside a Reconcile call.
CopiesInHand ==
    /\ rec.at = "idle" <=> rec.ptr = None
    /\ \A r \in Runs : run[r].at = "none" <=> run[r].ptr = None
    /\ rec.at # "first" => run[First] = NoRun

\* The scheduler has the entry of scheduledJobs and no other.
OneEntry == cron = IF job = None THEN {} ELSE {job}

\* Which copies of the resource can be about: the finalizer holds a resource that
\* is scheduled or in hand, and a cache that lags behind its removal shows either
\* the deletion or a resource that never had the finalizer.
Guarded ==
    /\ api.present /\ api.deleting => api.finalizer
    /\ cache.deleting => api.deleting
    /\ api.present /\ ~api.finalizer => ~cache.finalizer
    /\ ~api.present => ~cache.present \/ cache.deleting \/ ~cache.finalizer
    /\ rec.at = "delete" => cache.deleting
    /\ rec.at \in {"connect", "first"} => api.present /\ api.finalizer
    /\ cron # {} => api.present /\ api.finalizer

\* An object is honest if it names a pushed image or none, Completed needing one.
Honest(o) ==
    /\ o.image # None => o.image \in registry
    /\ o.phase = "Completed" => o.image # None

\* Every copy is honest, and a run that is about to publish has pushed.
AllHonest ==
    /\ Honest(api) /\ Honest(cache)
    /\ \A p \in Pointers : Honest(heap[p])
    /\ \A r \in Runs : /\ Honest(run[r].sent)
                       /\ run[r].at \in {"complete", "final"} =>
                             ContainerOrder[run[r].next] \in registry

\* A copy is not ahead of the API server, and a current one has an image if the
\* API server has.
Behind(o) ==
    /\ o.rv <= api.rv
    /\ o.rv = api.rv /\ api.image # None => o.image # None

AllBehind ==
    /\ api.rv >= 1 /\ (api.rv = 1 => api.image = None)
    /\ Behind(cache)
    /\ \A p \in Pointers : Behind(heap[p])
    /\ \A r \in Runs : Behind(run[r].sent)

\* The copy to which a call adds the finalizer is its own, and if it is current the
\* resource has none yet.
FinalizerIsNew ==
    /\ cache.rv = api.rv => cache.finalizer = api.finalizer
    /\ rec.at = "finalizer" =>
          /\ rec.ptr \notin cron /\ \A r \in Runs : run[r].ptr # rec.ptr
          /\ heap[rec.ptr].rv = api.rv => ~api.finalizer

Inv == TypeOK /\ CopiesInHand /\ OneEntry /\ Guarded /\ FinalizerIsNew /\ AllHonest /\ AllBehind

------------------------------------------------------------------------------
(* The operators *)

LEMMA ContainersAreNamed ==
  /\ Len(ContainerOrder) \in Nat /\ Len(ContainerOrder) >= 1
  /\ \A i \in 1..Len(ContainerOrder) :
        ContainerOrder[i] \in Containers /\ ContainerOrder[i] # None
  <1>1. ContainerOrder \in Seq(Containers) /\ ContainerOrder # <<>> /\ None \notin Containers
     BY NamesAssumption
  <1> QED  BY <1>1

LEMMA CreatedType == Created \in Object /\ Created.rv = 1 /\ Created.image = None
                     /\ Created.phase = ""
  BY DEF Created, Object, Phase

LEMMA NoRunType == /\ NoRun \in RunState /\ NoRun.at = "none" /\ NoRun.ptr = None
                   /\ NoRun.sent = Created
  <1>1. 1 \in 1..Len(ContainerOrder)  BY ContainersAreNamed
  <1> QED  BY <1>1, CreatedType DEF NoRun, RunState

\* A step of a run to another place in the code, between two updates.
LEMMA AtMoves ==
  ASSUME TypeOK, NEW r \in Runs, NEW point \in {"pod", "work", "ok", "error"} \union UpdatePoint,
         At(r, point)
  PROVE  \E q \in RunState :
            /\ run' = [run EXCEPT ![r] = q]
            /\ q.at = point /\ q.sent = Created
            /\ q.next = run[r].next /\ q.ptr = run[r].ptr
  <1> DEFINE q == [run[r] EXCEPT !.at = point, !.stage = "write", !.sent = Created]
  <1>1. run[r] \in RunState  BY DEF TypeOK
  <1>2. /\ q \in RunState /\ q.at = point /\ q.sent = Created
        /\ q.next = run[r].next /\ q.ptr = run[r].ptr
     BY <1>1, CreatedType DEF RunState
  <1>3. run' = [run EXCEPT ![r] = q]  BY DEF At, TypeOK
  <1> HIDE DEF q
  <1> QED  BY <1>2, <1>3

LEMMA AssignedType ==
  ASSUME NEW o \in Object, NEW point \in UpdatePoint, NEW c \in Containers
  PROVE  /\ Assigned(o, point, c) \in Object
         /\ Assigned(o, point, c).rv = o.rv
         /\ Assigned(o, point, c).image = IF point \in {"complete", "final"} THEN c ELSE o.image
         /\ Assigned(o, point, c).phase = "Completed" => point \in {"complete", "final"}
  <1>1. CASE point = "begin"  BY <1>1 DEF Assigned, Object, Phase
  <1>2. CASE point \in {"innerFail", "outerFail"}  BY <1>2 DEF Assigned, Object, Phase
  <1>3. CASE point \in {"complete", "final"}  BY <1>3 DEF Assigned, Object, Phase
  <1> QED  BY <1>1, <1>2, <1>3 DEF UpdatePoint

\* There is always room for one more copy.
LEMMA FreePointer ==
  ASSUME Inv, rec.at = "idle"
  PROVE  /\ (CHOOSE q \in Pointers : q \notin InUse) \in Pointers
         /\ (CHOOSE q \in Pointers : q \notin InUse) \notin InUse
  <1> DEFINE held == {run[r].ptr : r \in Ticks}
  <1>1. IsFiniteSet(held) /\ Cardinality(held) <= Cardinality(Ticks)
    <2> DEFINE f == [r \in Ticks |-> run[r].ptr]
    <2>1. f \in [Ticks -> held] /\ \A y \in held : \E x \in Ticks : f[x] = y  OBVIOUS
    <2>2. f \in Surjection(Ticks, held)  BY <2>1 DEF Surjection
    <2> HIDE DEF f, held
    <2> QED  BY <2>2, PointersAssumption, FS_Surjection
  <1>2. IsFiniteSet(held \union {job}) /\ Cardinality(held \union {job}) <= Cardinality(Ticks) + 1
    <2> HIDE DEF held
    <2>1. Cardinality(held) \in Nat /\ Cardinality(Ticks) \in Nat
       BY <1>1, FS_CardinalityType, PointersAssumption
    <2>2. /\ IsFiniteSet(held \union {job})
          /\ Cardinality(held \union {job}) =
                IF job \in held THEN Cardinality(held) ELSE Cardinality(held) + 1
       BY <1>1, FS_AddElement
    <2> QED  BY <1>1, <2>1, <2>2
  <1>3. InUse \subseteq held \union {job, None}
    <2>1. rec.ptr = None /\ run[First].ptr = None
       BY NoRunType DEF Inv, CopiesInHand
    <2>2. cron \subseteq {job}  BY DEF Inv, OneEntry
    <2> QED  BY <2>1, <2>2 DEF InUse, Runs
  <1>4. \E q \in Pointers : q \notin InUse
    <2> SUFFICES ASSUME \A q \in Pointers : q \in InUse PROVE FALSE  OBVIOUS
    <2>1. None \notin Pointers  BY NamesAssumption
    <2>2. Pointers \subseteq held \union {job}  BY <1>3, <2>1
    <2>3. Cardinality(Pointers) <= Cardinality(held \union {job})
      <3> HIDE DEF held
      <3> QED  BY <1>2, <2>2, FS_Subset
    <2>4. /\ Cardinality(Pointers) \in Nat /\ Cardinality(Ticks) \in Nat
          /\ Cardinality(held \union {job}) \in Nat
      <3> HIDE DEF held
      <3> QED  BY <1>2, PointersAssumption, FS_CardinalityType
    <2> HIDE DEF held
    <2> QED  BY <1>2, <2>3, <2>4, PointersAssumption
  <1> QED  BY <1>4

------------------------------------------------------------------------------
(* What a step that leaves the copies, or the resource, alone keeps *)

LEMMA KeepsHonest ==
  ASSUME AllHonest, UNCHANGED <<api, cache, heap, run, registry>>
  PROVE  AllHonest'
  BY DEF AllHonest, Honest

LEMMA KeepsBehind ==
  ASSUME AllBehind, UNCHANGED <<api, cache, heap, run>>
  PROVE  AllBehind'
  BY DEF AllBehind, Behind

LEMMA CreatedIsHarmless ==
  ASSUME AllBehind
  PROVE  Honest(Created) /\ Behind(Created)
  BY CreatedType DEF Honest, Behind, AllBehind

\* Every update of the resource leaves the copies behind it.
LEMMA UpdateLeavesBehind ==
  ASSUME TypeOK, AllBehind, api' \in Object, api'.rv = api.rv + 1
  PROVE  /\ api'.rv \in Nat /\ api'.rv >= 2
         /\ \A o \in Object : Behind(o) => o.rv < api'.rv
  <1>1. api.rv \in Nat /\ api'.rv \in Nat /\ api.rv >= 1  BY DEF TypeOK, AllBehind, Object
  <1>2. ASSUME NEW o \in Object, Behind(o) PROVE o.rv < api'.rv
    <2>1. o.rv \in Nat /\ o.rv <= api.rv  BY <1>2 DEF Object, Behind
    <2> QED  BY <1>1, <2>1
  <1> QED  BY <1>1, <1>2

------------------------------------------------------------------------------
(* Reconcile *)

LEMMA InitInv == Init => Inv
  <1> SUFFICES ASSUME Init PROVE Inv  OBVIOUS
  <1>1. TypeOK
    <2>1. ticks \in 0..MaxTicks /\ faults \in 0..MaxFaults /\ edits \in 0..MaxEdits
       BY BoundsAssumption DEF Init
    <2>2. rec \in [at : Calls, ptr : Pointers \union {None}]  BY DEF Init, NoCall, Calls
    <2>3. api \in Object /\ cache \in Object /\ heap \in [Pointers -> Object]
       BY CreatedType DEF Init
    <2>4. run \in [Runs -> RunState]  BY NoRunType DEF Init
    <2> QED  BY <2>1, <2>2, <2>3, <2>4 DEF Init, TypeOK, Calls
  <1>2. CopiesInHand
    <2>1. \A r \in Runs : run[r] = NoRun  BY DEF Init
    <2>2. First \in Runs  BY DEF Runs
    <2> QED  BY <2>1, <2>2, NoRunType DEF Init, CopiesInHand, NoCall
  <1>3. OneEntry /\ Guarded /\ FinalizerIsNew
     BY DEF Init, OneEntry, Guarded, FinalizerIsNew, NoCall, Created
  <1>4. \A r \in Runs : run[r].sent = Created /\ run[r].at = "none"  BY NoRunType DEF Init
  <1>5. AllBehind
    <2>1. api.rv = 1 /\ api.image = None  BY CreatedType DEF Init
    <2>2. Behind(Created)
      <3>1. api = Created /\ api.rv \in Nat  BY CreatedType DEF Init, Object
      <3>2. Created.rv <= api.rv  BY <3>1
      <3> QED  BY <2>1, <3>2 DEF Behind
    <2>3. api.rv >= 1  BY <2>1
    <2>4. \A q \in Pointers : heap[q] = Created  BY DEF Init
    <2> QED  BY <1>4, <2>1, <2>2, <2>3, <2>4 DEF Init, AllBehind
  <1>6. AllHonest
     BY <1>4, <1>5, CreatedIsHarmless DEF Init, AllHonest
  <1> QED  BY <1>1, <1>2, <1>3, <1>5, <1>6 DEF Inv

LEMMA GoneKeeps ==
  ASSUME Inv, ReconcileGone
  PROVE  Inv'
  <1>1. cron' = {} /\ job' = None /\ queued' = FALSE  BY DEF ReconcileGone, Inv, OneEntry
  <1>2. UNCHANGED <<api, cache, rec, heap, run, registry, boundVars>>  BY DEF ReconcileGone
  <1>3. TypeOK'  BY <1>1, <1>2 DEF Inv, TypeOK, boundVars
  <1>4. CopiesInHand'  BY <1>2 DEF Inv, CopiesInHand
  <1>5. OneEntry' /\ Guarded'  BY <1>1, <1>2 DEF Inv, OneEntry, Guarded
  <1>6. FinalizerIsNew'  BY <1>1, <1>2 DEF Inv, FinalizerIsNew
  <1> QED  BY <1>2, <1>3, <1>4, <1>5, <1>6, KeepsHonest, KeepsBehind DEF Inv

LEMMA StartKeeps ==
  ASSUME Inv, ReconcileStart
  PROVE  Inv'
  <1> DEFINE p == CHOOSE q \in Pointers : q \notin InUse
             step == IF ~cache.finalizer THEN "finalizer"
                     ELSE IF cache.deleting THEN "delete" ELSE "connect"
  <1>1. p \in Pointers /\ p \notin InUse  BY FreePointer DEF ReconcileStart
  <1>2. /\ rec.at = "idle" /\ cache.present
        /\ queued' = FALSE /\ rec' = [at |-> step, ptr |-> p]
        /\ heap' = [q \in Pointers |-> IF q = p THEN cache
                                       ELSE IF q \in InUse THEN heap[q] ELSE Created]
        /\ UNCHANGED <<api, cache, cron, job, run, registry, boundVars>>
     BY DEF ReconcileStart
  <1>3. p # None  BY <1>1, NamesAssumption
  <1> HIDE DEF p
  <1>4. heap' \in [Pointers -> Object]  BY <1>1, <1>2, CreatedType DEF Inv, TypeOK
  <1>5. TypeOK'  BY <1>1, <1>2, <1>4 DEF Inv, TypeOK, boundVars
  <1>6. rec'.at = step /\ rec'.ptr = p  BY <1>2
  <1>7. CopiesInHand'  BY <1>2, <1>3, <1>6 DEF Inv, CopiesInHand
  <1>8. OneEntry'  BY <1>2 DEF Inv, OneEntry
  <1>9. Guarded'
     BY <1>2, <1>6 DEF Inv, Guarded
  <1>10. FinalizerIsNew'
    <2>1. p \notin cron /\ \A r \in Runs : run[r].ptr # p  BY <1>1 DEF InUse
    <2>2. heap'[p] = cache  BY <1>1, <1>2
    <2> QED  BY <1>2, <1>6, <2>1, <2>2 DEF Inv, FinalizerIsNew
  <1>11. \A q \in Pointers : heap'[q] \in {cache, heap[q], Created}  BY <1>2
  <1>12. AllHonest'
     BY <1>2, <1>11, CreatedIsHarmless DEF Inv, AllHonest, Honest
  <1>13. AllBehind'
     BY <1>2, <1>11, CreatedIsHarmless DEF Inv, AllBehind, Behind
  <1> QED  BY <1>5, <1>7, <1>8, <1>9, <1>10, <1>12, <1>13 DEF Inv

\* A call that returns with an error has changed nothing but the queue.
LEMMA RetryKeeps ==
  ASSUME Inv, rec.at # "first", Retry, UNCHANGED <<ticks, edits>>, faults' \in 0..MaxFaults,
         UNCHANGED <<api, cache, heap, run, registry>>,
         \/ UNCHANGED <<cron, job>>
         \/ cron' = {} /\ job' = None
  PROVE  Inv'
  <1>1. rec' = NoCall /\ rec'.at = "idle" /\ rec'.ptr = None /\ queued' = TRUE  BY DEF Retry, NoCall
  <1>2. TypeOK'  BY <1>1 DEF Inv, TypeOK, NoCall
  <1>3. CopiesInHand'  BY <1>1 DEF Inv, CopiesInHand
  <1>4. OneEntry'  BY DEF Inv, OneEntry
  <1>5. Guarded'  BY <1>1 DEF Inv, Guarded
  <1>6. FinalizerIsNew'  BY <1>1 DEF Inv, FinalizerIsNew
  <1> QED  BY <1>2, <1>3, <1>4, <1>5, <1>6, KeepsHonest, KeepsBehind DEF Inv

LEMMA FaultType ==
  ASSUME TypeOK, Fault \/ UNCHANGED faults
  PROVE  faults' \in 0..MaxFaults
  BY BoundsAssumption DEF TypeOK, Fault

\* A step in which no run sends anything, and none is about to publish too early.
SentByRuns ==
    \A r \in Runs : /\ run'[r].sent \in {run[r].sent, Created}
                    /\ run'[r].at \in {"complete", "final"} =>
                          ContainerOrder[run'[r].next] \in registry

\* One copy at most is overwritten, by the resource.
CopiesUpdate(p) == heap' = heap \/ heap' = [heap EXCEPT ![p] = api']

\* An update that makes the version of the resource new, and at most one copy equal
\* to it, keeps the copies honest and behind.
LEMMA UpdateKeepsCopies ==
  ASSUME Inv, api' \in Object, api'.rv = api.rv + 1, Honest(api'),
         NEW p, CopiesUpdate(p),
         UNCHANGED <<cache, registry>>,
         SentByRuns
  PROVE  AllHonest' /\ AllBehind'
  <1>1. \A o : Honest(o)' <=> Honest(o)  BY DEF Honest
  <1>2. /\ api'.rv \in Nat /\ api'.rv >= 2
        /\ \A o \in Object : Behind(o) => o.rv < api'.rv
     BY UpdateLeavesBehind DEF Inv
  <1>3. \A o \in Object : Behind(o) => Behind(o)'
    <2> SUFFICES ASSUME NEW o \in Object, Behind(o) PROVE Behind(o)'  OBVIOUS
    <2>1. o.rv \in Nat /\ o.rv < api'.rv  BY <1>2 DEF Object
    <2> QED  BY <1>2, <2>1 DEF Behind
  <1>4. Behind(api)'  BY <1>2 DEF Behind
  <1>5. \A q \in Pointers : heap'[q] \in {heap[q], api'}  BY DEF Inv, TypeOK, CopiesUpdate
  <1>6. /\ cache \in Object /\ \A q \in Pointers : heap[q] \in Object
        /\ \A r \in Runs : run[r].sent \in Object
     BY DEF Inv, TypeOK, RunState
  <1>7. Created \in Object /\ Honest(Created) /\ Behind(Created)
     BY CreatedType, CreatedIsHarmless DEF Inv
  <1>8. AllHonest'
    <2>1. Honest(api)'  BY <1>1
    <2>2. Honest(cache)'  BY <1>1 DEF Inv, AllHonest
    <2>3. \A q \in Pointers : Honest(heap[q])'  BY <1>1, <1>5 DEF Inv, AllHonest
    <2>4. \A r \in Runs : Honest(run[r].sent)'  BY <1>1, <1>7 DEF Inv, AllHonest, SentByRuns
    <2>5. \A r \in Runs : run'[r].at \in {"complete", "final"} => ContainerOrder[run'[r].next] \in registry'
       BY DEF SentByRuns
    <2> QED  BY <2>1, <2>2, <2>3, <2>4, <2>5 DEF AllHonest
  <1>9. AllBehind'
    <2>1. Behind(cache)'  BY <1>3, <1>6 DEF Inv, AllBehind
    <2>2. \A q \in Pointers : Behind(heap[q])'
       BY <1>3, <1>4, <1>5, <1>6 DEF Inv, AllBehind
    <2>3. \A r \in Runs : Behind(run[r].sent)'  BY <1>3, <1>6, <1>7 DEF Inv, AllBehind, SentByRuns
    <2>4. api'.rv >= 1 /\ api'.rv # 1  BY <1>2
    <2> QED  BY <2>1, <2>2, <2>3, <2>4 DEF AllBehind
  <1> QED  BY <1>8, <1>9

LEMMA AddFinalizerKeeps ==
  ASSUME Inv, AddFinalizer
  PROVE  Inv'
  <1>0. rec.at = "finalizer" /\ rec.ptr \in Pointers /\ api \in Object
    <2>1. rec.at = "finalizer"  BY DEF AddFinalizer
    <2>2. rec.ptr # None /\ rec.ptr \in Pointers \union {None}  BY <2>1 DEF Inv, TypeOK, CopiesInHand
    <2> QED  BY <2>1, <2>2 DEF Inv, TypeOK
  <1>1. CASE Accepts(api, heap[rec.ptr]) /\ api' = [api EXCEPT !.rv = @ + 1, !.finalizer = TRUE]
    <2>1. UNCHANGED <<cache, cron, job, run, registry, ticks, edits>>  BY DEF AddFinalizer
    <2>2. api.present /\ ~api.finalizer /\ ~api.deleting
       BY <1>0, <1>1 DEF Accepts, Inv, FinalizerIsNew, Guarded
    <2>3. /\ api' \in Object /\ api'.rv = api.rv + 1 /\ api'.present /\ api'.finalizer
          /\ api'.deleting = api.deleting /\ api'.image = api.image /\ api'.phase = api.phase
      <3> DEFINE n == api.rv + 1
      <3>1. n \in Nat  BY <1>0 DEF Object
      <3>2. api' = [api EXCEPT !.rv = n, !.finalizer = TRUE]  BY <1>1
      <3>3. api'.rv = api.rv + 1  BY <1>0, <3>2 DEF Object
      <3> HIDE DEF n
      <3> QED  BY <1>0, <2>2, <3>1, <3>2, <3>3 DEF Object
    <2>4. /\ rec' \in [at : Calls, ptr : Pointers \union {None}]
          /\ \/ rec'.at = "connect" /\ rec'.ptr = rec.ptr
             \/ rec'.at = "idle" /\ rec'.ptr = None
          /\ queued' \in BOOLEAN /\ CopiesUpdate(rec.ptr)
      <3>1. CASE /\ heap' = [heap EXCEPT ![rec.ptr] = api']
                 /\ rec' = [rec EXCEPT !.at = IF api.deleting THEN "delete" ELSE "connect"]
                 /\ UNCHANGED <<queued, faults>>
         BY <2>2, <3>1 DEF Inv, TypeOK, Calls, CopiesUpdate
      <3>2. CASE Retry /\ UNCHANGED heap  BY <3>2 DEF Retry, NoCall, Calls, CopiesUpdate
      <3>3. \/ /\ heap' = [heap EXCEPT ![rec.ptr] = api']
               /\ rec' = [rec EXCEPT !.at = IF api.deleting THEN "delete" ELSE "connect"]
               /\ UNCHANGED <<queued, faults>>
            \/ Retry /\ UNCHANGED heap
         BY DEF AddFinalizer
      <3> QED  BY <3>1, <3>2, <3>3
    <2>5. heap' \in [Pointers -> Object]  BY <2>3, <2>4 DEF Inv, TypeOK, CopiesUpdate
    <2>15. faults' \in 0..MaxFaults  BY FaultType DEF AddFinalizer, Inv
    <2>6. TypeOK'  BY <2>1, <2>3, <2>4, <2>5, <2>15 DEF Inv, TypeOK, Calls
    <2>7. CopiesInHand'  BY <1>0, <2>1, <2>4 DEF Inv, CopiesInHand
    <2>8. OneEntry'  BY <2>1 DEF Inv, OneEntry
    <2>9. Guarded'  BY <2>1, <2>2, <2>3, <2>4 DEF Inv, Guarded
    <2>10. FinalizerIsNew'
      <3>1. cache.rv < api'.rv  BY <2>3, UpdateLeavesBehind DEF Inv, TypeOK, AllBehind
      <3>2. cache.rv \in Nat /\ api'.rv \in Nat  BY <2>3 DEF Inv, TypeOK, Object
      <3>3. cache'.rv # api'.rv  BY <3>1, <3>2, <2>1
      <3> QED  BY <2>4, <3>3 DEF FinalizerIsNew
    <2>11. Honest(api')  BY <2>3 DEF Inv, AllHonest, Honest
    <2>12. SentByRuns
       BY <2>1 DEF Inv, AllHonest, SentByRuns
    <2>14. AllHonest' /\ AllBehind'
       BY <2>1, <2>3, <2>4, <2>11, <2>12, UpdateKeepsCopies
    <2> QED  BY <2>6, <2>7, <2>8, <2>9, <2>10, <2>14 DEF Inv
  <1>2. CASE Retry /\ UNCHANGED <<api, heap>> /\ (Fault \/ UNCHANGED faults)
    <2>1. faults' \in 0..MaxFaults  BY <1>2, FaultType DEF Inv
    <2> QED  BY <1>0, <1>2, <2>1, RetryKeeps DEF AddFinalizer
  <1> QED  BY <1>1, <1>2 DEF AddFinalizer

LEMMA DeleteKeeps ==
  ASSUME Inv, ReconcileDelete
  PROVE  Inv'
  <1>0. rec.at = "delete" /\ api \in Object /\ cron' = {} /\ job' = None
     BY DEF ReconcileDelete, Inv, TypeOK, OneEntry
  <1>1. CASE Accepts(api, heap[rec.ptr])
             /\ api' = [api EXCEPT !.rv = @ + 1, !.finalizer = FALSE, !.present = FALSE]
    <2>0. rec' = NoCall /\ queued' \in BOOLEAN /\ faults' \in 0..MaxFaults
       BY FaultType DEF ReconcileDelete, Retry, Inv, TypeOK
    <2>1. UNCHANGED <<cache, heap, run, registry, ticks, edits>>  BY DEF ReconcileDelete
    <2>2. /\ api' \in Object /\ api'.rv = api.rv + 1 /\ ~api'.present /\ ~api'.finalizer
          /\ api'.deleting = api.deleting /\ api'.image = api.image /\ api'.phase = api.phase
      <3> DEFINE n == api.rv + 1
      <3>1. n \in Nat  BY <1>0 DEF Object
      <3>2. api' = [api EXCEPT !.rv = n, !.finalizer = FALSE, !.present = FALSE]  BY <1>1
      <3>3. api'.rv = api.rv + 1  BY <1>0, <3>2 DEF Object
      <3> HIDE DEF n
      <3> QED  BY <1>0, <3>1, <3>2, <3>3 DEF Object
    <2>3. rec'.at = "idle" /\ rec'.ptr = None /\ rec' \in [at : Calls, ptr : Pointers \union {None}]
       BY <2>0 DEF NoCall, Calls
    <2>4. TypeOK'  BY <1>0, <2>0, <2>1, <2>2, <2>3 DEF Inv, TypeOK, Calls
    <2>5. CopiesInHand'  BY <1>0, <2>1, <2>3 DEF Inv, CopiesInHand
    <2>6. OneEntry'  BY <1>0 DEF OneEntry
    <2>7. Guarded'  BY <1>0, <2>1, <2>2, <2>3 DEF Inv, Guarded
    <2>8. FinalizerIsNew'
      <3>1. cache.rv < api'.rv  BY <2>2, UpdateLeavesBehind DEF Inv, TypeOK, AllBehind
      <3>2. cache.rv \in Nat /\ api'.rv \in Nat  BY <2>2 DEF Inv, TypeOK, Object
      <3>3. cache'.rv # api'.rv  BY <3>1, <3>2, <2>1
      <3> QED  BY <2>3, <3>3 DEF FinalizerIsNew
    <2>9. Honest(api')  BY <2>2 DEF Inv, AllHonest, Honest
    <2>10. SentByRuns
       BY <2>1 DEF Inv, AllHonest, SentByRuns
    <2>11. CopiesUpdate(rec.ptr)  BY <2>1 DEF CopiesUpdate
    <2>12. AllHonest' /\ AllBehind'  BY <2>1, <2>2, <2>9, <2>10, <2>11, UpdateKeepsCopies
    <2> QED  BY <2>4, <2>5, <2>6, <2>7, <2>8, <2>12 DEF Inv
  <1>2. CASE Retry /\ UNCHANGED api /\ (Fault \/ UNCHANGED faults)
    <2>1. faults' \in 0..MaxFaults  BY <1>2, FaultType DEF Inv
    <2> QED  BY <1>0, <1>2, <2>1, RetryKeeps DEF ReconcileDelete
  <1> QED  BY <1>1, <1>2 DEF ReconcileDelete

LEMMA ConnectFailsKeeps ==
  ASSUME Inv, ConnectFails
  PROVE  Inv'
  <1>1. faults' \in 0..MaxFaults  BY FaultType DEF Inv, ConnectFails
  <1> QED  BY <1>1, RetryKeeps DEF ConnectFails

\* A run that starts works on a copy that is in hand.
LEMMA StartsRun ==
  ASSUME TypeOK, NEW r \in Runs, NEW p \in Pointers, Starts(r, p)
  PROVE  \E q \in RunState : /\ run' = [run EXCEPT ![r] = q]
                             /\ q.at = "pod" /\ q.ptr = p /\ q.sent = Created
  <1> DEFINE q == [NoRun EXCEPT !.at = "pod", !.ptr = p]
  <1>1. q \in RunState /\ q.at = "pod" /\ q.ptr = p /\ q.sent = Created
     BY NoRunType DEF RunState
  <1>2. run' = [run EXCEPT ![r] = q]  BY DEF Starts
  <1> HIDE DEF q
  <1> QED  BY <1>1, <1>2

\* A step of one run that changes no other variable of the copies.
LEMMA RunKeepsCopies ==
  ASSUME Inv, NEW r \in Runs, NEW q \in RunState, run' = [run EXCEPT ![r] = q],
         q.sent \in {run[r].sent, Created},
         q.at \in {"complete", "final"} => ContainerOrder[q.next] \in registry',
         UNCHANGED <<api, cache, heap>>, registry \subseteq registry'
  PROVE  AllHonest' /\ AllBehind'
  <1>1. \A o : Honest(o) => Honest(o)'  BY DEF Honest
  <1>2. \A o : Behind(o) => Behind(o)'  BY DEF Behind
  <1>3. Honest(Created) /\ Behind(Created)  BY CreatedIsHarmless DEF Inv
  <1>4. \A t \in Runs : run'[t] = IF t = r THEN q ELSE run[t]  BY DEF Inv, TypeOK
  <1>5. \A t \in Runs : Honest(run[t].sent)' /\ Behind(run[t].sent)'
     BY <1>1, <1>2, <1>3, <1>4 DEF Inv, AllHonest, AllBehind
  <1>6. \A t \in Runs : run'[t].at \in {"complete", "final"} => ContainerOrder[run'[t].next] \in registry'
     BY <1>4 DEF Inv, AllHonest
  <1>7. AllHonest'  BY <1>1, <1>5, <1>6 DEF Inv, AllHonest
  <1>8. AllBehind'  BY <1>2, <1>5 DEF Inv, AllBehind
  <1> QED  BY <1>7, <1>8

LEMMA NormalKeeps ==
  ASSUME Inv, ReconcileNormal
  PROVE  Inv'
  <1> DEFINE p == rec.ptr
  <1>1. rec.at = "connect" /\ p \in Pointers /\ p # None
    <2>1. rec.at = "connect"  BY DEF ReconcileNormal
    <2>2. rec.ptr # None /\ rec.ptr \in Pointers \union {None}  BY <2>1 DEF Inv, TypeOK, CopiesInHand
    <2> QED  BY <2>1, <2>2
  <1>2. job' = p /\ cron' = {p} /\ UNCHANGED <<api, cache, queued, heap, registry, boundVars>>
     BY DEF ReconcileNormal, NewJob, Inv, OneEntry
  <1>3. OneEntry'  BY <1>1, <1>2 DEF OneEntry
  <1>4. First \in Runs  BY DEF Runs
  <1>5. CASE rec' = NoCall /\ UNCHANGED run
    <2>1. rec'.at = "idle" /\ rec'.ptr = None /\ rec' \in [at : Calls, ptr : Pointers \union {None}]
       BY <1>5 DEF NoCall, Calls
    <2>2. TypeOK'  BY <1>1, <1>2, <1>5, <2>1 DEF Inv, TypeOK, Calls, boundVars
    <2>3. CopiesInHand'  BY <1>1, <1>5, <2>1 DEF Inv, CopiesInHand
    <2>4. Guarded'  BY <1>1, <1>2, <2>1 DEF Inv, Guarded
    <2>5. FinalizerIsNew'  BY <1>2, <2>1 DEF Inv, FinalizerIsNew
    <2> QED  BY <1>2, <1>3, <1>5, <2>2, <2>3, <2>4, <2>5, KeepsHonest, KeepsBehind DEF Inv
  <1>6. CASE rec' = [rec EXCEPT !.at = "first"] /\ Starts(First, p)
    <2>1. /\ rec'.at = "first" /\ rec'.ptr = p /\ rec' \in [at : Calls, ptr : Pointers \union {None}]
       BY <1>6 DEF Inv, TypeOK, Calls
    <2>2. PICK q \in RunState : /\ run' = [run EXCEPT ![First] = q]
                               /\ q.at = "pod" /\ q.ptr = p /\ q.sent = Created
       BY <1>1, <1>4, <1>6, StartsRun DEF Inv
    <2>3. run' \in [Runs -> RunState]  BY <2>2 DEF Inv, TypeOK
    <2>4. TypeOK'  BY <1>1, <1>2, <2>1, <2>3 DEF Inv, TypeOK, Calls, boundVars
    <2>5. \A t \in Runs : run'[t] = IF t = First THEN q ELSE run[t]  BY <2>2 DEF Inv, TypeOK
    <2>6. CopiesInHand'  BY <1>1, <2>1, <2>2, <2>5 DEF Inv, CopiesInHand
    <2>7. Guarded'  BY <1>1, <1>2, <2>1 DEF Inv, Guarded
    <2>8. FinalizerIsNew'  BY <1>2, <2>1 DEF Inv, FinalizerIsNew
    <2>9. AllHonest' /\ AllBehind'  BY <1>2, <1>4, <2>2, RunKeepsCopies
    <2> QED  BY <1>3, <2>4, <2>6, <2>7, <2>8, <2>9 DEF Inv
  <1> QED  BY <1>5, <1>6 DEF ReconcileNormal

LEMMA RefusedKeeps ==
  ASSUME Inv, ScheduleRefused
  PROVE  Inv'
  <1>1. rec.at # "first" /\ Retry /\ cron' = {} /\ job' = None
     BY DEF ScheduleRefused, Inv, OneEntry
  <1>2. UNCHANGED <<api, cache, heap, run, registry, ticks, faults, edits>>
     BY DEF ScheduleRefused, boundVars
  <1>3. faults' \in 0..MaxFaults  BY <1>2 DEF Inv, TypeOK
  <1> QED  BY <1>1, <1>2, <1>3, RetryKeeps

LEMMA FirstReturnsKeeps ==
  ASSUME Inv, FirstReturns
  PROVE  Inv'
  <1>1. /\ rec' = NoCall /\ run' = [run EXCEPT ![First] = NoRun] /\ queued' \in BOOLEAN
        /\ UNCHANGED <<api, cache, heap, cron, job, registry, boundVars>>
     BY DEF FirstReturns, Inv, TypeOK
  <1>2. rec'.at = "idle" /\ rec'.ptr = None /\ rec' \in [at : Calls, ptr : Pointers \union {None}]
     BY <1>1 DEF NoCall, Calls
  <1>3. First \in Runs /\ run' \in [Runs -> RunState]
        /\ \A t \in Runs : run'[t] = IF t = First THEN NoRun ELSE run[t]
     BY <1>1, NoRunType DEF Inv, TypeOK, Runs
  <1>4. TypeOK'  BY <1>1, <1>2, <1>3 DEF Inv, TypeOK, Calls, boundVars
  <1>5. CopiesInHand'  BY <1>2, <1>3, NoRunType DEF Inv, CopiesInHand
  <1>6. OneEntry' /\ Guarded'  BY <1>1, <1>2 DEF Inv, OneEntry, Guarded
  <1>7. FinalizerIsNew'  BY <1>1, <1>2 DEF Inv, FinalizerIsNew
  <1>8. AllHonest' /\ AllBehind'  BY <1>1, <1>3, NoRunType, RunKeepsCopies
  <1> QED  BY <1>4, <1>5, <1>6, <1>7, <1>8 DEF Inv

\* A step of a tick, which is never the first run, that leaves the rest alone.
LEMMA TickKeeps ==
  ASSUME Inv, NEW r \in Ticks, Tick(r) \/ TickReturns(r)
  PROVE  Inv'
  <1>0. r \in Runs /\ r # First  BY NamesAssumption DEF Runs
  <1>1. PICK q \in RunState : /\ run' = [run EXCEPT ![r] = q] /\ q.sent = Created
                             /\ q.at \in {"none", "pod"} /\ (q.at = "none" <=> q.ptr = None)
                             /\ q.ptr \in cron \union {None}
    <2>1. CASE Tick(r)
      <3>1. PICK p \in cron : Starts(r, p)  BY <2>1 DEF Tick
      <3>2. p \in Pointers /\ p # None  BY NamesAssumption DEF Inv, TypeOK
      <3>3. PICK q \in RunState : /\ run' = [run EXCEPT ![r] = q]
                                 /\ q.at = "pod" /\ q.ptr = p /\ q.sent = Created
         BY <1>0, <3>1, <3>2, StartsRun DEF Inv
      <3> QED  BY <3>2, <3>3
    <2>2. CASE TickReturns(r)
       BY <2>2, NoRunType DEF TickReturns
    <2> QED  BY <2>1, <2>2
  <1>2. /\ UNCHANGED <<api, cache, recVars, heap, registry, faults, edits>>
        /\ ticks' \in 0..MaxTicks
     BY BoundsAssumption DEF Tick, TickReturns, boundVars, Inv, TypeOK
  <1>3. run' \in [Runs -> RunState] /\ \A t \in Runs : run'[t] = IF t = r THEN q ELSE run[t]
     BY <1>0, <1>1 DEF Inv, TypeOK
  <1>4. TypeOK'  BY <1>2, <1>3 DEF Inv, TypeOK, recVars
  <1>5. run'[First] = run[First]  BY <1>0, <1>3 DEF Runs
  <1>6. CopiesInHand'  BY <1>1, <1>2, <1>3, <1>5 DEF Inv, CopiesInHand, recVars
  <1>7. OneEntry' /\ Guarded'  BY <1>2 DEF Inv, OneEntry, Guarded, recVars
  <1>8. FinalizerIsNew'
    <2>1. rec.at = "finalizer" => rec.ptr \notin cron /\ rec.ptr # None
       BY DEF Inv, FinalizerIsNew, CopiesInHand
    <2> QED  BY <1>1, <1>2, <1>3, <2>1 DEF Inv, FinalizerIsNew, recVars
  <1>9. AllHonest' /\ AllBehind'  BY <1>0, <1>1, <1>2, RunKeepsCopies
  <1> QED  BY <1>4, <1>6, <1>7, <1>8, <1>9 DEF Inv

------------------------------------------------------------------------------
(* performCheckpoint *)

\* A run in progress goes on with the copy it has.
Moves(r, q) ==
    /\ run' = [run EXCEPT ![r] = q]
    /\ run[r].at # "none" /\ q.at # "none" /\ q.ptr = run[r].ptr
    /\ UNCHANGED <<cache, recVars, ticks, edits>>

LEMMA MovesKeep ==
  ASSUME Inv, NEW r \in Runs, NEW q \in RunState, Moves(r, q)
  PROVE  /\ run' \in [Runs -> RunState]
         /\ \A t \in Runs : run'[t] = IF t = r THEN q ELSE run[t]
         /\ run[r].ptr \in Pointers
         /\ rec.at = "finalizer" => run[r].ptr # rec.ptr
         /\ \A t \in Runs : run'[t].ptr = run[t].ptr
         /\ CopiesInHand' /\ OneEntry'
  <1>1. run' \in [Runs -> RunState] /\ \A t \in Runs : run'[t] = IF t = r THEN q ELSE run[t]
     BY DEF Moves, Inv, TypeOK
  <1>2. run[r].ptr \in Pointers
    <2>1. run[r].ptr \in Pointers \union {None}  BY DEF Inv, TypeOK, RunState
    <2> QED  BY <2>1 DEF Moves, Inv, CopiesInHand
  <1>3. rec.at = "finalizer" => run[r].ptr # rec.ptr  BY DEF Inv, FinalizerIsNew
  <1>4. CopiesInHand'
    <2>1. rec.at # "first" => r # First
       BY NoRunType DEF Moves, Inv, CopiesInHand
    <2>2. First \in Runs  BY DEF Runs
    <2> QED  BY <1>1, <2>1, <2>2 DEF Moves, Inv, CopiesInHand, recVars
  <1>5. OneEntry'  BY DEF Moves, Inv, OneEntry, recVars
  <1>6. \A t \in Runs : run'[t].ptr = run[t].ptr  BY <1>1 DEF Moves
  <1> QED  BY <1>1, <1>2, <1>3, <1>4, <1>5, <1>6

\* A step of a run that touches neither the resource nor a copy of it.
LEMMA QuietMoveKeeps ==
  ASSUME Inv, NEW r \in Runs, NEW q \in RunState, Moves(r, q),
         UNCHANGED <<api, heap>>, faults' \in 0..MaxFaults,
         registry' \subseteq Containers, registry \subseteq registry',
         q.sent \in {run[r].sent, Created},
         q.at \in {"complete", "final"} => ContainerOrder[q.next] \in registry'
  PROVE  Inv'
  <1>1. /\ run' \in [Runs -> RunState] /\ \A t \in Runs : run'[t].ptr = run[t].ptr
        /\ CopiesInHand' /\ OneEntry'
     BY MovesKeep
  <1>2. UNCHANGED <<cache, queued, rec, cron, job, ticks, edits>>  BY DEF Moves, recVars
  <1>3. TypeOK'  BY <1>1, <1>2 DEF Inv, TypeOK
  <1>4. Guarded'  BY <1>2 DEF Inv, Guarded
  <1>5. FinalizerIsNew'  BY <1>1, <1>2 DEF Inv, FinalizerIsNew
  <1>6. AllHonest' /\ AllBehind'  BY <1>2, RunKeepsCopies DEF Moves
  <1> QED  BY <1>1, <1>3, <1>4, <1>5, <1>6 DEF Inv

LEMMA GetPodKeeps ==
  ASSUME Inv, NEW r \in Runs, GetPod(r)
  PROVE  Inv'
  <1>1. PICK point \in {"begin", "ok", "error"} : At(r, point)  BY DEF GetPod
  <1>2. PICK q \in RunState : /\ run' = [run EXCEPT ![r] = q]
                             /\ q.at = point /\ q.sent = Created
                             /\ q.next = run[r].next /\ q.ptr = run[r].ptr
     BY <1>1, AtMoves DEF Inv, UpdatePoint
  <1>3. Moves(r, q)  BY <1>1, <1>2 DEF Moves, GetPod
  <1>4. faults' \in 0..MaxFaults  BY FaultType DEF GetPod, Inv
  <1>5. registry' = registry /\ registry \subseteq Containers /\ UNCHANGED <<api, heap>>
     BY DEF GetPod, Inv, TypeOK
  <1> QED  BY <1>1, <1>2, <1>3, <1>4, <1>5, QuietMoveKeeps

LEMMA MakeImageKeeps ==
  ASSUME Inv, NEW r \in Runs, MakeImage(r)
  PROVE  Inv'
  <1>1. PICK point \in {"complete", "innerFail"} :
           /\ At(r, point)
           /\ point = "complete" => registry' = registry \union {ContainerOrder[run[r].next]}
           /\ point = "innerFail" => registry' = registry
     BY DEF MakeImage
  <1>2. PICK q \in RunState : /\ run' = [run EXCEPT ![r] = q]
                             /\ q.at = point /\ q.sent = Created
                             /\ q.next = run[r].next /\ q.ptr = run[r].ptr
     BY <1>1, AtMoves DEF Inv, UpdatePoint
  <1>3. Moves(r, q)  BY <1>1, <1>2 DEF Moves, MakeImage
  <1>4. faults' \in 0..MaxFaults  BY FaultType DEF MakeImage, Inv
  <1>5. ContainerOrder[run[r].next] \in Containers
    <2>1. run[r].next \in 1..Len(ContainerOrder)  BY DEF Inv, TypeOK, RunState
    <2> QED  BY <2>1, ContainersAreNamed
  <1>6. /\ registry' \subseteq Containers /\ registry \subseteq registry'
        /\ UNCHANGED <<api, heap>>
        /\ q.at \in {"complete", "final"} => ContainerOrder[q.next] \in registry'
     BY <1>1, <1>2, <1>5 DEF MakeImage, Inv, TypeOK
  <1> QED  BY <1>2, <1>3, <1>4, <1>6, QuietMoveKeeps

\* An assignment to a copy names an image only after its push, and never takes one
\* away.
LEMMA WriteStatusKeeps ==
  ASSUME Inv, NEW r \in Runs, WriteStatus(r)
  PROVE  Inv'
  <1> DEFINE q == [run[r] EXCEPT !.stage = "send"]
             c == ContainerOrder[run[r].next]
             p == run[r].ptr
             o == Assigned(heap[p], run[r].at, c)
  <1>1. run[r] \in RunState /\ run[r].at \in UpdatePoint
     BY DEF Inv, TypeOK, WriteStatus
  <1>2. /\ q \in RunState /\ q.at = run[r].at /\ q.ptr = run[r].ptr /\ q.next = run[r].next
        /\ q.sent = run[r].sent
     BY <1>1 DEF RunState
  <1>3. run' = [run EXCEPT ![r] = q]  BY DEF WriteStatus, Inv, TypeOK
  <1> HIDE DEF q
  <1>4. Moves(r, q)  BY <1>1, <1>2, <1>3 DEF Moves, WriteStatus, UpdatePoint, boundVars
  <1>5. /\ run' \in [Runs -> RunState] /\ CopiesInHand' /\ OneEntry' /\ p \in Pointers
        /\ \A t \in Runs : run'[t] = IF t = r THEN q ELSE run[t]
        /\ rec.at = "finalizer" => p # rec.ptr
        /\ \A t \in Runs : run'[t].ptr = run[t].ptr
     BY <1>2, <1>4, MovesKeep
  <1>6. c \in Containers /\ c # None
    <2>1. run[r].next \in 1..Len(ContainerOrder)  BY <1>1 DEF RunState
    <2> QED  BY <2>1, ContainersAreNamed
  <1>7. heap[p] \in Object  BY <1>5 DEF Inv, TypeOK
  <1>8. /\ o \in Object /\ o.rv = heap[p].rv
        /\ o.image = IF run[r].at \in {"complete", "final"} THEN c ELSE heap[p].image
        /\ o.phase = "Completed" => run[r].at \in {"complete", "final"}
     BY <1>1, <1>6, <1>7, AssignedType
  <1>9. heap' = [heap EXCEPT ![p] = o] /\ UNCHANGED <<api, cache, recVars, registry, boundVars>>
     BY DEF WriteStatus
  <1> HIDE DEF o, p, c
  <1>10. heap' \in [Pointers -> Object] /\ \A s \in Pointers : heap'[s] = IF s = p THEN o ELSE heap[s]
     BY <1>5, <1>8, <1>9 DEF Inv, TypeOK
  <1>11. TypeOK'  BY <1>5, <1>9, <1>10 DEF Inv, TypeOK, recVars, boundVars
  <1>12. Guarded'  BY <1>9 DEF Inv, Guarded, recVars
  <1>13. FinalizerIsNew'
    <2>1. rec.at = "finalizer" => rec.ptr \in Pointers /\ heap'[rec.ptr] = heap[rec.ptr]
      <3>1. rec.at = "finalizer" => rec.ptr # None /\ rec.ptr \in Pointers \union {None}
         BY DEF Inv, TypeOK, CopiesInHand
      <3> QED  BY <1>5, <1>10, <3>1
    <2> QED  BY <1>5, <1>9, <2>1 DEF Inv, FinalizerIsNew, recVars
  <1>14. c \in registry \/ run[r].at \notin {"complete", "final"}
     BY DEF Inv, AllHonest, c
  <1>15. Honest(heap[p]) /\ Behind(heap[p])  BY <1>5 DEF Inv, AllHonest, AllBehind
  <1>16. Honest(o) /\ Behind(o)
    <2>1. Honest(o)  BY <1>6, <1>8, <1>14, <1>15 DEF Honest
    <2>2. Behind(o)  BY <1>6, <1>8, <1>15 DEF Behind
    <2> QED  BY <2>1, <2>2
  <1>17. \A x : (Honest(x) => Honest(x)') /\ (Behind(x) => Behind(x)')
     BY <1>9 DEF Honest, Behind
  <1>18. \A t \in Runs : /\ run'[t].sent = run[t].sent /\ run'[t].at = run[t].at
                         /\ run'[t].next = run[t].next
     BY <1>2, <1>5
  <1>19. AllHonest'
    <2>1. \A s \in Pointers : Honest(heap[s])'  BY <1>10, <1>16, <1>17 DEF Inv, AllHonest
    <2>2. Honest(api)' /\ Honest(cache)'  BY <1>9, <1>17 DEF Inv, AllHonest
    <2>3. \A t \in Runs : Honest(run[t].sent)'  BY <1>17, <1>18 DEF Inv, AllHonest
    <2> QED  BY <1>9, <1>18, <2>1, <2>2, <2>3 DEF Inv, AllHonest
  <1>20. AllBehind'
    <2>1. \A s \in Pointers : Behind(heap[s])'  BY <1>10, <1>16, <1>17 DEF Inv, AllBehind
    <2>2. Behind(cache)'  BY <1>9, <1>17 DEF Inv, AllBehind
    <2>3. \A t \in Runs : Behind(run[t].sent)'  BY <1>17, <1>18 DEF Inv, AllBehind
    <2> QED  BY <1>9, <2>1, <2>2, <2>3 DEF Inv, AllBehind
  <1> QED  BY <1>5, <1>11, <1>12, <1>13, <1>19, <1>20 DEF Inv

LEMMA SendStatusKeeps ==
  ASSUME Inv, NEW r \in Runs, SendStatus(r)
  PROVE  Inv'
  <1> DEFINE p == run[r].ptr
             q == [run[r] EXCEPT !.stage = "apply", !.sent = heap[p]]
  <1>1. run[r] \in RunState /\ run[r].at \in UpdatePoint
     BY DEF Inv, TypeOK, SendStatus
  <1>2. p \in Pointers
    <2>1. run[r].ptr \in Pointers \union {None}  BY <1>1 DEF RunState
    <2> QED  BY <1>1, <2>1 DEF Inv, CopiesInHand, UpdatePoint
  <1>3. heap[p] \in Object  BY <1>2 DEF Inv, TypeOK
  <1>4. /\ q \in RunState /\ q.at = run[r].at /\ q.ptr = run[r].ptr /\ q.next = run[r].next
        /\ q.sent = heap[p]
     BY <1>1, <1>3 DEF RunState
  <1>5. run' = [run EXCEPT ![r] = q]  BY DEF SendStatus, Inv, TypeOK
  <1> HIDE DEF q, p
  <1>6. Moves(r, q)  BY <1>1, <1>4, <1>5 DEF Moves, SendStatus, UpdatePoint, boundVars
  <1>7. /\ run' \in [Runs -> RunState] /\ CopiesInHand' /\ OneEntry'
        /\ \A t \in Runs : run'[t] = IF t = r THEN q ELSE run[t]
        /\ \A t \in Runs : run'[t].ptr = run[t].ptr
     BY <1>4, <1>6, MovesKeep
  <1>8. UNCHANGED <<api, cache, heap, queued, rec, cron, job, registry, ticks, faults, edits>>
     BY DEF SendStatus, recVars, boundVars
  <1>9. TypeOK'  BY <1>7, <1>8 DEF Inv, TypeOK
  <1>10. Guarded'  BY <1>8 DEF Inv, Guarded
  <1>11. FinalizerIsNew'  BY <1>7, <1>8 DEF Inv, FinalizerIsNew
  <1>12. Honest(heap[p]) /\ Behind(heap[p])  BY <1>2 DEF Inv, AllHonest, AllBehind
  <1>13. \A x : (Honest(x) => Honest(x)') /\ (Behind(x) => Behind(x)')
     BY <1>8 DEF Honest, Behind
  <1>14. \A t \in Runs : /\ Honest(run[t].sent)' /\ Behind(run[t].sent)'
                         /\ run'[t].at = run[t].at /\ run'[t].next = run[t].next
     BY <1>4, <1>7, <1>12, <1>13 DEF Inv, AllHonest, AllBehind
  <1>15. AllHonest'  BY <1>8, <1>13, <1>14 DEF Inv, AllHonest
  <1>16. AllBehind'  BY <1>8, <1>13, <1>14 DEF Inv, AllBehind
  <1> QED  BY <1>7, <1>9, <1>10, <1>11, <1>15, <1>16 DEF Inv

\* Where a run goes after an update: it is at "final" only if it was at "complete",
\* of the same container.
LEMMA ContinueMoves ==
  ASSUME TypeOK, NEW r \in Runs, run[r].at \in UpdatePoint, Continue(r) \/ Abort(r)
  PROVE  \E q \in RunState :
            /\ run' = [run EXCEPT ![r] = q]
            /\ q.at # "none" /\ q.sent = Created /\ q.ptr = run[r].ptr
            /\ q.at \in {"complete", "final"} =>
                  run[r].at = "complete" /\ q.next = run[r].next
  <1>1. CASE \E point \in {"work", "ok", "error", "outerFail"} : At(r, point)
    <2>1. PICK point \in {"work", "ok", "error", "outerFail"} : At(r, point)  BY <1>1
    <2>2. point \in {"pod", "work", "ok", "error"} \union UpdatePoint  BY DEF UpdatePoint
    <2> QED  BY <2>1, <2>2, AtMoves
  <1>2. CASE run[r].at = "complete" /\ At(r, "final")
    <2>1. "final" \in {"pod", "work", "ok", "error"} \union UpdatePoint  BY DEF UpdatePoint
    <2> QED  BY <1>2, <2>1, AtMoves
  <1>3. CASE /\ run[r].next # Len(ContainerOrder)
             /\ run' = [run EXCEPT ![r].at = "begin", ![r].stage = "write",
                                   ![r].sent = Created, ![r].next = @ + 1]
    <2> DEFINE n == run[r].next + 1
               q == [run[r] EXCEPT !.at = "begin", !.stage = "write", !.sent = Created, !.next = n]
    <2>1. run[r] \in RunState  BY DEF TypeOK
    <2>2. n \in 1..Len(ContainerOrder)
      <3>1. run[r].next \in 1..Len(ContainerOrder)  BY <2>1 DEF RunState
      <3> QED  BY <1>3, <3>1, ContainersAreNamed
    <2>3. run' = [run EXCEPT ![r] = q]  BY <1>3 DEF TypeOK
    <2> HIDE DEF n
    <2>4. q \in RunState /\ q.at = "begin" /\ q.sent = Created /\ q.ptr = run[r].ptr
       BY <2>1, <2>2, CreatedType DEF RunState, UpdatePoint
    <2> HIDE DEF q
    <2> QED  BY <2>3, <2>4
  <1>4. CASE Abort(r)  BY <1>1, <1>4 DEF Abort
  <1>5. CASE Continue(r)
    <2>1. CASE run[r].at = "begin"  BY <1>1, <1>5, <2>1 DEF Continue
    <2>2. CASE run[r].at = "complete"  BY <1>2, <1>5, <2>2 DEF Continue
    <2>3. CASE run[r].at = "innerFail"  BY <1>1, <1>5, <2>3 DEF Continue
    <2>4. CASE run[r].at = "outerFail"  BY <1>1, <1>5, <2>4 DEF Continue
    <2>5. CASE run[r].at = "final"  BY <1>1, <1>3, <1>5, <2>5 DEF Continue
    <2> QED  BY <2>1, <2>2, <2>3, <2>4, <2>5 DEF UpdatePoint
  <1> QED  BY <1>4, <1>5

\* What an accepted status update makes of the resource.
LEMMA StoredStatus ==
  ASSUME Inv, NEW o \in Object,
         api' = [api EXCEPT !.rv = @ + 1, !.timed = o.timed, !.image = o.image, !.phase = o.phase]
  PROVE  /\ api' \in Object /\ api'.rv = api.rv + 1 /\ api'.present = api.present
         /\ api'.finalizer = api.finalizer /\ api'.deleting = api.deleting
         /\ api'.image = o.image /\ api'.phase = o.phase
  <1> DEFINE n == api.rv + 1
  <1>1. api \in Object /\ n \in Nat  BY DEF Inv, TypeOK, Object
  <1>2. api' = [api EXCEPT !.rv = n, !.timed = o.timed, !.image = o.image, !.phase = o.phase]
     OBVIOUS
  <1>3. api'.rv = api.rv + 1  BY <1>1, <1>2 DEF Object
  <1> HIDE DEF n
  <1> QED  BY <1>1, <1>2, <1>3 DEF Object

LEMMA ApplyStatusKeeps ==
  ASSUME Inv, NEW r \in Runs, ApplyStatus(r)
  PROVE  Inv'
  <1>0. run[r].at \in UpdatePoint /\ run[r] \in RunState /\ run[r].sent \in Object
        /\ UNCHANGED <<cache, recVars, registry, ticks, edits>> /\ (Continue(r) \/ Abort(r))
        /\ registry \subseteq Containers
     BY DEF ApplyStatus, Inv, TypeOK, RunState
  <1>1. PICK q \in RunState :
            /\ run' = [run EXCEPT ![r] = q]
            /\ q.at # "none" /\ q.sent = Created /\ q.ptr = run[r].ptr
            /\ q.at \in {"complete", "final"} =>
                  run[r].at = "complete" /\ q.next = run[r].next
     BY <1>0, ContinueMoves DEF Inv
  <1>2. Moves(r, q)  BY <1>0, <1>1 DEF Moves, UpdatePoint
  <1>3. q.at \in {"complete", "final"} => ContainerOrder[q.next] \in registry
     BY <1>1 DEF Inv, AllHonest
  <1>4. faults' \in 0..MaxFaults  BY FaultType DEF ApplyStatus, Inv
  <1>5. CASE UNCHANGED <<api, heap>>
     BY <1>0, <1>1, <1>2, <1>3, <1>4, <1>5, QuietMoveKeeps
  <1>6. CASE /\ Accepts(api, run[r].sent)
             /\ api' = [api EXCEPT !.rv = @ + 1, !.timed = run[r].sent.timed,
                                   !.image = run[r].sent.image, !.phase = run[r].sent.phase]
             /\ CopiesUpdate(run[r].ptr)
    <2> DEFINE p == run[r].ptr
    <2>1. /\ api' \in Object /\ api'.rv = api.rv + 1 /\ api'.present = api.present
          /\ api'.finalizer = api.finalizer /\ api'.deleting = api.deleting
          /\ api'.image = run[r].sent.image /\ api'.phase = run[r].sent.phase
       BY <1>0, <1>6, StoredStatus
    <2>2. /\ run' \in [Runs -> RunState] /\ CopiesInHand' /\ OneEntry' /\ p \in Pointers
          /\ \A t \in Runs : run'[t] = IF t = r THEN q ELSE run[t]
          /\ rec.at = "finalizer" => p # rec.ptr
          /\ \A t \in Runs : run'[t].ptr = run[t].ptr
       BY <1>2, MovesKeep
    <2>3. UNCHANGED <<cache, queued, rec, cron, job, registry, ticks, edits>>  BY <1>0 DEF recVars
    <2>4. heap' \in [Pointers -> Object] /\ \A s \in Pointers : s # p => heap'[s] = heap[s]
       BY <1>6, <2>1, <2>2 DEF Inv, TypeOK, CopiesUpdate
    <2>5. TypeOK'  BY <1>4, <2>1, <2>2, <2>3, <2>4 DEF Inv, TypeOK
    <2>6. Guarded'  BY <2>1, <2>3 DEF Inv, Guarded
    <2>7. FinalizerIsNew'
      <3>1. cache.rv < api'.rv /\ \A s \in Pointers : heap[s].rv < api'.rv
         BY <2>1, UpdateLeavesBehind DEF Inv, TypeOK, AllBehind
      <3>2. /\ cache.rv \in Nat /\ api'.rv \in Nat /\ \A s \in Pointers : heap[s].rv \in Nat
        <4>1. cache \in Object /\ \A s \in Pointers : heap[s] \in Object  BY DEF Inv, TypeOK
        <4> QED  BY <2>1, <4>1 DEF Object
      <3>3. cache'.rv # api'.rv  BY <3>1, <3>2, <2>3
      <3>4. rec.at = "finalizer" => rec.ptr \in Pointers /\ rec.ptr # p
        <4>1. rec.at = "finalizer" => rec.ptr # None /\ rec.ptr \in Pointers \union {None}
           BY DEF Inv, TypeOK, CopiesInHand
        <4> QED  BY <2>2, <4>1
      <3>5. rec.at = "finalizer" => heap'[rec.ptr].rv # api'.rv
         BY <2>4, <3>1, <3>2, <3>4
      <3> QED  BY <2>2, <2>3, <3>3, <3>5 DEF Inv, FinalizerIsNew
    <2>8. Honest(api')  BY <2>1 DEF Inv, AllHonest, Honest
    <2>9. SentByRuns
       BY <1>1, <1>3, <2>2 DEF Inv, AllHonest, SentByRuns
    <2>10. CopiesUpdate(p)  BY <1>6
    <2>11. AllHonest' /\ AllBehind'
      <3> HIDE DEF p
      <3> QED  BY <2>1, <2>3, <2>8, <2>9, <2>10, UpdateKeepsCopies
    <2> QED  BY <2>2, <2>5, <2>6, <2>7, <2>11 DEF Inv
  <1> QED  BY <1>5, <1>6 DEF ApplyStatus, CopiesUpdate

------------------------------------------------------------------------------
(* The environment *)

LEMMA HourKeeps ==
  ASSUME Inv, HourPasses
  PROVE  Inv'
  <1>1. queued' = TRUE /\ UNCHANGED <<api, cache, rec, cron, job, heap, run, registry, boundVars>>
     BY DEF HourPasses
  <1>2. TypeOK'  BY <1>1 DEF Inv, TypeOK, boundVars
  <1>3. CopiesInHand' /\ OneEntry' /\ Guarded'
     BY <1>1 DEF Inv, CopiesInHand, OneEntry, Guarded
  <1>4. FinalizerIsNew'  BY <1>1 DEF Inv, FinalizerIsNew
  <1> QED  BY <1>1, <1>2, <1>3, <1>4, KeepsHonest, KeepsBehind DEF Inv

LEMMA UserDeleteKeeps ==
  ASSUME Inv, Delete
  PROVE  Inv'
  <1> DEFINE n == api.rv + 1
  <1>1. api \in Object /\ n \in Nat /\ api.present /\ ~api.deleting
     BY DEF Delete, Inv, TypeOK, Object
  <1>2. api' = IF api.finalizer THEN [api EXCEPT !.rv = n, !.deleting = TRUE]
               ELSE [api EXCEPT !.rv = n, !.present = FALSE]
     BY DEF Delete
  <1>3. api'.rv = api.rv + 1  BY <1>1, <1>2 DEF Object
  <1> HIDE DEF n
  <1>4. /\ api' \in Object /\ api'.finalizer = api.finalizer
        /\ api'.image = api.image /\ api'.phase = api.phase
        /\ api.finalizer => api'.present /\ api'.deleting
        /\ ~api.finalizer => ~api'.present /\ ~api'.deleting
     BY <1>1, <1>2 DEF Object
  <1>5. UNCHANGED <<cache, queued, rec, cron, job, heap, run, registry, ticks, faults, edits>>
     BY DEF Delete, recVars, boundVars
  <1>6. TypeOK'  BY <1>4, <1>5 DEF Inv, TypeOK
  <1>7. CopiesInHand' /\ OneEntry'  BY <1>5 DEF Inv, CopiesInHand, OneEntry
  <1>8. Guarded'  BY <1>1, <1>4, <1>5 DEF Inv, Guarded
  <1>9. cache.rv < api'.rv /\ \A s \in Pointers : heap[s].rv < api'.rv
     BY <1>3, <1>4, UpdateLeavesBehind DEF Inv, TypeOK, AllBehind
  <1>10. FinalizerIsNew'
    <2>1. /\ cache.rv \in Nat /\ api'.rv \in Nat /\ \A s \in Pointers : heap[s].rv \in Nat
      <3>1. cache \in Object /\ \A s \in Pointers : heap[s] \in Object  BY DEF Inv, TypeOK
      <3> QED  BY <1>4, <3>1 DEF Object
    <2>2. cache'.rv # api'.rv  BY <1>5, <1>9, <2>1
    <2>3. rec.at = "finalizer" => rec.ptr \in Pointers
      <3>1. rec.at = "finalizer" => rec.ptr # None /\ rec.ptr \in Pointers \union {None}
         BY DEF Inv, TypeOK, CopiesInHand
      <3> QED  BY <3>1
    <2>4. rec.at = "finalizer" => heap'[rec.ptr].rv # api'.rv  BY <1>5, <1>9, <2>1, <2>3
    <2> QED  BY <1>5, <2>2, <2>4 DEF Inv, FinalizerIsNew
  <1>11. Honest(api')  BY <1>4 DEF Inv, AllHonest, Honest
  <1>12. SentByRuns  BY <1>5 DEF Inv, AllHonest, SentByRuns
  <1>13. CopiesUpdate(None)  BY <1>5 DEF CopiesUpdate
  <1>14. AllHonest' /\ AllBehind'  BY <1>3, <1>4, <1>5, <1>11, <1>12, <1>13, UpdateKeepsCopies
  <1> QED  BY <1>6, <1>7, <1>8, <1>10, <1>14 DEF Inv

LEMMA EditScheduleKeeps ==
  ASSUME Inv, EditSchedule
  PROVE  Inv'
  <1> DEFINE n == api.rv + 1
             v == ~api.valid
  <1>1. api \in Object /\ n \in Nat /\ v \in BOOLEAN  BY DEF Inv, TypeOK, Object
  <1>2. api' = [api EXCEPT !.rv = n, !.valid = v]  BY DEF EditSchedule
  <1>3. api'.rv = api.rv + 1  BY <1>1, <1>2 DEF Object
  <1> HIDE DEF n, v
  <1>4. /\ api' \in Object /\ api'.finalizer = api.finalizer /\ api'.present = api.present
        /\ api'.deleting = api.deleting /\ api'.image = api.image /\ api'.phase = api.phase
     BY <1>1, <1>2 DEF Object
  <1>5. UNCHANGED <<cache, queued, rec, cron, job, heap, run, registry, ticks, faults>>
     BY DEF EditSchedule, recVars
  <1>6. edits' \in 0..MaxEdits  BY BoundsAssumption DEF EditSchedule, Inv, TypeOK
  <1>7. TypeOK'  BY <1>4, <1>5, <1>6 DEF Inv, TypeOK
  <1>8. CopiesInHand' /\ OneEntry' /\ Guarded'
     BY <1>4, <1>5 DEF Inv, CopiesInHand, OneEntry, Guarded
  <1>9. cache.rv < api'.rv /\ \A s \in Pointers : heap[s].rv < api'.rv
     BY <1>3, <1>4, UpdateLeavesBehind DEF Inv, TypeOK, AllBehind
  <1>10. FinalizerIsNew'
    <2>1. /\ cache.rv \in Nat /\ api'.rv \in Nat /\ \A s \in Pointers : heap[s].rv \in Nat
      <3>1. cache \in Object /\ \A s \in Pointers : heap[s] \in Object  BY DEF Inv, TypeOK
      <3> QED  BY <1>4, <3>1 DEF Object
    <2>2. cache'.rv # api'.rv  BY <1>5, <1>9, <2>1
    <2>3. rec.at = "finalizer" => rec.ptr \in Pointers
      <3>1. rec.at = "finalizer" => rec.ptr # None /\ rec.ptr \in Pointers \union {None}
         BY DEF Inv, TypeOK, CopiesInHand
      <3> QED  BY <3>1
    <2>4. rec.at = "finalizer" => heap'[rec.ptr].rv # api'.rv  BY <1>5, <1>9, <2>1, <2>3
    <2> QED  BY <1>5, <2>2, <2>4 DEF Inv, FinalizerIsNew
  <1>11. Honest(api')  BY <1>4 DEF Inv, AllHonest, Honest
  <1>12. SentByRuns  BY <1>5 DEF Inv, AllHonest, SentByRuns
  <1>13. CopiesUpdate(None)  BY <1>5 DEF CopiesUpdate
  <1>14. AllHonest' /\ AllBehind'  BY <1>3, <1>4, <1>5, <1>11, <1>12, <1>13, UpdateKeepsCopies
  <1> QED  BY <1>7, <1>8, <1>10, <1>14 DEF Inv

LEMMA CacheSyncKeeps ==
  ASSUME Inv, CacheSync
  PROVE  Inv'
  <1>1. /\ cache' = api /\ queued' = TRUE
        /\ UNCHANGED <<api, rec, cron, job, heap, run, registry, boundVars>>
     BY DEF CacheSync
  <1>2. TypeOK'  BY <1>1 DEF Inv, TypeOK, boundVars
  <1>3. CopiesInHand' /\ OneEntry'  BY <1>1 DEF Inv, CopiesInHand, OneEntry
  <1>4. Guarded'  BY <1>1 DEF Inv, Guarded
  <1>5. FinalizerIsNew'  BY <1>1 DEF Inv, FinalizerIsNew
  <1>6. \A x : (Honest(x) => Honest(x)') /\ (Behind(x) => Behind(x)')
     BY <1>1 DEF Honest, Behind
  <1>7. AllHonest'  BY <1>1, <1>6 DEF Inv, AllHonest
  <1>8. AllBehind'
    <2>1. api.rv \in Nat  BY DEF Inv, TypeOK, Object
    <2>2. Behind(api)  BY <2>1 DEF Behind
    <2> QED  BY <1>1, <1>6, <2>2 DEF Inv, AllBehind
  <1> QED  BY <1>2, <1>3, <1>4, <1>5, <1>7, <1>8 DEF Inv

LEMMA RestartKeeps ==
  ASSUME Inv, Restart
  PROVE  Inv'
  <1>1. /\ cache' = api /\ queued' = TRUE /\ rec' = NoCall
        /\ heap' = [p \in Pointers |-> Created] /\ cron' = {} /\ job' = None
        /\ run' = [r \in Runs |-> NoRun] /\ UNCHANGED <<api, registry, ticks, edits>>
     BY DEF Restart
  <1>2. faults' \in 0..MaxFaults  BY FaultType DEF Restart, Inv
  <1>3. rec'.at = "idle" /\ rec'.ptr = None /\ rec' \in [at : Calls, ptr : Pointers \union {None}]
     BY <1>1 DEF NoCall, Calls
  <1>4. heap' \in [Pointers -> Object] /\ \A p \in Pointers : heap'[p] = Created
     BY <1>1, CreatedType
  <1>5. First \in Runs /\ run' \in [Runs -> RunState] /\ \A r \in Runs : run'[r] = NoRun
     BY <1>1, NoRunType DEF Runs
  <1>6. TypeOK'  BY <1>1, <1>2, <1>3, <1>4, <1>5 DEF Inv, TypeOK, Calls
  <1>7. CopiesInHand'  BY <1>3, <1>5, NoRunType DEF CopiesInHand
  <1>8. OneEntry' /\ Guarded'  BY <1>1, <1>3 DEF Inv, OneEntry, Guarded
  <1>9. FinalizerIsNew'  BY <1>1, <1>3 DEF FinalizerIsNew
  <1>10. \A x : (Honest(x) => Honest(x)') /\ (Behind(x) => Behind(x)')
     BY <1>1 DEF Honest, Behind
  <1>11. Honest(Created)' /\ Behind(Created)'  BY <1>10, CreatedIsHarmless DEF Inv
  <1>12. \A r \in Runs : run'[r].sent = Created /\ run'[r].at = "none"  BY <1>5, NoRunType
  <1>13. AllHonest'  BY <1>1, <1>4, <1>10, <1>11, <1>12 DEF Inv, AllHonest
  <1>14. AllBehind'
    <2>1. api.rv \in Nat  BY DEF Inv, TypeOK, Object
    <2>2. Behind(cache)'  BY <1>1, <2>1 DEF Behind
    <2> QED  BY <1>1, <1>4, <1>11, <1>12, <2>2 DEF Inv, AllBehind
  <1> QED  BY <1>6, <1>7, <1>8, <1>9, <1>13, <1>14 DEF Inv

------------------------------------------------------------------------------
(* The theorems *)

LEMMA NextKeeps ==
  ASSUME Inv, [Next]_vars
  PROVE  Inv'
  <1>1. CASE Reconcile
     BY <1>1, GoneKeeps, StartKeeps, AddFinalizerKeeps, DeleteKeeps, ConnectFailsKeeps,
        NormalKeeps, RefusedKeeps, FirstReturnsKeeps DEF Reconcile
  <1>2. ASSUME NEW r \in Runs, RunStep(r) PROVE Inv'
     BY <1>2, GetPodKeeps, WriteStatusKeeps, SendStatusKeeps, ApplyStatusKeeps, MakeImageKeeps
     DEF RunStep
  <1>3. CASE HourPasses \/ Delete \/ EditSchedule \/ CacheSync \/ Restart
     BY <1>3, HourKeeps, UserDeleteKeeps, EditScheduleKeeps, CacheSyncKeeps, RestartKeeps
  <1>4. ASSUME NEW r \in Ticks, Tick(r) \/ TickReturns(r) PROVE Inv'
     BY <1>4, TickKeeps
  <1>5. CASE UNCHANGED vars
    <2>1. UNCHANGED <<api, cache, queued, rec, cron, job, heap, run, registry, ticks, faults, edits>>
       BY <1>5 DEF vars, recVars, boundVars
    <2>2. TypeOK'  BY <2>1 DEF Inv, TypeOK
    <2>3. CopiesInHand' /\ OneEntry' /\ Guarded'
       BY <2>1 DEF Inv, CopiesInHand, OneEntry, Guarded
    <2>4. FinalizerIsNew'  BY <2>1 DEF Inv, FinalizerIsNew
    <2> QED  BY <2>1, <2>2, <2>3, <2>4, KeepsHonest, KeepsBehind DEF Inv
  <1> QED  BY <1>1, <1>2, <1>3, <1>4, <1>5 DEF Next

\* The inductive invariant of the Checkpoint controller: who holds a copy of the
\* resource, what a copy may say, and what the finalizer guards.
THEOREM CheckpointInvariant == Spec => []Inv
  <1> QED  BY InitInv, NextKeeps, PTL DEF Spec

\* Every variable stays in its type; in particular a new Reconcile call always finds
\* a copy nobody uses, and no run goes past the pod's last container.
THEOREM TypeCorrect == Spec => []TypeOK
  <1>1. Inv => TypeOK  BY DEF Inv
  <1> QED  BY <1>1, CheckpointInvariant, PTL

\* However many runs overlap, on copies they share or that are out of date: the image
\* the status names was pushed by PushImage, and a Completed status names one.
THEOREM PublishedImageSafe == Spec => []PublishedImageIsPushed
  <1>1. Inv => PublishedImageIsPushed
     BY DEF Inv, AllHonest, Honest, PublishedImageIsPushed
  <1> QED  BY <1>1, CheckpointInvariant, PTL

\* Whatever the cache still shows and wherever calls fail: the scheduler holds the
\* entry of scheduledJobs and no other, and none once the resource is gone.
THEOREM GoneSafe == Spec => []GoneIsUnscheduled
  <1>1. Inv => GoneIsUnscheduled
     BY DEF Inv, OneEntry, Guarded, GoneIsUnscheduled
  <1> QED  BY <1>1, CheckpointInvariant, PTL

------------------------------------------------------------------------------
(* The controller implements the contract *)

LEMMA ContractInit == Init => Contract!Init
  <1> SUFFICES ASSUME Init PROVE Contract!Init  OBVIOUS
  <1>1. api.image = None  BY CreatedType DEF Init
  <1>2. api.present = TRUE  BY Zenon DEF Init, Created
  <1> QED  BY <1>1, <1>2 DEF Init, Contract!Init

\* A step that changes neither the registry nor what the contract sees of the resource.
Unseen == registry' = registry /\ api'.image = api.image /\ api'.present = api.present

LEMMA UnseenStutters == Unseen => UNCHANGED Contract!vars
  BY DEF Unseen, Contract!vars

LEMMA ReconcileImplements ==
  ASSUME Inv, Reconcile
  PROVE  [Contract!Next]_(Contract!vars)
  <1>1. CASE UNCHANGED <<api, registry>>  BY <1>1, UnseenStutters DEF Unseen
  <1>2. CASE AddFinalizer
    <2>1. registry' = registry  BY <1>2 DEF AddFinalizer
    <2>2. api'.image = api.image /\ api'.present = api.present
      <3>1. CASE api' = [api EXCEPT !.rv = @ + 1, !.finalizer = TRUE]
        <4> DEFINE n == api.rv + 1
        <4>1. api' = [api EXCEPT !.rv = n, !.finalizer = TRUE]  BY <3>1
        <4> HIDE DEF n
        <4> QED  BY <4>1 DEF Inv, TypeOK, Object
      <3> QED  BY <1>2, <3>1 DEF AddFinalizer
    <2> QED  BY <2>1, <2>2, UnseenStutters DEF Unseen
  <1>3. CASE ReconcileDelete
    <2>1. registry' = registry  BY <1>3 DEF ReconcileDelete
    <2>2. CASE api' = api  BY <2>1, <2>2, UnseenStutters DEF Unseen
    <2>3. CASE /\ Accepts(api, heap[rec.ptr])
               /\ api' = [api EXCEPT !.rv = @ + 1, !.finalizer = FALSE, !.present = FALSE]
      <3> DEFINE n == api.rv + 1
      <3>1. api.present /\ api' = [api EXCEPT !.rv = n, !.finalizer = FALSE, !.present = FALSE]
         BY <2>3 DEF Accepts
      <3> HIDE DEF n
      <3>2. api'.image = api.image /\ api'.present = FALSE
         BY <3>1 DEF Inv, TypeOK, Object
      <3>3. Contract!Remove  BY <2>1, <3>1, <3>2 DEF Contract!Remove
      <3> QED  BY <3>3 DEF Contract!Next
    <2> QED  BY <1>3, <2>2, <2>3 DEF ReconcileDelete
  <1> QED  BY <1>1, <1>2, <1>3 DEF Reconcile, ReconcileGone, ReconcileStart, ConnectFails,
                                ReconcileNormal, ScheduleRefused, FirstReturns

\* A push is a Push; a status update the API server takes publishes the image it
\* names, which was pushed, or leaves the resource without an image as it was.
LEMMA RunStepImplements ==
  ASSUME Inv, NEW r \in Runs, RunStep(r)
  PROVE  [Contract!Next]_(Contract!vars)
  <1>1. CASE UNCHANGED <<api, registry>>  BY <1>1, UnseenStutters DEF Unseen
  <1>2. CASE MakeImage(r) /\ registry' = registry \union {ContainerOrder[run[r].next]}
    <2>1. ContainerOrder[run[r].next] \in Containers
      <3>1. run[r].next \in 1..Len(ContainerOrder)  BY DEF Inv, TypeOK, RunState
      <3> QED  BY <3>1, ContainersAreNamed
    <2>2. Contract!Push(ContainerOrder[run[r].next])
       BY <1>2 DEF Contract!Push, MakeImage
    <2> QED  BY <2>1, <2>2 DEF Contract!Next
  <1>3. CASE ApplyStatus(r) /\ Accepts(api, run[r].sent)
             /\ api' = [api EXCEPT !.rv = @ + 1, !.timed = run[r].sent.timed,
                                   !.image = run[r].sent.image, !.phase = run[r].sent.phase]
    <2>1. run[r].sent \in Object  BY DEF Inv, TypeOK, RunState
    <2>2. api'.image = run[r].sent.image /\ api'.present = api.present
       BY <1>3, <2>1, StoredStatus
    <2>3. registry' = registry /\ api.present  BY <1>3 DEF ApplyStatus, Accepts
    <2>4. CASE run[r].sent.image = None
      <3>1. api.image = None
         BY <1>3, <2>4 DEF Accepts, Inv, AllBehind, Behind
      <3> QED  BY <2>2, <2>3, <2>4, <3>1, UnseenStutters DEF Unseen
    <2>5. CASE run[r].sent.image # None
      <3>1. run[r].sent.image \in registry  BY <2>5 DEF Inv, AllHonest, Honest
      <3>2. run[r].sent.image \in Containers  BY <3>1 DEF Inv, TypeOK
      <3>3. Contract!Publish(run[r].sent.image)
         BY <2>2, <2>3, <3>1 DEF Contract!Publish
      <3> QED  BY <3>2, <3>3 DEF Contract!Next
    <2> QED  BY <2>4, <2>5
  <1>4. CASE GetPod(r) \/ WriteStatus(r) \/ SendStatus(r)
     BY <1>1, <1>4 DEF GetPod, WriteStatus, SendStatus
  <1>5. CASE ApplyStatus(r)  BY <1>1, <1>3, <1>5 DEF ApplyStatus
  <1>6. CASE MakeImage(r)  BY <1>1, <1>2, <1>6 DEF MakeImage
  <1> QED  BY <1>4, <1>5, <1>6 DEF RunStep

LEMMA UserDeleteImplements ==
  ASSUME Inv, Delete
  PROVE  [Contract!Next]_(Contract!vars)
  <1> DEFINE n == api.rv + 1
  <1>1. api' = IF api.finalizer THEN [api EXCEPT !.rv = n, !.deleting = TRUE]
               ELSE [api EXCEPT !.rv = n, !.present = FALSE]
     BY DEF Delete
  <1> HIDE DEF n
  <1>2. /\ api'.image = api.image /\ registry' = registry /\ api.present
        /\ (api'.present = api.present \/ api'.present = FALSE)
     BY <1>1 DEF Delete, Inv, TypeOK, Object
  <1>3. CASE api'.present = api.present  BY <1>2, <1>3, UnseenStutters DEF Unseen
  <1>4. CASE api'.present = FALSE
    <2>1. Contract!Remove  BY <1>2, <1>4 DEF Contract!Remove
    <2> QED  BY <2>1 DEF Contract!Next
  <1> QED  BY <1>2, <1>3, <1>4

LEMMA EditScheduleImplements ==
  ASSUME Inv, EditSchedule
  PROVE  [Contract!Next]_(Contract!vars)
  <1> DEFINE n == api.rv + 1
             v == ~api.valid
  <1>1. api' = [api EXCEPT !.rv = n, !.valid = v] /\ registry' = registry  BY DEF EditSchedule
  <1> HIDE DEF n, v
  <1>2. api'.image = api.image /\ api'.present = api.present  BY <1>1 DEF Inv, TypeOK, Object
  <1> QED  BY <1>1, <1>2, UnseenStutters DEF Unseen

\* The controller does what the transition code relies on: a status only ever comes to
\* name an image that has been pushed, and never loses the image it names.
THEOREM ContractImplemented == Spec => ImplementsContract
  <1>1. Inv /\ [Next]_vars => [Contract!Next]_(Contract!vars)
    <2> SUFFICES ASSUME Inv, [Next]_vars PROVE [Contract!Next]_(Contract!vars)  OBVIOUS
    <2>1. CASE Reconcile  BY <2>1, ReconcileImplements
    <2>2. ASSUME NEW r \in Runs, RunStep(r) PROVE [Contract!Next]_(Contract!vars)
       BY <2>2, RunStepImplements
    <2>3. CASE Delete  BY <2>3, UserDeleteImplements
    <2>7. CASE EditSchedule  BY <2>7, EditScheduleImplements
    <2>4. CASE UNCHANGED <<api, registry>>  BY <2>4, UnseenStutters DEF Unseen
    <2>5. CASE HourPasses \/ CacheSync \/ Restart \/ UNCHANGED vars
       BY <2>4, <2>5 DEF HourPasses, CacheSync, Restart, vars
    <2>6. ASSUME NEW r \in Ticks, Tick(r) \/ TickReturns(r)
          PROVE  [Contract!Next]_(Contract!vars)
       BY <2>4, <2>6 DEF Tick, TickReturns
    <2> QED  BY <2>1, <2>2, <2>3, <2>5, <2>6, <2>7 DEF Next
  <1> QED  BY <1>1, ContractInit, CheckpointInvariant, PTL DEF Spec, ImplementsContract, Contract!Spec

==============================================================================
