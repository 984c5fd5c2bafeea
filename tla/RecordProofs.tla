---------------------------- MODULE RecordProofs ----------------------------
(***************************************************************************)
(* Which records of a ClusterPolicy's status are safe.  The append to the  *)
(* shared copy is not synchronised, so tasks of one invocation may lose    *)
(* each other's records; those of anybody else stay, for any number of     *)
(* actors, workloads, faults, stale caches and restarts.                   *)
(***************************************************************************)
EXTENDS TransitionProofs

\* Between reading the slice and the reply of the API server.
Recording == {"store", "send", "apply"}

\* The list has the records that are foreign to the invocation.
HasForeign(a, list) == Keeps(foreign[a], api.status, list)

\* The cache is behind, or has what is stored.
CacheTrue == cache.rv <= api.rv /\ (cache.rv = api.rv => cache.status = api.status)

\* So is the copy of an invocation, as far as foreign records go.
CopiesFit ==
    \A a \in Actors : mem[a].rv <= api.rv /\ (mem[a].rv = api.rv => HasForeign(a, mem[a].status))

\* A slice about to be stored in a current copy.
SlicesFit ==
    \A t \in Tasks :
        pc[t] = "store" /\ mem[t[1]].rv = api.rv => HasForeign(t[1], loc[t].list)

\* A current copy about to be sent ends in a record of the invocation.
SendsFit ==
    \A t \in Tasks :
        pc[t] = "send" /\ mem[t[1]].rv = api.rv => foreign[t[1]] < Len(mem[t[1]].status)

\* A copy that was sent is not newer than the shared one, and fits if it is current.
SentFit ==
    \A t \in Tasks :
        pc[t] = "apply" =>
           /\ loc[t].sent.rv <= mem[t[1]].rv
           /\ loc[t].sent.rv = api.rv => /\ HasForeign(t[1], loc[t].sent.status)
                                         /\ foreign[t[1]] < Len(loc[t].sent.status)

RecordInv == CacheTrue /\ CopiesFit /\ SlicesFit /\ SendsFit /\ SentFit

\* An actor between two invocations has no task.
RestIsQuiet ==
    \A a \in Actors :
        ctl[a] \in {"idle", "listing"} => todo[a] = {} /\ \A w \in Workloads : pc[<<a, w>>] = "none"

------------------------------------------------------------------------------
(* Lists that keep records *)

LEMMA KeepsAppend ==
    ASSUME NEW n \in Nat, NEW s \in Seq(Record), NEW list \in Seq(Record), NEW r \in Record,
           Keeps(n, s, list)
    PROVE  Keeps(n, s, Append(list, r)) /\ n < Len(Append(list, r))
<1>1. Len(Append(list, r)) = Len(list) + 1 /\ \A i \in 1..Len(list) : Append(list, r)[i] = list[i]
  OBVIOUS
<1>2. Len(list) \in Nat /\ n <= Len(list)
  BY DEF Keeps
<1>3. n < Len(Append(list, r))
  BY <1>1, <1>2
<1>4. \A i \in 1..n : i \in 1..Len(list)
  BY <1>2
<1>5. \A i \in 1..n : s[i] = Append(list, r)[i]
  BY <1>1, <1>4 DEF Keeps
<1> QED
  BY <1>3, <1>5 DEF Keeps

\* Rounding its time changes the last record only.
LEMMA KeepsTied ==
    ASSUME NEW n \in Nat, NEW s \in Seq(Record), NEW list \in Seq(Record),
           Keeps(n, s, list), n < Len(list)
    PROVE  Keeps(n, s, Tied(list)) /\ n < Len(Tied(list))
<1>1. Tied(list) \in Seq(Record) /\ DOMAIN Tied(list) = DOMAIN list
  BY TiedList
<1>2. Len(Tied(list)) = Len(list)
  BY <1>1
<1>3. \A i \in DOMAIN list : i # Len(list) => Tied(list)[i] = list[i]
  BY DEF Tied
<1>4. \A i \in 1..n : i \in DOMAIN list /\ i # Len(list)
  OBVIOUS
<1>5. \A i \in 1..n : s[i] = Tied(list)[i]
  BY <1>3, <1>4 DEF Keeps
<1> QED
  BY <1>2, <1>5 DEF Keeps

------------------------------------------------------------------------------
(* Steps that keep the invariant *)

\* The policy and its copies are left alone, the cache may catch up, and no task
\* starts to record.
LEMMA QuietStep ==
    ASSUME TypeOK, RecordInv, UNCHANGED <<api, mem, foreign>>, cache' \in {cache, api},
           \A t \in Tasks : pc'[t] \in Recording => pc'[t] = pc[t] /\ loc'[t] = loc[t]
    PROVE  RecordInv'
<1>1. api.rv \in Nat
  BY DEF TypeOK, Policy
<1>2. CacheTrue'
  BY <1>1 DEF RecordInv, CacheTrue
<1>3. CopiesFit'
  BY DEF RecordInv, CopiesFit, HasForeign
<1>4. SlicesFit' /\ SendsFit' /\ SentFit'
  BY DEF RecordInv, SlicesFit, SendsFit, SentFit, HasForeign, Recording
<1> QED
  BY <1>2, <1>3, <1>4 DEF RecordInv

\* A task moves to a stage before or after recording.
LEMMA QuietTask ==
    ASSUME TypeOK, RecordInv, NEW t \in Tasks, NEW stage, stage \notin Recording,
           pc' = [pc EXCEPT ![t] = stage], \A u \in Tasks : u # t => loc'[u] = loc[u],
           UNCHANGED <<api, cache, mem, foreign>>
    PROVE  RecordInv'
<1>1. \A u \in Tasks : pc'[u] \in Recording => pc'[u] = pc[u] /\ loc'[u] = loc[u]
  BY DEF TypeOK
<1> QED
  BY <1>1, QuietStep

\* An actor without tasks takes another copy.
LEMMA NewCopy ==
    ASSUME TypeOK, RecordInv, NEW a \in Actors, NEW copy, NEW n,
           copy.rv <= api.rv, copy.rv = api.rv => Keeps(n, api.status, copy.status),
           \A w \in Workloads : pc[<<a, w>>] = "none",
           mem' = [mem EXCEPT ![a] = copy], foreign' = [foreign EXCEPT ![a] = n],
           UNCHANGED <<api, cache, pc, loc>>
    PROVE  RecordInv'
<1>1. \A t \in Tasks : t[1] = a => pc[t] = "none"
  BY DEF Tasks
<1>2. \A t \in Tasks : pc'[t] # "none" => mem'[t[1]] = mem[t[1]] /\ foreign'[t[1]] = foreign[t[1]]
  BY <1>1, TaskParts DEF TypeOK
<1>3. mem'[a] = copy /\ foreign'[a] = n
  BY DEF TypeOK
<1>4. \A b \in Actors : b # a => mem'[b] = mem[b] /\ foreign'[b] = foreign[b]
  BY DEF TypeOK
<1>5. CacheTrue'
  BY DEF RecordInv, CacheTrue
<1>6. CopiesFit'
  BY <1>3, <1>4 DEF RecordInv, CopiesFit, HasForeign
<1>7. SlicesFit' /\ SendsFit' /\ SentFit'
  BY <1>2 DEF RecordInv, SlicesFit, SendsFit, SentFit, HasForeign
<1> QED
  BY <1>5, <1>6, <1>7 DEF RecordInv

LEMMA InitRecords == Init => RecordInv
<1> SUFFICES ASSUME Init PROVE RecordInv
  OBVIOUS
<1>1. api.rv = 0 /\ api.status = <<>> /\ cache = api /\ \A a \in Actors : mem[a] = api /\ foreign[a] = 0
  BY DEF Init, NoPolicy
<1>2. Keeps(0, api.status, api.status)
  BY <1>1 DEF Keeps
<1>3. CacheTrue /\ CopiesFit
  BY <1>1, <1>2 DEF CacheTrue, CopiesFit, HasForeign
<1>4. SlicesFit /\ SendsFit /\ SentFit
  BY DEF Init, SlicesFit, SendsFit, SentFit
<1> QED
  BY <1>3, <1>4 DEF RecordInv

LEMMA RestartRecords ==
    ASSUME TypeOK, RecordInv, ProcessRestarts
    PROVE  RecordInv'
<1>1. /\ cache' = api /\ api' = api /\ mem' = [a \in Actors |-> NoPolicy]
      /\ pc' = [t \in Tasks |-> "none"] /\ foreign' = [a \in Actors |-> 0]
  BY DEF ProcessRestarts
<1>2. api.rv \in Nat /\ api.status \in Seq(Record)
  BY DEF TypeOK, Policy
<1>3. CacheTrue'
  BY <1>1, <1>2 DEF CacheTrue
<1>4. CopiesFit'
  BY <1>1, <1>2 DEF CopiesFit, HasForeign, Keeps, NoPolicy
<1>5. SlicesFit' /\ SendsFit' /\ SentFit'
  BY <1>1 DEF SlicesFit, SendsFit, SentFit
<1> QED
  BY <1>3, <1>4, <1>5 DEF RecordInv

LEMMA InvocationRecords ==
    ASSUME TypeOK, RestIsQuiet, RecordInv, NEW a \in Actors, Invocation(a)
    PROVE  RecordInv'
<1>0. api.rv \in Nat /\ api.status \in Seq(Record)
  BY DEF TypeOK, Policy
<1>1. CASE LoadPolicy(a)
  <2>1. \A w \in Workloads : pc[<<a, w>>] = "none"
    BY <1>1 DEF LoadPolicy, RestIsQuiet
  <2>2. /\ mem' = [mem EXCEPT ![a] = cache] /\ foreign' = [foreign EXCEPT ![a] = Len(api.status)]
        /\ UNCHANGED <<api, cache, pc, loc>>
    BY <1>1 DEF LoadPolicy, apiVars, taskVars
  <2>3. cache.rv <= api.rv /\ (cache.rv = api.rv => Keeps(Len(api.status), api.status, cache.status))
    BY <1>0 DEF RecordInv, CacheTrue, Keeps
  <2> QED
    BY <2>1, <2>2, <2>3, NewCopy
<1>2. CASE InvocationEnds(a)
  <2>1. \A w \in Workloads : pc[<<a, w>>] = "none"
    BY <1>2 DEF InvocationEnds, Running
  <2>2. /\ mem' = [mem EXCEPT ![a] = NoPolicy] /\ foreign' = [foreign EXCEPT ![a] = 0]
        /\ UNCHANGED <<api, cache, pc, loc>>
    BY <1>2 DEF InvocationEnds, apiVars, taskVars
  <2>3. NoPolicy.rv <= api.rv /\ Keeps(0, api.status, NoPolicy.status)
    BY <1>0 DEF NoPolicy, Keeps
  <2> QED
    BY <2>1, <2>2, <2>3, NewCopy
<1>3. ASSUME NEW w \in Workloads, StartTask(a, w) \/ AcquireSlot(a, w) PROVE RecordInv'
  <2>1. PICK stage \in {"queued", "init"} :
           pc' = [pc EXCEPT ![<<a, w>>] = stage] /\ UNCHANGED <<api, cache, mem, foreign, loc>>
    BY <1>3 DEF StartTask, AcquireSlot, Goto, apiVars, actorVars
  <2>2. <<a, w>> \in Tasks
    BY DEF Tasks
  <2> QED
    BY <2>1, <2>2, QuietTask DEF Recording
<1>4. CASE \/ PolicyNotFound(a) \/ ListPods
           \/ \E p \in Packages : ListCheckpoints(a, p) \/ CreateCheckpoints(a, p)
           \/ \E w \in Workloads : Skip(a, w)
  <2>1. UNCHANGED <<api, cache, mem, foreign, pc, loc>>
    BY <1>4 DEF PolicyNotFound, ListPods, ListCheckpoints, CreateCheckpoints, Skip, apiVars, taskVars
  <2> QED
    BY <2>1, QuietStep
<1> QED
  BY <1>1, <1>2, <1>3, <1>4 DEF Invocation

\* Up to the outcome a task leaves the copies alone.
LEMMA EarlyRecords ==
    ASSUME TypeOK, RecordInv, NEW t \in Tasks,
           \/ Initialise(t) \/ GiveUp(t) \/ CloneAndEdit(t) \/ CommitAndPush(t)
           \/ PushRestore(t) \/ WaitForRestore(t) \/ PushApp(t) \/ Sync(t)
    PROVE  RecordInv'
<1>1. UNCHANGED <<api, cache, mem, foreign>>
  BY DEF Initialise, GiveUp, CloneAndEdit, CommitAndPush, PushRestore, WaitForRestore, PushApp, Sync,
         TaskUnchanged, apiVars
<1>2. \A u \in Tasks : u # t => loc'[u] = loc[u]
  BY DEF Initialise, GiveUp, CloneAndEdit, CommitAndPush, PushRestore, WaitForRestore, PushApp, Sync,
         Finish, Conclude, SetLocal, TypeOK
<1>3. \E stage \in Stage \ Recording : pc' = [pc EXCEPT ![t] = stage]
  <2>1. FirstStage(t) \in Stage \ Recording
    BY DEF FirstStage, Stage, Recording
  <2>2. CASE Initialise(t)
    BY <2>1, <2>2 DEF Initialise, Goto
  <2>3. CASE ~Initialise(t)
    BY <2>3 DEF GiveUp, CloneAndEdit, CommitAndPush, PushRestore, WaitForRestore, PushApp, Sync,
                Finish, Conclude, Goto, Stage, Recording
  <2> QED
    BY <2>2, <2>3
<1> QED
  BY <1>1, <1>2, <1>3, QuietTask

LEMMA ReadRecords ==
    ASSUME TypeOK, RecordInv, NEW t \in Tasks, ReadStatus(t)
    PROVE  RecordInv'
<1>1. /\ UNCHANGED <<api, cache, mem, foreign>>
      /\ pc' = [pc EXCEPT ![t] = "store"]
      /\ loc' = [loc EXCEPT ![t] = [loc[t] EXCEPT !.list = mem[t[1]].status]]
  BY DEF ReadStatus, Goto, SetLocal, TaskUnchanged, apiVars
<1>2. pc'[t] = "store" /\ loc'[t].list = mem[t[1]].status
  <2>1. loc[t] \in Local
    BY DEF TypeOK
  <2> QED
    BY <1>1, <2>1 DEF TypeOK, Local
<1>3. \A u \in Tasks : u # t => pc'[u] = pc[u] /\ loc'[u] = loc[u]
  BY <1>1 DEF TypeOK
<1>4. CacheTrue' /\ CopiesFit'
  BY <1>1 DEF RecordInv, CacheTrue, CopiesFit, HasForeign
<1>5. SlicesFit'
  <2>1. mem[t[1]].rv = api.rv => HasForeign(t[1], mem[t[1]].status)
    BY TaskParts DEF RecordInv, CopiesFit
  <2> QED
    BY <1>1, <1>2, <1>3, <2>1 DEF RecordInv, SlicesFit, HasForeign
<1>6. SendsFit' /\ SentFit'
  BY <1>1, <1>2, <1>3 DEF RecordInv, SendsFit, SentFit, HasForeign
<1> QED
  BY <1>4, <1>5, <1>6 DEF RecordInv

\* The shared copy is overwritten; it keeps its version.
LEMMA AppendRecords ==
    ASSUME TypeOK, RecordInv, NEW t \in Tasks, AppendRecord(t)
    PROVE  RecordInv'
<1> DEFINE a == t[1]
           r == [pkg |-> Pkg(t), condition |-> loc[t].condition, tie |-> FALSE]
           status == Append(loc[t].list, r)
<1>1. /\ a \in Actors /\ mem[a] \in Policy /\ loc[t] \in Local /\ foreign[a] \in Nat
      /\ api.status \in Seq(Record)
  BY TaskParts DEF TypeOK, Policy
<1>2. r \in Record /\ loc[t].list \in Seq(Record)
  BY <1>1, TaskParts DEF Local, Record
<1>3. /\ UNCHANGED <<api, cache, loc, foreign>>
      /\ pc' = [pc EXCEPT ![t] = "send"]
      /\ mem' = [mem EXCEPT ![a] = [mem[a] EXCEPT !.status = status]]
  BY DEF AppendRecord, Goto, TaskUnchanged, apiVars
<1>4. pc[t] = "store"
  BY DEF AppendRecord
<1> HIDE DEF r
<1>5. mem[a].rv = api.rv => HasForeign(a, status) /\ foreign[a] < Len(status)
  BY <1>1, <1>2, <1>4, KeepsAppend DEF RecordInv, SlicesFit, HasForeign
<1> HIDE DEF status
<1>6. mem'[a].rv = mem[a].rv /\ mem'[a].status = status
  BY <1>1, <1>3 DEF TypeOK, Policy
<1>7. \A b \in Actors : b # a => mem'[b] = mem[b]
  BY <1>3 DEF TypeOK
<1>8. pc'[t] = "send" /\ \A u \in Tasks : u # t => pc'[u] = pc[u]
  BY <1>3 DEF TypeOK
<1>9. \A u \in Tasks : mem'[u[1]].rv = mem[u[1]].rv
  BY <1>6, <1>7, TaskParts
<1> HIDE DEF a
<1>10. CacheTrue'
  BY <1>3 DEF RecordInv, CacheTrue
<1>11. CopiesFit'
  BY <1>1, <1>3, <1>5, <1>6, <1>7 DEF RecordInv, CopiesFit, HasForeign
<1>12. SlicesFit' /\ SentFit'
  BY <1>3, <1>8, <1>9 DEF RecordInv, SlicesFit, SentFit, HasForeign
<1>13. SendsFit'
  <2> SUFFICES ASSUME NEW u \in Tasks, pc'[u] = "send", mem'[u[1]].rv = api'.rv
               PROVE  foreign'[u[1]] < Len(mem'[u[1]].status)
    BY DEF SendsFit
  <2>1. CASE u[1] = a
    BY <1>3, <1>5, <1>6, <1>9, <2>1
  <2>2. CASE u[1] # a
    BY <1>3, <1>7, <1>8, <2>2, TaskParts DEF RecordInv, SendsFit, a
  <2> QED
    BY <2>1, <2>2
<1> QED
  BY <1>10, <1>11, <1>12, <1>13 DEF RecordInv

LEMMA SendRecords ==
    ASSUME TypeOK, RecordInv, NEW t \in Tasks, SendStatus(t)
    PROVE  RecordInv'
<1>0. pc[t] = "send" /\ UNCHANGED <<api, cache, mem, foreign>>
  BY DEF SendStatus, TaskUnchanged, apiVars
<1>1. CASE Finish(t)
  BY <1>0, <1>1, QuietTask DEF Finish, Goto, SetLocal, Recording, TypeOK
<1>2. ASSUME NEW sent \in {mem[t[1]], [mem[t[1]] EXCEPT !.status = Tied(@)]},
             Goto(t, "apply"), SetLocal(t, [loc[t] EXCEPT !.sent = sent])
      PROVE  RecordInv'
  <2>1. /\ t[1] \in Actors /\ mem[t[1]] \in Policy /\ loc[t] \in Local
        /\ foreign[t[1]] \in Nat /\ api.status \in Seq(Record)
    BY TaskParts DEF TypeOK, Policy
  <2>2. sent.rv = mem[t[1]].rv /\ sent.status \in {mem[t[1]].status, Tied(mem[t[1]].status)}
    BY <2>1 DEF Policy
  <2>3. sent.rv <= mem[t[1]].rv
    BY <2>1, <2>2 DEF Policy
  <2>4. sent.rv = api.rv => HasForeign(t[1], sent.status) /\ foreign[t[1]] < Len(sent.status)
    <3> SUFFICES ASSUME sent.rv = api.rv
                 PROVE  HasForeign(t[1], sent.status) /\ foreign[t[1]] < Len(sent.status)
      OBVIOUS
    <3>1. HasForeign(t[1], mem[t[1]].status) /\ foreign[t[1]] < Len(mem[t[1]].status)
      BY <1>0, <2>1, <2>2 DEF RecordInv, CopiesFit, SendsFit
    <3>2. mem[t[1]].status \in Seq(Record)
      BY <2>1 DEF Policy
    <3>3. HasForeign(t[1], Tied(mem[t[1]].status)) /\ foreign[t[1]] < Len(Tied(mem[t[1]].status))
      BY <2>1, <3>1, <3>2, KeepsTied DEF HasForeign
    <3> QED
      BY <2>2, <3>1, <3>3
  <2>5. pc'[t] = "apply" /\ loc'[t].sent = sent
    BY <1>2, <2>1 DEF Goto, SetLocal, TypeOK, Local
  <2>6. \A u \in Tasks : u # t => pc'[u] = pc[u] /\ loc'[u] = loc[u]
    BY <1>2 DEF Goto, SetLocal, TypeOK
  <2>7. CacheTrue' /\ CopiesFit'
    BY <1>0 DEF RecordInv, CacheTrue, CopiesFit, HasForeign
  <2>8. SlicesFit' /\ SendsFit'
    BY <1>0, <2>5, <2>6 DEF RecordInv, SlicesFit, SendsFit, HasForeign
  <2>9. SentFit'
    BY <1>0, <2>3, <2>4, <2>5, <2>6 DEF RecordInv, SentFit, HasForeign
  <2> QED
    BY <2>7, <2>8, <2>9 DEF RecordInv
<1> QED
  BY <1>1, <1>2 DEF SendStatus

\* An accepted update keeps what is foreign to its invocation, and every copy but
\* the one the reply is decoded into is old from now on.
LEMMA AcceptRecords ==
    ASSUME TypeOK, RecordInv, NEW t \in Tasks, pc[t] = "apply",
           Accepts(api, loc[t].sent), Finish(t), UNCHANGED cache,
           api' = [rv |-> api.rv + 1, status |-> loc[t].sent.status],
           foreign' = [a \in Actors |-> IF a = t[1] THEN foreign[a] ELSE Len(api'.status)],
           mem' = mem \/ mem' = [mem EXCEPT ![t[1]] = api']
    PROVE  RecordInv' /\ HasForeign(t[1], api'.status)
<1> DEFINE a == t[1]
<1>0. a \in Actors /\ api.rv \in Nat /\ api'.rv = api.rv + 1 /\ api'.status = loc[t].sent.status
  BY TaskParts DEF TypeOK, Policy
<1>1. foreign'[a] = foreign[a]
  BY <1>0
<1>2. pc'[t] = "none" /\ \A u \in Tasks : u # t => pc'[u] = pc[u] /\ loc'[u] = loc[u]
  BY DEF Finish, Goto, SetLocal, TypeOK
<1>3. /\ HasForeign(a, api'.status) /\ foreign[a] < Len(api'.status)
      /\ loc[t].sent.rv = api.rv
  BY <1>0 DEF Accepts, RecordInv, SentFit
<1>4. mem[a].rv = api.rv
  <2>1. mem[a].rv \in Nat /\ loc[t].sent.rv <= mem[a].rv /\ mem[a].rv <= api.rv
    BY <1>0 DEF RecordInv, SentFit, CopiesFit, TypeOK, Policy
  <2> QED
    BY <1>0, <1>3, <2>1
<1>5. \A list : HasForeign(a, list) => Keeps(foreign'[a], api'.status, list)
  BY <1>1, <1>3 DEF HasForeign, Keeps
<1>6. \A b \in Actors : b # a => mem'[b] = mem[b]
  BY DEF TypeOK
<1>7. \A b \in Actors : mem[b].rv \in Nat /\ mem[b].rv <= api.rv
  BY DEF RecordInv, CopiesFit, TypeOK, Policy
<1>8. mem'[a] = mem[a] \/ mem'[a] = api'
  BY <1>0 DEF TypeOK
<1>9. \A b \in Actors : mem'[b].rv = api'.rv => b = a /\ mem'[a] = api'
  BY <1>0, <1>6, <1>7, <1>8
<1> HIDE DEF a
<1>10. CacheTrue'
  <2>1. cache.rv \in Nat /\ cache.rv <= api.rv
    BY DEF RecordInv, CacheTrue, TypeOK, Policy
  <2> QED
    BY <1>0, <2>1 DEF CacheTrue
<1>11. CopiesFit'
  <2>1. \A b \in Actors : mem'[b].rv <= api'.rv
    <3>1. mem'[a].rv <= api'.rv
      BY <1>0, <1>7, <1>8
    <3>2. \A b \in Actors : b # a => mem'[b].rv <= api'.rv
      BY <1>0, <1>6, <1>7
    <3> QED
      BY <3>1, <3>2
  <2>2. \A b \in Actors : mem'[b].rv = api'.rv => Keeps(foreign'[b], api'.status, mem'[b].status)
    BY <1>3, <1>5, <1>9 DEF HasForeign
  <2> QED
    BY <2>1, <2>2 DEF CopiesFit, HasForeign
<1>12. SlicesFit'
  <2> SUFFICES ASSUME NEW u \in Tasks, pc'[u] = "store", mem'[u[1]].rv = api'.rv
               PROVE  Keeps(foreign'[u[1]], api'.status, loc'[u].list)
    BY DEF SlicesFit, HasForeign
  <2>1. u # t /\ u[1] = a /\ pc[u] = "store" /\ loc'[u] = loc[u]
    BY <1>2, <1>9, TaskParts
  <2>2. HasForeign(a, loc[u].list)
    BY <1>4, <2>1 DEF RecordInv, SlicesFit
  <2> QED
    BY <1>5, <2>1, <2>2 DEF HasForeign
<1>13. SendsFit'
  <2> SUFFICES ASSUME NEW u \in Tasks, pc'[u] = "send", mem'[u[1]].rv = api'.rv
               PROVE  foreign'[u[1]] < Len(mem'[u[1]].status)
    BY DEF SendsFit
  <2> QED
    BY <1>1, <1>3, <1>9, TaskParts
<1>14. SentFit'
  <2> SUFFICES ASSUME NEW u \in Tasks, pc'[u] = "apply"
               PROVE  loc'[u].sent.rv <= mem'[u[1]].rv /\ loc'[u].sent.rv # api'.rv
    BY DEF SentFit
  <2>1. u # t /\ pc[u] = "apply" /\ loc'[u] = loc[u] /\ u[1] \in Actors
    BY <1>2, TaskParts
  <2>2. loc[u].sent.rv \in Nat /\ loc[u].sent.rv <= mem[u[1]].rv /\ mem[u[1]].rv <= api.rv /\ mem[u[1]].rv \in Nat
    BY <1>7, <2>1 DEF RecordInv, SentFit, TypeOK, Local, Policy
  <2>3. mem'[u[1]] = mem[u[1]] \/ mem'[u[1]] = api'
    BY <1>6, <1>8, <2>1
  <2> QED
    BY <1>0, <2>1, <2>2, <2>3
<1> QED
  BY <1>3, <1>10, <1>11, <1>12, <1>13, <1>14 DEF RecordInv, a

LEMMA ApplyRecords ==
    ASSUME TypeOK, RecordInv, NEW t \in Tasks, ApplyStatus(t)
    PROVE  RecordInv' /\ (UNCHANGED api \/ HasForeign(t[1], api'.status))
<1>1. CASE UNCHANGED <<api, mem, foreign>>
  <2>1. UNCHANGED cache /\ pc' = [pc EXCEPT ![t] = "none"] /\ \A u \in Tasks : u # t => loc'[u] = loc[u]
    BY DEF ApplyStatus, Finish, Goto, SetLocal, TypeOK
  <2> QED
    BY <1>1, <2>1, QuietTask DEF Recording
<1>2. CASE ~UNCHANGED <<api, mem, foreign>>
  BY <1>2, AcceptRecords DEF ApplyStatus
<1> QED
  BY <1>1, <1>2

------------------------------------------------------------------------------
(* Invocations *)

\* What a step of a task leaves alone, unless it ends the process.
LEMMA TaskFrame ==
    ASSUME TypeOK, NEW t \in Tasks, TaskStep(t), ~Panic(t)
    PROVE  /\ UNCHANGED <<ctl, pkgs, todo>>
           /\ pc[t] # "none"
           /\ \A u \in Tasks : u # t => pc'[u] = pc[u]
<1>1. UNCHANGED <<ctl, pkgs, todo>>
  BY DEF TaskStep, Initialise, GiveUp, CloneAndEdit, CommitAndPush, PushRestore, WaitForRestore, PushApp,
         Sync, ReadStatus, AppendRecord, SendStatus, ApplyStatus, TaskUnchanged
<1>2. pc[t] # "none"
  BY DEF TaskStep, Initialise, GiveUp, CloneAndEdit, CommitAndPush, PushRestore, WaitForRestore, PushApp,
         Sync, ReadStatus, AppendRecord, SendStatus, ApplyStatus
<1>3. \E stage : pc' = [pc EXCEPT ![t] = stage]
  BY DEF TaskStep, Initialise, GiveUp, CloneAndEdit, CommitAndPush, PushRestore, WaitForRestore, PushApp,
         Sync, ReadStatus, AppendRecord, SendStatus, ApplyStatus, Finish, Conclude, Goto
<1> QED
  BY <1>1, <1>2, <1>3 DEF TypeOK

\* Steps that change neither actors nor tasks.
OutsideStep ==
    \/ CacheSync \/ NextSecond
    \/ \E w \in Workloads : CheckpointTaken(w)
    \/ \E p \in Packages : RestoreProgress(p)
    \/ UNCHANGED vars

LEMMA OutsideFrame == OutsideStep => UNCHANGED <<api, mem, foreign, ctl, pkgs, todo, pc, loc>>
  BY DEF OutsideStep, CacheSync, NextSecond, CheckpointTaken, RestoreProgress, vars,
         apiVars, actorVars, taskVars

\* The cases of a step.
LEMMA NextCases ==
    ASSUME [Next]_vars
    PROVE  \/ \E a \in Triggers : Trigger(a) \/ TriggerLost(a)
           \/ \E a \in Actors : Invocation(a)
           \/ \E t \in Tasks : TaskStep(t) /\ ~Panic(t)
           \/ ProcessRestarts
           \/ OutsideStep
  BY DEF Next, OutsideStep, Panic, Restart

\* Tasks run within an invocation.
LEMMA RestStep == TypeOK /\ RestIsQuiet /\ [Next]_vars => RestIsQuiet'
<1> SUFFICES ASSUME TypeOK, RestIsQuiet, [Next]_vars PROVE RestIsQuiet'
  OBVIOUS
<1>1. ASSUME NEW a \in Triggers, Trigger(a) \/ TriggerLost(a) PROVE RestIsQuiet'
  <2>1. UNCHANGED <<todo, pc>> /\ \A b \in Actors : ctl'[b] = ctl[b] \/ ctl[b] = "idle"
    BY <1>1 DEF Trigger, TriggerLost, taskVars, TypeOK, Actors
  <2> QED
    BY <2>1 DEF RestIsQuiet
<1>2. ASSUME NEW a \in Actors, Invocation(a) PROVE RestIsQuiet'
  <2>1. CASE PolicyNotFound(a)
    <3>1. UNCHANGED <<todo, pc>> /\ ctl[a] = "listing" /\ \A b \in Actors : b # a => ctl'[b] = ctl[b]
      BY <2>1 DEF PolicyNotFound, taskVars, TypeOK
    <3> QED
      BY <3>1 DEF RestIsQuiet
  <2>2. CASE InvocationEnds(a)
    <3>1. UNCHANGED <<todo, pc>> /\ todo[a] = {} /\ \A b \in Actors : b # a => ctl'[b] = ctl[b]
      BY <2>2 DEF InvocationEnds, taskVars, TypeOK
    <3>2. \A w \in Workloads : pc[<<a, w>>] = "none"
      BY <2>2 DEF InvocationEnds, Running
    <3> QED
      BY <3>1, <3>2 DEF RestIsQuiet
  <2>3. CASE ~PolicyNotFound(a) /\ ~InvocationEnds(a)
    <3>0. \/ LoadPolicy(a) \/ (a = Rec /\ ListPods)
          \/ \E p \in Packages : ListCheckpoints(a, p) \/ CreateCheckpoints(a, p)
          \/ \E w \in Workloads : Skip(a, w) \/ StartTask(a, w) \/ AcquireSlot(a, w)
      BY <1>2, <2>3, Zenon DEF Invocation
    <3>1. ctl'[a] \in {"packages", "pods"}
      <4>1. CASE LoadPolicy(a)
        BY <4>1 DEF LoadPolicy, TypeOK
      <4>2. ASSUME NEW p \in Packages, ListCheckpoints(a, p) \/ CreateCheckpoints(a, p)
            PROVE  ctl'[a] \in {"packages", "pods"}
        BY <4>2 DEF ListCheckpoints, CreateCheckpoints, IsNextPackage
      <4>3. CASE a = Rec /\ ListPods
        BY <4>3 DEF ListPods, TypeOK
      <4>4. ASSUME NEW w \in Workloads, Skip(a, w) \/ StartTask(a, w) \/ AcquireSlot(a, w)
            PROVE  ctl'[a] \in {"packages", "pods"}
        <5>1. (w \in todo[a] \/ pc[<<a, w>>] = "queued") /\ UNCHANGED ctl
          BY <4>4 DEF Skip, StartTask, AcquireSlot, actorVars
        <5> QED
          BY <5>1 DEF RestIsQuiet, TypeOK
      <4> QED
        BY <3>0, <4>1, <4>2, <4>3, <4>4
    <3>2. /\ \A b \in Actors : b # a => ctl'[b] = ctl[b] /\ todo'[b] = todo[b]
          /\ \A t \in Tasks : t[1] # a => pc'[t] = pc[t]
      <4>1. CASE \E w \in Workloads : StartTask(a, w) \/ AcquireSlot(a, w)
        BY <4>1 DEF StartTask, AcquireSlot, actorVars, Goto, TypeOK, Tasks
      <4>2. CASE LoadPolicy(a)
        BY <4>2 DEF LoadPolicy, TypeOK, taskVars
      <4>3. CASE a = Rec /\ ListPods
        BY <4>3 DEF ListPods, TypeOK, taskVars
      <4>4. ASSUME NEW p \in Packages, ListCheckpoints(a, p) \/ CreateCheckpoints(a, p)
            PROVE  /\ \A b \in Actors : b # a => ctl'[b] = ctl[b] /\ todo'[b] = todo[b]
                   /\ \A t \in Tasks : t[1] # a => pc'[t] = pc[t]
        BY <4>4 DEF ListCheckpoints, CreateCheckpoints, TypeOK, taskVars
      <4>5. ASSUME NEW w \in Workloads, Skip(a, w)
            PROVE  /\ \A b \in Actors : b # a => ctl'[b] = ctl[b] /\ todo'[b] = todo[b]
                   /\ \A t \in Tasks : t[1] # a => pc'[t] = pc[t]
        BY <4>5 DEF Skip, TypeOK, taskVars
      <4> QED
        BY <3>0, <4>1, <4>2, <4>3, <4>4, <4>5
    <3>3. \A b \in Actors, w \in Workloads : b # a => pc'[<<b, w>>] = pc[<<b, w>>]
      BY <3>2 DEF Tasks
    <3> QED
      BY <3>1, <3>2, <3>3 DEF RestIsQuiet
  <2> QED
    BY <2>1, <2>2, <2>3
<1>3. ASSUME NEW t \in Tasks, TaskStep(t), ~Panic(t) PROVE RestIsQuiet'
  <2>1. UNCHANGED <<ctl, todo>> /\ pc[t] # "none" /\ \A u \in Tasks : u # t => pc'[u] = pc[u]
    BY <1>3, TaskFrame
  <2>2. PICK a \in Actors, w \in Workloads : t = <<a, w>>
    BY DEF Tasks
  <2>3. ctl[a] \notin {"idle", "listing"}
    BY <2>1, <2>2 DEF RestIsQuiet
  <2>4. \A b \in Actors, v \in Workloads : b # a => pc'[<<b, v>>] = pc[<<b, v>>]
    BY <2>1, <2>2 DEF Tasks
  <2> QED
    BY <2>1, <2>3, <2>4 DEF RestIsQuiet
<1>4. ASSUME ProcessRestarts PROVE RestIsQuiet'
  BY <1>4 DEF ProcessRestarts, RestIsQuiet, Tasks
<1>5. ASSUME OutsideStep PROVE RestIsQuiet'
  BY <1>5, OutsideFrame DEF RestIsQuiet
<1> QED
  BY <1>1, <1>2, <1>3, <1>4, <1>5, NextCases

LEMMA RestHolds == Spec => []RestIsQuiet
<1>1. Init => RestIsQuiet
  BY DEF Init, RestIsQuiet, Tasks
<1> QED
  BY <1>1, RestStep, TypeCorrect, PTL DEF Spec

\* Every step keeps the invariant, and only an update of a task stores records.
LEMMA RecordStep ==
    ASSUME TypeOK, RestIsQuiet, RecordInv, [Next]_vars
    PROVE  /\ RecordInv'
           /\ \/ UNCHANGED api
              \/ \E t \in Tasks : /\ HasForeign(t[1], api'.status)
                                  /\ \A u \in Tasks : u # t => pc'[u] = pc[u]
<1>1. ASSUME NEW a \in Triggers, Trigger(a) \/ TriggerLost(a)
      PROVE  RecordInv' /\ UNCHANGED api
  <2>1. UNCHANGED <<api, cache, mem, foreign, pc, loc>>
    BY <1>1 DEF Trigger, TriggerLost, apiVars, taskVars
  <2> QED
    BY <2>1, QuietStep
<1>2. ASSUME NEW a \in Actors, Invocation(a) PROVE RecordInv' /\ UNCHANGED api
  <2>1. UNCHANGED api
    BY <1>2 DEF Invocation, PolicyNotFound, LoadPolicy, ListCheckpoints, CreateCheckpoints, ListPods,
                Skip, StartTask, AcquireSlot, InvocationEnds, apiVars
  <2> QED
    BY <1>2, <2>1, InvocationRecords
<1>3. ASSUME NEW t \in Tasks, TaskStep(t), ~Panic(t)
      PROVE  /\ RecordInv' /\ (UNCHANGED api \/ HasForeign(t[1], api'.status))
             /\ \A u \in Tasks : u # t => pc'[u] = pc[u]
  <2>0. \A u \in Tasks : u # t => pc'[u] = pc[u]
    BY <1>3, TaskFrame
  <2>1. CASE ApplyStatus(t)
    BY <2>0, <2>1, ApplyRecords
  <2>2. CASE ~ApplyStatus(t)
    <3>1. UNCHANGED api
      BY <1>3, <2>2
         DEF TaskStep, Initialise, GiveUp, CloneAndEdit, CommitAndPush, PushRestore, WaitForRestore,
             PushApp, Sync, ReadStatus, AppendRecord, SendStatus, TaskUnchanged, apiVars
    <3>2. RecordInv'
      BY <1>3, <2>2, EarlyRecords, ReadRecords, AppendRecords, SendRecords DEF TaskStep
    <3> QED
      BY <2>0, <3>1, <3>2
  <2> QED
    BY <2>1, <2>2
<1>4. ASSUME ProcessRestarts PROVE RecordInv' /\ UNCHANGED api
  BY <1>4, RestartRecords DEF ProcessRestarts
<1>5. ASSUME OutsideStep PROVE RecordInv' /\ UNCHANGED api
  <2>1. UNCHANGED <<api, mem, foreign, pc, loc>> /\ cache' \in {cache, api}
    BY <1>5, OutsideFrame
       DEF OutsideStep, CacheSync, NextSecond, CheckpointTaken, RestoreProgress, vars, apiVars
  <2> QED
    BY <2>1, QuietStep
<1> QED
  BY <1>1, <1>2, <1>3, <1>4, <1>5, NextCases

\* The inductive invariant: what the copies, slices and requests of an invocation
\* have of the records that are foreign to it, as long as they are current.
THEOREM RecordsInvariant == Spec => []RecordInv
  BY InitRecords, RecordStep, TypeCorrect, RestHolds, PTL DEF Spec

\* For any number of actors, workloads and tasks that race on one copy, and for any
\* faults, lost replies, stale caches and restarts: an update of the status never
\* removes or changes a record of an earlier or of another invocation.
THEOREM ForeignStay == Spec => ForeignRecordsStay
<1>1. ASSUME TypeOK, RestIsQuiet, RecordInv, [Next]_vars
      PROVE  [\A t \in Tasks : pc[t] = "apply" /\ pc'[t] # "apply"
                                  => Keeps(foreign[t[1]], api.status, api'.status)]_api
  BY <1>1, RecordStep DEF HasForeign
<1> QED
  BY <1>1, RecordsInvariant, TypeCorrect, RestHolds, PTL DEF Spec, ForeignRecordsStay

==============================================================================
