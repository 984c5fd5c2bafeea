---------------------------- MODULE ManifestProofs ----------------------------
(* Proofs about ManifestScan and ManifestUpdate, for every value of their         *)
(* constants: any number of files, documents, workers and slots, any capacities.  *)
EXTENDS ManifestUpdate, FiniteSetTheorems, SequenceTheorems, TLAPS

------------------------------------------------------------------------------
(* The scan: files on their way to a worker, reports on their way to the caller *)

Pending == fileCh \o toWalk
Reports == found \o matchCh

Distinct(s) == \A i, j \in 1..Len(s) : s[i] = s[j] => i = j

\* Every file is on its way to one worker, or in one worker's hands, or dealt with;
\* the reports made and those a worker has still to make are its matching documents.
EachFileOnce ==
    /\ Distinct(Pending)
    /\ \A i \in 1..Len(Pending) :
          /\ Count(Pending[i], Reports) = 0
          /\ \A w \in Workers : \A left \in Nat : worker[w] # InFile(Pending[i], left)
    /\ \A f \in Paths : \A v, w \in Workers : \A m, n \in Nat :
          worker[v] = InFile(f, m) /\ worker[w] = InFile(f, n) => v = w
    /\ \A f \in Paths : \A w \in Workers : \A left \in Nat :
          worker[w] = InFile(f, left) => Count(f, Reports) + left = Matches[f]

\* A scan in which nothing has failed has reported the files it is through with.
NothingLost ==
    ~failed /\ ~cancelled =>
        \A f \in Paths :
            \/ \E i \in 1..Len(Pending) : Pending[i] = f
            \/ \E w \in Workers : \E left \in Nat : worker[w] = InFile(f, left)
            \/ Count(f, Reports) = Matches[f]

\* What a goroutine that has ended, or a closed channel, tells about the others.
EndsInOrder ==
    /\ fileClosed /\ ~failed => toWalk = <<>>
    /\ \A w \in Workers : worker[w] = Returned /\ ~failed /\ ~cancelled => fileClosed /\ fileCh = <<>>
    /\ matchClosed => \A w \in Workers : worker[w] = Returned
    /\ done => matchClosed
    /\ result = "matches" => matchClosed

ScanInv == TypeOK /\ EachFileOnce /\ NoSpuriousMatch /\ NothingLost /\ EndsInOrder

------------------------------------------------------------------------------
(* The edits *)

Edited(docs) == docs # <<>> /\ Head(docs).workload /\ Head(docs).image # "original"

\* The files as the goroutines leave them.
FilesInHand ==
    /\ \A f \in Paths : content[f] \in {Docs[f], Rewritten(Docs[f]), <<>>}
    /\ \A f \in Paths : content[f] # Docs[f] => \E i \in DOMAIN editor : found[i] = f
    /\ \A f \in Paths : content[f] = <<>> =>
          \E i \in DOMAIN editor : found[i] = f /\ editor[i] \in {"truncated", "error"}

\* What each goroutine knows of the file it was given.
EditorsKnow ==
    \A i \in DOMAIN editor :
        /\ i \in DOMAIN found
        /\ editor[i] \in {"writing", "truncated"} =>
              Head(Docs[found[i]]).workload /\ Head(Docs[found[i]]).image = "original"
        /\ editor[i] = "done" => content[found[i]] = <<>> \/ Edited(content[found[i]])
        /\ editor[i] \notin {"done", "error"} => phase = "edit"

\* The caller's phases, in the order it goes through them.
CallerWaits ==
    /\ phase # "scan" => result # "none"
    /\ phase = "scan" => editor = <<>>
    /\ phase \in {"commit", "pushed"} => \A i \in DOMAIN editor : editor[i] = "done"
    /\ remote = IF phase = "pushed" THEN content ELSE Docs

UpdateInv == ScanInv /\ UpdateTypeOK /\ FilesInHand /\ EditorsKnow /\ CallerWaits

------------------------------------------------------------------------------
(* Sequences and counts *)

\* Moving the head of one queue to the end of the queue before it changes nothing.
LEMMA HeadMoves ==
  ASSUME NEW S, NEW s \in Seq(S), NEW t \in Seq(S), t # <<>>
  PROVE  Append(s, Head(t)) \o Tail(t) = s \o t
  <1> DEFINE a == Append(s, Head(t))
             u == a \o Tail(t)
             v == s \o t
  <1>1. /\ Head(t) \in S /\ Tail(t) \in Seq(S) /\ Len(Tail(t)) = Len(t) - 1
        /\ \A i \in 1..Len(Tail(t)) : Tail(t)[i] = t[i + 1]
     BY HeadTailProperties
  <1>2. Len(s) \in Nat /\ Len(t) \in Nat \ {0} /\ Head(t) = t[1]
     BY EmptySeq, LenProperties
  <1>3. /\ a \in Seq(S) /\ Len(a) = Len(s) + 1 /\ a[Len(s) + 1] = t[1]
        /\ \A i \in 1..Len(s) : a[i] = s[i]
     BY <1>1, <1>2, AppendProperties
  <1> HIDE DEF a
  <1>4. /\ u \in Seq(S) /\ Len(u) = Len(s) + Len(t)
        /\ \A i \in 1..Len(s) + Len(t) : u[i] = IF i <= Len(s) + 1 THEN a[i] ELSE Tail(t)[i - (Len(s) + 1)]
    <2>1. Len(a) + Len(Tail(t)) = Len(s) + Len(t)  BY <1>1, <1>2, <1>3
    <2>2. /\ u \in Seq(S) /\ Len(u) = Len(a) + Len(Tail(t))
          /\ \A i \in 1..Len(a) + Len(Tail(t)) :
                u[i] = IF i <= Len(a) THEN a[i] ELSE Tail(t)[i - Len(a)]
       BY <1>1, <1>3, ConcatProperties
    <2> HIDE DEF u
    <2> QED  BY <1>3, <2>1, <2>2
  <1>5. /\ v \in Seq(S) /\ Len(v) = Len(s) + Len(t)
        /\ \A i \in 1..Len(s) + Len(t) : v[i] = IF i <= Len(s) THEN s[i] ELSE t[i - Len(s)]
     BY ConcatProperties
  <1> HIDE DEF u, v
  <1>6. ASSUME NEW i \in 1..Len(u) PROVE u[i] = v[i]
    <2>1. i \in Nat /\ i \in 1..Len(s) + Len(t)  BY <1>2, <1>4
    <2>2. CASE i <= Len(s)
      <3>1. i \in 1..Len(s) /\ i <= Len(s) + 1  BY <1>2, <2>1, <2>2
      <3> QED  BY <1>3, <1>4, <1>5, <2>1, <2>2, <3>1
    <2>3. CASE i = Len(s) + 1
      <3>1. i - Len(s) = 1 /\ ~(i <= Len(s)) /\ i <= Len(s) + 1  BY <1>2, <2>3
      <3> QED  BY <1>3, <1>4, <1>5, <2>1, <2>3, <3>1
    <2>4. CASE i > Len(s) + 1
      <3> DEFINE k == i - (Len(s) + 1)
      <3>1. k \in 1..Len(Tail(t)) /\ k + 1 = i - Len(s) /\ ~(i <= Len(s)) /\ ~(i <= Len(s) + 1)
         BY <1>1, <1>2, <2>1, <2>4
      <3>2. u[i] = Tail(t)[k]  BY <1>4, <2>1, <3>1
      <3>3. v[i] = t[k + 1]  BY <1>5, <2>1, <3>1
      <3> HIDE DEF k
      <3> QED  BY <1>1, <3>1, <3>2, <3>3
    <2> QED  BY <1>2, <2>1, <2>2, <2>3, <2>4
  <1>7. Len(u) = Len(v)  BY <1>4, <1>5
  <1>8. u = v  BY <1>4, <1>5, <1>6, <1>7, SeqEqual
  <1> QED  BY <1>8 DEF u, v, a

\* The head of a queue is the head of what is queued behind it as well.
LEMMA HeadLeaves ==
  ASSUME NEW S, NEW s \in Seq(S), NEW t \in Seq(S), s # <<>>
  PROVE  /\ s \o t \in Seq(S) /\ s \o t # <<>> /\ (s \o t)[1] = Head(s)
         /\ Tail(s) \o t \in Seq(S) /\ Len(Tail(s) \o t) = Len(s \o t) - 1
         /\ \A i \in 1..Len(Tail(s) \o t) : (Tail(s) \o t)[i] = (s \o t)[i + 1]
  <1> DEFINE u == Tail(s) \o t
             v == s \o t
  <1>1. /\ Tail(s) \in Seq(S) /\ Len(Tail(s)) = Len(s) - 1
        /\ \A i \in 1..Len(Tail(s)) : Tail(s)[i] = s[i + 1]
     BY HeadTailProperties
  <1>2. Len(s) \in Nat \ {0} /\ Len(t) \in Nat /\ Head(s) = s[1]
     BY EmptySeq, LenProperties
  <1>3. /\ u \in Seq(S) /\ Len(u) = Len(s) - 1 + Len(t)
        /\ \A i \in 1..Len(s) - 1 + Len(t) : u[i] = IF i <= Len(s) - 1 THEN Tail(s)[i] ELSE t[i - (Len(s) - 1)]
     BY <1>1, ConcatProperties
  <1>4. /\ v \in Seq(S) /\ Len(v) = Len(s) + Len(t)
        /\ \A i \in 1..Len(s) + Len(t) : v[i] = IF i <= Len(s) THEN s[i] ELSE t[i - Len(s)]
     BY ConcatProperties
  <1> HIDE DEF u, v
  <1>5. ASSUME NEW i \in 1..Len(u) PROVE u[i] = v[i + 1]
    <2>1. i \in Nat /\ i \in 1..Len(s) - 1 + Len(t) /\ i + 1 \in 1..Len(s) + Len(t)
       BY <1>2, <1>3
    <2>2. CASE i <= Len(s) - 1
      <3>1. i \in 1..Len(Tail(s)) /\ i + 1 <= Len(s)  BY <1>1, <1>2, <2>1, <2>2
      <3> QED  BY <1>1, <1>3, <1>4, <2>1, <2>2, <3>1
    <2>3. CASE i > Len(s) - 1
      <3>1. ~(i <= Len(s) - 1) /\ ~(i + 1 <= Len(s)) /\ i - (Len(s) - 1) = (i + 1) - Len(s)
         BY <1>2, <2>1, <2>3
      <3> QED  BY <1>3, <1>4, <2>1, <3>1
    <2> QED  BY <1>2, <2>1, <2>2, <2>3
  <1>6. v[1] = Head(s) /\ Len(v) >= 1 /\ Len(u) = Len(v) - 1  BY <1>2, <1>3, <1>4
  <1>7. v # <<>>  BY <1>6, EmptySeq
  <1> QED  BY <1>3, <1>4, <1>5, <1>6, <1>7 DEF u, v

LEMMA CountType ==
  ASSUME NEW S, NEW s \in Seq(S), NEW f
  PROVE  Count(f, s) \in Nat /\ IsFiniteSet({i \in DOMAIN s : s[i] = f})
  <1>1. DOMAIN s = 1..Len(s) /\ Len(s) \in Nat  BY LenProperties
  <1>2. IsFiniteSet(1..Len(s))  BY <1>1, FS_Interval
  <1>3. IsFiniteSet({i \in DOMAIN s : s[i] = f})  BY <1>1, <1>2, FS_Subset
  <1> QED  BY <1>3, FS_CardinalityType DEF Count

LEMMA CountEmpty == \A f : Count(f, <<>>) = 0
  <1> TAKE f
  <1>1. {i \in DOMAIN <<>> : <<>>[i] = f} = {}  OBVIOUS
  <1> QED  BY <1>1, FS_EmptySet DEF Count

\* One more report of a file.
LEMMA CountAppend ==
  ASSUME NEW S, NEW s \in Seq(S), NEW g \in S, NEW f
  PROVE  Count(f, Append(s, g)) = IF f = g THEN Count(f, s) + 1 ELSE Count(f, s)
  <1> DEFINE n == Len(s) + 1
             a == Append(s, g)
             old == {i \in DOMAIN s : s[i] = f}
             new == {i \in DOMAIN a : a[i] = f}
  <1>1. Len(s) \in Nat /\ DOMAIN s = 1..Len(s)  BY LenProperties
  <1>2. /\ a \in Seq(S) /\ Len(a) = n /\ a[n] = g /\ \A i \in 1..Len(s) : a[i] = s[i]
     BY AppendProperties
  <1>3. DOMAIN a = 1..n  BY <1>2, LenProperties
  <1>4. IsFiniteSet(old)  BY CountType
  <1>5. n \notin old /\ n \in 1..n /\ \A i \in 1..n : i \in 1..Len(s) \/ i = n  BY <1>1
  <1>6. \A i \in 1..Len(s) : i \in 1..n  BY <1>1
  <1> HIDE DEF n, a
  <1>7. CASE f = g
    <2>1. new = old \union {n}  BY <1>1, <1>2, <1>3, <1>5, <1>6, <1>7
    <2> HIDE DEF old, new
    <2>2. Cardinality(new) = Cardinality(old) + 1  BY <1>4, <1>5, <2>1, FS_AddElement
    <2> QED  BY <1>7, <2>2 DEF Count, old, new, a
  <1>8. CASE f # g
    <2>1. new = old  BY <1>1, <1>2, <1>3, <1>5, <1>6, <1>8
    <2> QED  BY <1>8, <2>1 DEF Count, a
  <1> QED  BY <1>7, <1>8

\* The walk visits every file once.
LEMMA FilesDistinct == Files \in Seq(Paths) /\ Distinct(Files)
  <1>1. Files \in Seq(Paths) /\ Cardinality(Paths) = Len(Files)  BY FilesAssumption
  <1>2. Len(Files) \in Nat /\ DOMAIN Files = 1..Len(Files) /\ Files \in [1..Len(Files) -> Paths]
     BY <1>1, LenProperties
  <1>3. IsFiniteSet(1..Len(Files)) /\ Cardinality(1..Len(Files)) = Len(Files)
     BY <1>2, FS_Interval
  <1>4. Files \in Surjection(1..Len(Files), Paths)
     BY <1>2 DEF Surjection, Paths, Range
  <1>5. Files \in Injection(1..Len(Files), Paths)
     BY <1>1, <1>3, <1>4, FS_Surjection
  <1> QED  BY <1>1, <1>5 DEF Injection, IsInjective, Distinct

------------------------------------------------------------------------------
(* The scan *)

LEMMA WorkerForms ==
  /\ Idle # Returned /\ Idle.at = "idle" /\ Returned.at = "returned"
  /\ \A f, n : /\ InFile(f, n).at = "file" /\ InFile(f, n).file = f /\ InFile(f, n).left = n
               /\ InFile(f, n) # Idle /\ InFile(f, n) # Returned
  /\ \A f, g, m, n : InFile(f, m) = InFile(g, n) => f = g /\ m = n
  <1>1. Idle.at = "idle" /\ Returned.at = "returned"  BY DEF Idle, Returned
  <1>2. \A f, n : InFile(f, n).at = "file" /\ InFile(f, n).file = f /\ InFile(f, n).left = n
     BY DEF InFile
  <1>3. Idle # Returned /\ \A f, n : InFile(f, n) # Idle /\ InFile(f, n) # Returned
     BY <1>1, <1>2
  <1>4. \A f, g, m, n : InFile(f, m) = InFile(g, n) => f = g /\ m = n  BY <1>2
  <1> QED  BY <1>1, <1>2, <1>3, <1>4

\* A worker in a file, and the reports it has still to make.
LEMMA WorkerInFile ==
  ASSUME TypeOK, NEW w \in Workers, worker[w].at = "file"
  PROVE  \E f \in Paths : \E left \in Nat : left <= Matches[f] /\ worker[w] = InFile(f, left)
  <1>1. worker[w] \notin {Idle, Returned}  BY WorkerForms
  <1>2. PICK f \in Paths : \E left \in 0..Matches[f] : worker[w] = InFile(f, left)
     BY <1>1 DEF TypeOK
  <1>3. Matches[f] \in Nat  BY FilesAssumption
  <1> QED  BY <1>2, <1>3

LEMMA QueuesType ==
  ASSUME TypeOK
  PROVE  /\ Pending \in Seq(Paths) /\ Reports \in Seq(Paths)
         /\ Len(Pending) \in Nat
         /\ \A i \in 1..Len(Pending) : Pending[i] \in Paths
         /\ \A f \in Paths : Count(f, Reports) \in Nat /\ Matches[f] \in Nat
  <1>1. Pending \in Seq(Paths) /\ Reports \in Seq(Paths)
     BY ConcatProperties DEF TypeOK, Pending, Reports
  <1>2. Len(Pending) \in Nat /\ \A i \in 1..Len(Pending) : Pending[i] \in Paths
     BY <1>1, LenProperties, ElementOfSeq
  <1>3. \A f \in Paths : Count(f, Reports) \in Nat /\ Matches[f] \in Nat
     BY <1>1, CountType, FilesAssumption
  <1> QED  BY <1>1, <1>2, <1>3

\* Where every file is, and what is left to report of it.
Accounted == EachFileOnce /\ NoSpuriousMatch /\ NothingLost

\* A step that moves no file to or from a worker and makes no report.
LEMMA QuietKeepsAccounts ==
  ASSUME Accounted, UNCHANGED <<worker, Pending, Reports>>,
         failed => failed', cancelled => cancelled'
  PROVE  Accounted'
  <1>1. EachFileOnce'  BY DEF Accounted, EachFileOnce, Distinct
  <1>2. NoSpuriousMatch'  BY DEF Accounted, NoSpuriousMatch, Reports
  <1>3. NothingLost'  BY DEF Accounted, NothingLost
  <1> QED  BY <1>1, <1>2, <1>3 DEF Accounted

\* A worker that is in no file before or after its step.
LEMMA IdleKeepsAccounts ==
  ASSUME TypeOK, Accounted, NEW w \in Workers, worker[w] = Idle,
         worker' = [worker EXCEPT ![w] = Returned],
         UNCHANGED <<Pending, Reports, failed, cancelled>>
  PROVE  Accounted'
  <1>1. \A v \in Workers : worker'[v] = IF v = w THEN Returned ELSE worker[v]  BY DEF TypeOK
  <1>2. \A v \in Workers : \A f, n : worker'[v] = InFile(f, n) <=> worker[v] = InFile(f, n)
     BY <1>1, WorkerForms
  <1>3. EachFileOnce'  BY <1>2 DEF Accounted, EachFileOnce, Distinct
  <1>4. NoSpuriousMatch'  BY DEF Accounted, NoSpuriousMatch, Reports
  <1>5. NothingLost'  BY <1>2 DEF Accounted, NothingLost
  <1> QED  BY <1>3, <1>4, <1>5 DEF Accounted

LEMMA TakeFileKeepsAccounts ==
  ASSUME TypeOK, Accounted, NEW w \in Workers, TakeFile(w)
  PROVE  Accounted'
  <1> DEFINE f0 == Head(fileCh)
             x == IF cancelled THEN Returned ELSE InFile(f0, Matches[f0])
  <1>0. /\ worker[w] = Idle /\ worker' = [worker EXCEPT ![w] = x]
        /\ UNCHANGED <<failed, cancelled>> /\ Reports' = Reports
        /\ Pending' = Tail(fileCh) \o toWalk
     BY DEF TakeFile, Reports, Pending, collectVars
  <1>1. \A v \in Workers : worker'[v] = IF v = w THEN x ELSE worker[v]  BY <1>0 DEF TypeOK
  <1>2. /\ Pending # <<>> /\ Pending[1] = f0 /\ Len(Pending') = Len(Pending) - 1
        /\ \A i \in 1..Len(Pending') : Pending'[i] = Pending[i + 1]
     BY <1>0, HeadLeaves DEF TypeOK, TakeFile, Pending
  <1>3. Len(Pending) \in Nat /\ Len(Pending) >= 1  BY <1>2, QueuesType, EmptySeq
  <1>4. \A i \in 1..Len(Pending') : i + 1 \in 1..Len(Pending) /\ i + 1 # 1  BY <1>2, <1>3
  <1>5. 1 \in 1..Len(Pending)  BY <1>3
  <1>6. /\ f0 \in Paths /\ Count(f0, Reports) = 0 /\ Matches[f0] \in Nat
        /\ \A v \in Workers : \A n \in Nat : worker[v] # InFile(f0, n)
     BY <1>2, <1>5, QueuesType DEF Accounted, EachFileOnce
  <1> HIDE DEF f0
  <1>7. \A i \in 1..Len(Pending') : Pending'[i] # f0
     BY <1>2, <1>4, <1>5 DEF Accounted, EachFileOnce, Distinct
  <1>8. \A v \in Workers : \A f : \A n \in Nat : worker'[v] = InFile(f, n) =>
           \/ v # w /\ worker[v] = InFile(f, n) /\ f # f0
           \/ v = w /\ f = f0 /\ n = Matches[f0]
     BY <1>1, <1>6, WorkerForms
  <1>9. EachFileOnce'
    <2>1. Distinct(Pending)'
      <3> SUFFICES ASSUME NEW i \in 1..Len(Pending'), NEW j \in 1..Len(Pending'),
                          Pending'[i] = Pending'[j]
                   PROVE  i = j
         BY DEF Distinct
      <3>1. Pending[i + 1] = Pending[j + 1]  BY <1>2
      <3>2. i + 1 = j + 1  BY <1>4, <3>1 DEF Accounted, EachFileOnce, Distinct
      <3> QED  BY <1>2, <1>3, <3>2
    <2>2. ASSUME NEW i \in 1..Len(Pending') PROVE Count(Pending'[i], Reports') = 0
      <3>1. Count(Pending[i + 1], Reports) = 0  BY <1>4 DEF Accounted, EachFileOnce
      <3>2. Pending'[i] = Pending[i + 1] /\ Reports' = Reports  BY <1>0, <1>2
      <3> QED  BY <3>1, <3>2
    <2>3. \A i \in 1..Len(Pending') : \A v \in Workers : \A n \in Nat :
             worker'[v] # InFile(Pending'[i], n)
      <3> SUFFICES ASSUME NEW i \in 1..Len(Pending'), NEW v \in Workers, NEW n \in Nat,
                          worker'[v] = InFile(Pending'[i], n)
                   PROVE  FALSE
         OBVIOUS
      <3>1. worker[v] = InFile(Pending[i + 1], n)  BY <1>2, <1>7, <1>8
      <3> QED  BY <1>4, <3>1 DEF Accounted, EachFileOnce
    <2>4. \A f \in Paths : \A u, v \in Workers : \A m, n \in Nat :
             worker'[u] = InFile(f, m) /\ worker'[v] = InFile(f, n) => u = v
       BY <1>8 DEF Accounted, EachFileOnce
    <2>5. \A f \in Paths : \A v \in Workers : \A n \in Nat :
             worker'[v] = InFile(f, n) => Count(f, Reports') + n = Matches[f]
      <3> SUFFICES ASSUME NEW f \in Paths, NEW v \in Workers, NEW n \in Nat,
                          worker'[v] = InFile(f, n)
                   PROVE  Count(f, Reports) + n = Matches[f]
         BY <1>0
      <3>1. CASE v # w /\ worker[v] = InFile(f, n)  BY <3>1 DEF Accounted, EachFileOnce
      <3>2. CASE f = f0 /\ n = Matches[f0]  BY <1>6, <3>2
      <3> QED  BY <1>8, <3>1, <3>2
    <2> QED  BY <2>1, <2>2, <2>3, <2>4, <2>5 DEF EachFileOnce
  <1>10. NoSpuriousMatch'  BY <1>0 DEF Accounted, NoSpuriousMatch, Reports
  <1>11. NothingLost'
    <2> SUFFICES ASSUME ~failed, ~cancelled, NEW f \in Paths
                 PROVE  \/ \E i \in 1..Len(Pending') : Pending'[i] = f
                        \/ \E v \in Workers : \E n \in Nat : worker'[v] = InFile(f, n)
                        \/ Count(f, Reports') = Matches[f]
       BY <1>0 DEF NothingLost
    <2>1. CASE f = f0
      <3>1. worker'[w] = InFile(f, Matches[f0])  BY <1>1, <2>1
      <3> QED  BY <1>6, <3>1
    <2>2. CASE f # f0 /\ \E i \in 1..Len(Pending) : Pending[i] = f
      <3>1. PICK i \in 1..Len(Pending) : Pending[i] = f  BY <2>2
      <3>2. i # 1  BY <1>2, <2>2, <3>1
      <3>3. i - 1 \in 1..Len(Pending') /\ (i - 1) + 1 = i  BY <1>2, <1>3, <3>2
      <3>4. Pending'[i - 1] = f  BY <1>2, <3>1, <3>3
      <3> QED  BY <3>3, <3>4
    <2>3. CASE \E v \in Workers : \E n \in Nat : worker[v] = InFile(f, n)
      <3>1. PICK v \in Workers, n \in Nat : worker[v] = InFile(f, n)  BY <2>3
      <3>2. v # w  BY <1>0, <3>1, WorkerForms
      <3> QED  BY <1>1, <3>1, <3>2
    <2>4. CASE Count(f, Reports) = Matches[f]  BY <1>0, <2>4
    <2> QED  BY <2>1, <2>2, <2>3, <2>4 DEF Accounted, NothingLost
  <1> QED  BY <1>9, <1>10, <1>11 DEF Accounted

LEMMA SendMatchKeepsAccounts ==
  ASSUME TypeOK, Accounted, NEW w \in Workers, SendMatch(w)
  PROVE  Accounted'
  <1>1. PICK g \in Paths, n \in Nat : n <= Matches[g] /\ worker[w] = InFile(g, n)
     BY WorkerInFile DEF SendMatch
  <1>2. n > 0 /\ worker[w].file = g /\ worker[w].left = n  BY <1>1, WorkerForms DEF SendMatch
  <1>3. Pending' = Pending /\ UNCHANGED <<failed, cancelled>>
     BY DEF SendMatch, Pending, walkVars
  <1>4. Reports' = Append(Reports, g)
    <2>1. matchCh' = Append(matchCh, g) /\ found' = found  BY <1>2 DEF SendMatch, collectVars
    <2>2. matchCh \in Seq(Paths) /\ found \in Seq(Paths)  BY DEF TypeOK
    <2>3. Append(matchCh, g) = matchCh \o <<g>>  BY <2>2, AppendIsConcat
    <2>4. Append(found \o matchCh, g) = (found \o matchCh) \o <<g>>
       BY <2>2, ConcatProperties, AppendIsConcat
    <2>5. <<g>> \in Seq(Paths)  OBVIOUS
    <2>6. (found \o matchCh) \o <<g>> = found \o (matchCh \o <<g>>)
       BY <2>2, <2>5, ConcatAssociative
    <2> QED  BY <2>1, <2>3, <2>4, <2>6 DEF Reports
  <1>5. \A v \in Workers : worker'[v] = IF v = w THEN InFile(g, n - 1) ELSE worker[v]
    <2>1. [InFile(g, n) EXCEPT !.left = n - 1] = InFile(g, n - 1)  BY DEF InFile
    <2>2. worker' = [worker EXCEPT ![w] = [worker[w] EXCEPT !.left = worker[w].left - 1]]
       BY DEF SendMatch
    <2>3. worker' = [worker EXCEPT ![w] = InFile(g, n - 1)]  BY <1>1, <1>2, <2>1, <2>2
    <2> QED  BY <2>3 DEF TypeOK
  <1>6. n - 1 \in Nat /\ (n - 1) + 1 = n  BY <1>2
  <1>7. \A f \in Paths : Count(f, Reports') = IF f = g THEN Count(f, Reports) + 1 ELSE Count(f, Reports)
     BY <1>4, QueuesType, CountAppend
  <1>8. \A v \in Workers : \A f \in Paths : \A m \in Nat : worker'[v] = InFile(f, m) =>
           \/ v # w /\ f # g /\ worker[v] = InFile(f, m)
           \/ v = w /\ f = g /\ m = n - 1
     BY <1>1, <1>5, WorkerForms DEF Accounted, EachFileOnce
  <1>9. Count(g, Reports) \in Nat /\ Matches[g] \in Nat /\ Count(g, Reports) + n = Matches[g]
     BY <1>1, QueuesType DEF Accounted, EachFileOnce
  <1>10. EachFileOnce'
    <2>1. Distinct(Pending)'  BY <1>3 DEF Accounted, EachFileOnce, Distinct
    <2>2. ASSUME NEW i \in 1..Len(Pending)
          PROVE  /\ Count(Pending[i], Reports') = 0
                 /\ \A v \in Workers : \A m \in Nat : worker'[v] # InFile(Pending[i], m)
      <3>1. Pending[i] \in Paths /\ Pending[i] # g
         BY <1>1, QueuesType DEF Accounted, EachFileOnce
      <3>2. Count(Pending[i], Reports') = 0
         BY <1>7, <3>1 DEF Accounted, EachFileOnce
      <3>3. \A v \in Workers : \A m \in Nat : worker'[v] # InFile(Pending[i], m)
         BY <1>8, <3>1 DEF Accounted, EachFileOnce
      <3> QED  BY <3>2, <3>3
    <2>3. \A f \in Paths : \A u, v \in Workers : \A m, k \in Nat :
             worker'[u] = InFile(f, m) /\ worker'[v] = InFile(f, k) => u = v
       BY <1>8 DEF Accounted, EachFileOnce
    <2>4. ASSUME NEW f \in Paths, NEW v \in Workers, NEW m \in Nat, worker'[v] = InFile(f, m)
          PROVE  Count(f, Reports') + m = Matches[f]
      <3>1. CASE f # g /\ worker[v] = InFile(f, m)
         BY <1>7, <3>1 DEF Accounted, EachFileOnce
      <3>2. CASE f = g /\ m = n - 1  BY <1>6, <1>7, <1>9, <3>2
      <3> QED  BY <1>8, <2>4, <3>1, <3>2
    <2> QED  BY <1>3, <2>1, <2>2, <2>3, <2>4 DEF EachFileOnce
  <1>11. NoSpuriousMatch'
    <2>1. ASSUME NEW f \in Paths PROVE Count(f, Reports') <= Matches[f]
      <3>1. CASE f = g  BY <1>2, <1>7, <1>9, <3>1
      <3>2. CASE f # g  BY <1>7, <3>2 DEF Accounted, NoSpuriousMatch, Reports
      <3> QED  BY <3>1, <3>2
    <2> QED  BY <2>1 DEF NoSpuriousMatch, Reports
  <1>12. NothingLost'
    <2> SUFFICES ASSUME ~failed, ~cancelled, NEW f \in Paths
                 PROVE  \/ \E i \in 1..Len(Pending) : Pending[i] = f
                        \/ \E v \in Workers : \E m \in Nat : worker'[v] = InFile(f, m)
                        \/ Count(f, Reports') = Matches[f]
       BY <1>3 DEF NothingLost
    <2>1. CASE f = g  BY <1>5, <1>6, <2>1
    <2>2. CASE f # g
      <3>1. CASE \E v \in Workers : \E m \in Nat : worker[v] = InFile(f, m)
        <4>1. PICK v \in Workers, m \in Nat : worker[v] = InFile(f, m)  BY <3>1
        <4>2. v # w  BY <1>1, <2>2, <4>1, WorkerForms
        <4> QED  BY <1>5, <4>1, <4>2
      <3>2. CASE Count(f, Reports) = Matches[f]  BY <1>7, <2>2, <3>2
      <3> QED  BY <3>1, <3>2 DEF Accounted, NothingLost
    <2> QED  BY <2>1, <2>2
  <1> QED  BY <1>10, <1>11, <1>12 DEF Accounted

LEMMA EndFileKeepsAccounts ==
  ASSUME TypeOK, Accounted, NEW w \in Workers, EndFile(w) \/ FileError(w)
  PROVE  Accounted'
  <1>1. PICK g \in Paths, n \in Nat : n <= Matches[g] /\ worker[w] = InFile(g, n)
     BY WorkerInFile DEF EndFile, FileError
  <1>2. n = 0 \/ failed' = TRUE  BY <1>1, WorkerForms DEF EndFile, FileError, ReportError
  <1>3. Pending' = Pending /\ Reports' = Reports /\ cancelled' = cancelled
     BY DEF EndFile, FileError, Pending, Reports, walkVars, collectVars
  <1>4. PICK x \in {Idle, Returned} :
           /\ worker' = [worker EXCEPT ![w] = x]
           /\ failed' = failed \/ failed' = TRUE
     BY DEF EndFile, FileError, ReportError
  <1>5. \A v \in Workers : worker'[v] = IF v = w THEN x ELSE worker[v]  BY <1>4 DEF TypeOK
  <1>6. \A v \in Workers : \A f, m : worker'[v] = InFile(f, m) => worker[v] = InFile(f, m)
     BY <1>4, <1>5, WorkerForms
  <1>7. n = 0 => Count(g, Reports) = Matches[g]
     BY <1>1, QueuesType DEF Accounted, EachFileOnce
  <1>8. EachFileOnce'  BY <1>3, <1>6 DEF Accounted, EachFileOnce, Distinct
  <1>9. NoSpuriousMatch'  BY <1>3 DEF Accounted, NoSpuriousMatch, Reports
  <1>10. NothingLost'
    <2> SUFFICES ASSUME ~failed, ~failed', ~cancelled, NEW f \in Paths
                 PROVE  \/ \E i \in 1..Len(Pending) : Pending[i] = f
                        \/ \E v \in Workers : \E m \in Nat : worker'[v] = InFile(f, m)
                        \/ Count(f, Reports) = Matches[f]
       BY <1>3, <1>4 DEF NothingLost
    <2>1. CASE \E v \in Workers : \E m \in Nat : worker[v] = InFile(f, m)
      <3>1. PICK v \in Workers, m \in Nat : worker[v] = InFile(f, m)  BY <2>1
      <3>2. CASE v = w  BY <1>1, <1>2, <1>7, <3>1, <3>2, WorkerForms
      <3>3. CASE v # w  BY <1>5, <3>1, <3>3
      <3> QED  BY <3>2, <3>3
    <2> QED  BY <2>1 DEF Accounted, NothingLost
  <1> QED  BY <1>8, <1>9, <1>10 DEF Accounted

\* The queues a step of the walker or of the caller leaves as they were.
LEMMA NextKeepsAccounts ==
  ASSUME TypeOK, Accounted, Next
  PROVE  Accounted'
  <1>1. CASE Walk
    <2>1. Pending' = Pending  BY <1>1, HeadMoves DEF Walk, Pending, TypeOK
    <2>2. UNCHANGED <<worker, Reports, failed, cancelled>>
       BY <1>1 DEF Walk, Reports, collectVars
    <2> QED  BY <2>1, <2>2, QuietKeepsAccounts
  <1>2. CASE WalkEnds \/ WalkError
    <2>1. UNCHANGED <<worker, Pending, Reports, cancelled>>
       BY <1>2 DEF WalkEnds, WalkError, Pending, Reports, collectVars
    <2>2. failed => failed'  BY <1>2 DEF WalkEnds, WalkError, ReportError
    <2> QED  BY <2>1, <2>2, QuietKeepsAccounts
  <1>3. ASSUME NEW w \in Workers, Worker(w) PROVE Accounted'
    <2>1. CASE NoMoreFiles(w)
      <3>1. UNCHANGED <<Pending, Reports, failed, cancelled>>
         BY <2>1 DEF NoMoreFiles, Pending, Reports, walkVars, collectVars
      <3> QED  BY <2>1, <3>1, IdleKeepsAccounts DEF NoMoreFiles
    <2> QED  BY <1>3, <2>1, TakeFileKeepsAccounts, SendMatchKeepsAccounts, EndFileKeepsAccounts
             DEF Worker
  <1>4. CASE CollectMatch
    <2>1. Reports' = Reports  BY <1>4, HeadMoves DEF CollectMatch, Reports, TypeOK
    <2>2. UNCHANGED <<worker, Pending, failed, cancelled>>
       BY <1>4 DEF CollectMatch, Pending, walkVars
    <2> QED  BY <2>1, <2>2, QuietKeepsAccounts
  <1>5. CASE Closer \/ CollectCancelled \/ CollectError \/ CollectClosed \/ CollectDone \/ Cancel
    <2>1. UNCHANGED <<worker, Pending, Reports, failed>> /\ (cancelled => cancelled')
       BY <1>5 DEF Closer, CloseMatches, CloseDone, CollectCancelled, CollectError,
                   CollectClosed, CollectDone, Cancel, Pending, Reports, walkVars, collectVars
    <2> QED  BY <2>1, QuietKeepsAccounts
  <1> QED  BY <1>1, <1>2, <1>3, <1>4, <1>5 DEF Next, Walker, Collector

LEMMA NextKeepsOrder ==
  ASSUME TypeOK, EndsInOrder, Next
  PROVE  EndsInOrder'
  <1>1. CASE Walker
     BY <1>1 DEF Walker, Walk, WalkEnds, WalkError, ReportError, EndsInOrder, closeVars, collectVars
  <1>2. ASSUME NEW w \in Workers, Worker(w) PROVE EndsInOrder'
    <2>1. CASE TakeFile(w)
      <3>1. \A v \in Workers : worker'[v] = Returned => (v = w /\ cancelled) \/ worker[v] = Returned
         BY <2>1, WorkerForms DEF TakeFile, TypeOK
      <3>2. ~matchClosed  BY <2>1, WorkerForms DEF TakeFile, EndsInOrder
      <3> QED  BY <2>1, <3>1, <3>2 DEF TakeFile, EndsInOrder, closeVars, collectVars
    <2>2. CASE SendMatch(w)
      <3>1. PICK g \in Paths, n \in Nat : n <= Matches[g] /\ worker[w] = InFile(g, n)
         BY <2>2, WorkerInFile DEF SendMatch
      <3>2. ~matchClosed  BY <3>1, WorkerForms DEF EndsInOrder
      <3>3. worker'[w].at = "file" /\ \A v \in Workers : v # w => worker'[v] = worker[v]
        <4>1. worker[w].left = n /\ [InFile(g, n) EXCEPT !.left = n - 1] = InFile(g, n - 1)
           BY <3>1, WorkerForms DEF InFile
        <4>2. worker' = [worker EXCEPT ![w] = [worker[w] EXCEPT !.left = worker[w].left - 1]]
           BY <2>2 DEF SendMatch
        <4>3. worker' = [worker EXCEPT ![w] = InFile(g, n - 1)]  BY <3>1, <4>1, <4>2
        <4> QED  BY <4>3, WorkerForms DEF TypeOK
      <3>4. worker'[w] # Returned  BY <3>3, WorkerForms
      <3> QED  BY <2>2, <3>2, <3>3, <3>4 DEF SendMatch, EndsInOrder, walkVars, closeVars, collectVars
    <2>3. CASE EndFile(w) \/ FileError(w)
      <3>1. PICK g \in Paths, n \in Nat : n <= Matches[g] /\ worker[w] = InFile(g, n)
         BY <2>3, WorkerInFile DEF EndFile, FileError
      <3>2. ~matchClosed  BY <3>1, WorkerForms DEF EndsInOrder
      <3>3. \A v \in Workers : worker'[v] = Returned => failed' \/ worker[v] = Returned
         BY <2>3, WorkerForms DEF EndFile, FileError, ReportError, TypeOK
      <3>4. (failed => failed') /\ cancelled' = cancelled
         BY <2>3 DEF EndFile, FileError, ReportError
      <3> QED  BY <2>3, <3>2, <3>3, <3>4 DEF EndFile, FileError, EndsInOrder, walkVars, closeVars, collectVars
    <2>4. CASE NoMoreFiles(w)
      <3>1. \A v \in Workers : worker'[v] = IF v = w THEN Returned ELSE worker[v]
         BY <2>4 DEF NoMoreFiles, TypeOK
      <3> QED  BY <2>4, <3>1 DEF NoMoreFiles, EndsInOrder, walkVars, closeVars, collectVars
    <2> QED  BY <1>2, <2>1, <2>2, <2>3, <2>4 DEF Worker
  <1>3. CASE Closer
     BY <1>3 DEF Closer, CloseMatches, CloseDone, EndsInOrder, walkVars, collectVars
  <1>4. CASE Collector
     BY <1>4 DEF Collector, CollectCancelled, CollectError, CollectMatch, CollectClosed, CollectDone,
                 EndsInOrder, walkVars, closeVars
  <1>5. CASE Cancel
     BY <1>5 DEF Cancel, EndsInOrder, walkVars, closeVars, collectVars
  <1> QED  BY <1>1, <1>2, <1>3, <1>4, <1>5 DEF Next

\* The states a worker may be in.
WorkerState(x) ==
    x \in {Idle, Returned} \/ \E f \in Paths : \E left \in 0..Matches[f] : x = InFile(f, left)

LEMMA WorkerMovesType ==
  ASSUME TypeOK, NEW w \in Workers, NEW x, WorkerState(x), worker' = [worker EXCEPT ![w] = x]
  PROVE  DOMAIN worker' = Workers /\ \A v \in Workers : WorkerState(worker'[v])
  <1>1. \A v \in Workers : WorkerState(worker[v])  BY DEF TypeOK, WorkerState
  <1>2. DOMAIN worker' = Workers /\ \A v \in Workers : worker'[v] = IF v = w THEN x ELSE worker[v]
     BY DEF TypeOK
  <1> QED  BY <1>1, <1>2

Flags == {fileClosed, matchClosed, done, errCh, cancelled, failed}

QueuesOK ==
    /\ toWalk \in Seq(Paths) /\ fileCh \in Seq(Paths) /\ Len(fileCh) <= FileCap
    /\ matchCh \in Seq(Paths) /\ Len(matchCh) <= MatchCap
    /\ found \in Seq(Paths)

LEMMA TypeParts ==
  TypeOK <=> /\ QueuesOK /\ DOMAIN worker = Workers /\ \A w \in Workers : WorkerState(worker[w])
             /\ Flags \subseteq BOOLEAN /\ result \in {"none", "error", "matches"}
  BY DEF TypeOK, QueuesOK, WorkerState, Flags

\* A queue with room for one more, and one from which the head is taken.
LEMMA QueueSteps ==
  ASSUME NEW s \in Seq(Paths), NEW c \in Nat
  PROVE  /\ \A f \in Paths : Append(s, f) \in Seq(Paths) /\ (Len(s) < c => Len(Append(s, f)) <= c)
         /\ s # <<>> => /\ Head(s) \in Paths /\ Tail(s) \in Seq(Paths)
                        /\ (Len(s) <= c => Len(Tail(s)) <= c)
  <1>1. Len(s) \in Nat  BY LenProperties
  <1>2. ASSUME NEW f \in Paths
        PROVE  Append(s, f) \in Seq(Paths) /\ (Len(s) < c => Len(Append(s, f)) <= c)
    <2>1. Append(s, f) \in Seq(Paths) /\ Len(Append(s, f)) = Len(s) + 1  BY AppendProperties
    <2> QED  BY <1>1, <2>1
  <1>3. ASSUME s # <<>>
        PROVE  /\ Head(s) \in Paths /\ Tail(s) \in Seq(Paths)
               /\ (Len(s) <= c => Len(Tail(s)) <= c)
    <2>1. Head(s) \in Paths /\ Tail(s) \in Seq(Paths) /\ Len(Tail(s)) = Len(s) - 1
       BY <1>3, HeadTailProperties
    <2> QED  BY <1>1, <2>1
  <1> QED  BY <1>2, <1>3

LEMMA NextKeepsQueues ==
  ASSUME TypeOK, Next
  PROVE  QueuesOK'
  <1>0. QueuesOK /\ FileCap \in Nat /\ MatchCap \in Nat  BY TypeParts, WorkersAssumption
  <1>1. CASE Walk
    <2>1. Head(toWalk) \in Paths /\ Tail(toWalk) \in Seq(Paths)
       BY <1>0, <1>1, QueueSteps DEF Walk, QueuesOK
    <2>2. fileCh' \in Seq(Paths) /\ Len(fileCh') <= FileCap
       BY <1>0, <1>1, <2>1, QueueSteps DEF Walk, QueuesOK
    <2> QED  BY <1>0, <1>1, <2>1, <2>2 DEF Walk, QueuesOK, collectVars
  <1>2. ASSUME NEW w \in Workers, Worker(w) PROVE QueuesOK'
    <2>1. CASE TakeFile(w)
      <3>1. fileCh' \in Seq(Paths) /\ Len(fileCh') <= FileCap
         BY <1>0, <2>1, QueueSteps DEF TakeFile, QueuesOK
      <3> QED  BY <1>0, <2>1, <3>1 DEF TakeFile, QueuesOK, collectVars
    <2>2. CASE SendMatch(w)
      <3>1. PICK g \in Paths, n \in Nat : n <= Matches[g] /\ worker[w] = InFile(g, n)
         BY <2>2, WorkerInFile DEF SendMatch
      <3>2. worker[w].file \in Paths  BY <3>1, WorkerForms
      <3>3. matchCh' \in Seq(Paths) /\ Len(matchCh') <= MatchCap
         BY <1>0, <2>2, <3>2, QueueSteps DEF SendMatch, QueuesOK
      <3> QED  BY <1>0, <2>2, <3>3 DEF SendMatch, QueuesOK, walkVars, collectVars
    <2>3. CASE EndFile(w) \/ FileError(w) \/ NoMoreFiles(w)
       BY <1>0, <2>3 DEF EndFile, FileError, NoMoreFiles, QueuesOK, walkVars, collectVars
    <2> QED  BY <1>2, <2>1, <2>2, <2>3 DEF Worker
  <1>3. CASE CollectMatch
    <2>1. Head(matchCh) \in Paths /\ matchCh' \in Seq(Paths) /\ Len(matchCh') <= MatchCap
       BY <1>0, <1>3, QueueSteps DEF CollectMatch, QueuesOK
    <2>2. found' \in Seq(Paths)  BY <1>0, <1>3, <2>1, QueueSteps DEF CollectMatch, QueuesOK
    <2> QED  BY <1>0, <1>3, <2>1, <2>2 DEF CollectMatch, QueuesOK, walkVars
  <1>4. CASE WalkEnds \/ WalkError \/ Closer \/ CollectCancelled \/ CollectError \/ CollectClosed
             \/ CollectDone \/ Cancel
     BY <1>0, <1>4 DEF WalkEnds, WalkError, Closer, CloseMatches, CloseDone, CollectCancelled,
                       CollectError, CollectClosed, CollectDone, Cancel, QueuesOK, walkVars, collectVars
  <1> QED  BY <1>1, <1>2, <1>3, <1>4 DEF Next, Walker, Collector

LEMMA NextKeepsWorkers ==
  ASSUME TypeOK, Next
  PROVE  DOMAIN worker' = Workers /\ \A w \in Workers : WorkerState(worker'[w])
  <1>1. CASE UNCHANGED worker  BY <1>1, TypeParts
  <1>2. ASSUME NEW w \in Workers, Worker(w)
        PROVE  DOMAIN worker' = Workers /\ \A v \in Workers : WorkerState(worker'[v])
    <2>1. CASE TakeFile(w)
      <3> DEFINE f0 == Head(fileCh)
                 x == IF cancelled THEN Returned ELSE InFile(f0, Matches[f0])
      <3>1. f0 \in Paths  BY <2>1, HeadTailProperties DEF TakeFile, TypeOK
      <3>2. Matches[f0] \in 0..Matches[f0]  BY <3>1, FilesAssumption
      <3>3. WorkerState(x)  BY <3>1, <3>2 DEF WorkerState
      <3>4. worker' = [worker EXCEPT ![w] = x]  BY <2>1 DEF TakeFile
      <3> QED  BY <3>3, <3>4, WorkerMovesType
    <2>2. CASE SendMatch(w)
      <3>1. PICK g \in Paths, n \in Nat : n <= Matches[g] /\ worker[w] = InFile(g, n)
         BY <2>2, WorkerInFile DEF SendMatch
      <3>2. worker[w].left = n /\ n > 0  BY <2>2, <3>1, WorkerForms DEF SendMatch
      <3>3. n - 1 \in 0..Matches[g]  BY <3>1, <3>2, FilesAssumption
      <3>4. worker' = [worker EXCEPT ![w] = [worker[w] EXCEPT !.left = worker[w].left - 1]]
         BY <2>2 DEF SendMatch
      <3>5. [InFile(g, n) EXCEPT !.left = n - 1] = InFile(g, n - 1)  BY DEF InFile
      <3>6. worker' = [worker EXCEPT ![w] = InFile(g, n - 1)]  BY <3>1, <3>2, <3>4, <3>5
      <3>7. WorkerState(InFile(g, n - 1))  BY <3>3 DEF WorkerState
      <3> QED  BY <3>6, <3>7, WorkerMovesType
    <2>3. CASE EndFile(w) \/ FileError(w) \/ NoMoreFiles(w)
      <3>1. PICK x \in {Idle, Returned} : worker' = [worker EXCEPT ![w] = x]
         BY <2>3 DEF EndFile, FileError, NoMoreFiles
      <3>2. WorkerState(x)  BY DEF WorkerState
      <3> QED  BY <3>1, <3>2, WorkerMovesType
    <2> QED  BY <1>2, <2>1, <2>2, <2>3 DEF Worker
  <1> QED  BY <1>1, <1>2 DEF Next, Walker, Walk, WalkEnds, WalkError, Closer, CloseMatches, CloseDone,
             Collector, CollectCancelled, CollectError, CollectMatch, CollectClosed, CollectDone, Cancel

LEMMA NextKeepsType ==
  ASSUME TypeOK, Next
  PROVE  TypeOK'
  <1>1. QueuesOK' /\ DOMAIN worker' = Workers /\ \A w \in Workers : WorkerState(worker'[w])
     BY NextKeepsQueues, NextKeepsWorkers
  <1>2. Flags' \subseteq BOOLEAN /\ result' \in {"none", "error", "matches"}
    <2>0. Flags \subseteq BOOLEAN /\ result \in {"none", "error", "matches"}  BY TypeParts
    <2>1. CASE Walker
       BY <2>0, <2>1 DEF Walker, Walk, WalkEnds, WalkError, ReportError, Flags, closeVars, collectVars
    <2>2. ASSUME NEW w \in Workers, Worker(w)
          PROVE  Flags' \subseteq BOOLEAN /\ result' \in {"none", "error", "matches"}
       BY <2>0, <2>2 DEF Worker, TakeFile, SendMatch, EndFile, FileError, NoMoreFiles, ReportError, Flags,
                         walkVars, closeVars, collectVars
    <2>3. CASE Closer
       BY <2>0, <2>3 DEF Closer, CloseMatches, CloseDone, Flags, walkVars, collectVars
    <2>4. CASE Collector
       BY <2>0, <2>4 DEF Collector, CollectCancelled, CollectError, CollectMatch, CollectClosed,
                         CollectDone, Flags, walkVars, closeVars
    <2>5. CASE Cancel
       BY <2>0, <2>5 DEF Cancel, Flags, walkVars, closeVars, collectVars
    <2> QED  BY <2>1, <2>2, <2>3, <2>4, <2>5 DEF Next
  <1>3. TypeOK' <=> /\ QueuesOK' /\ DOMAIN worker' = Workers /\ \A w \in Workers : WorkerState(worker'[w])
                    /\ Flags' \subseteq BOOLEAN /\ result' \in {"none", "error", "matches"}
     BY DEF TypeOK, QueuesOK, WorkerState, Flags
  <1> QED  BY <1>1, <1>2, <1>3

LEMMA ScanInit == Init => ScanInv
  <1> SUFFICES ASSUME Init PROVE ScanInv  OBVIOUS
  <1>1. QueuesOK
    <2>1. 0 <= FileCap /\ 0 <= MatchCap  BY WorkersAssumption
    <2>2. <<>> \in Seq(Paths) /\ Len(<<>>) = 0  BY EmptySeq
    <2> QED  BY <2>1, <2>2, FilesDistinct DEF Init, QueuesOK
  <1>2. TypeOK
    <2>1. \A w \in Workers : WorkerState(worker[w])  BY DEF Init, WorkerState
    <2>2. Flags \subseteq BOOLEAN  BY DEF Init, Flags
    <2> QED  BY <1>1, <2>1, <2>2, TypeParts DEF Init
  <1>3. Pending = Files /\ Reports = <<>>
    <2>1. <<>> \in Seq(Paths)  BY EmptySeq
    <2>2. <<>> \o Files = Files /\ <<>> \o <<>> = <<>>  BY <2>1, FilesDistinct, ConcatEmptySeq
    <2> QED  BY <2>2 DEF Init, Pending, Reports
  <1>4. \A w \in Workers : \A f, n : worker[w] # InFile(f, n)  BY WorkerForms DEF Init
  <1>5. EachFileOnce
     BY <1>3, <1>4, FilesDistinct, CountEmpty DEF EachFileOnce
  <1>6. NoSpuriousMatch
    <2>1. \A f \in Paths : Count(f, Reports) <= Matches[f]
       BY <1>3, CountEmpty, FilesAssumption
    <2> QED  BY <2>1 DEF NoSpuriousMatch, Reports
  <1>7. NothingLost
    <2>1. \A f \in Paths : \E i \in 1..Len(Files) : Files[i] = f
      <3>1. DOMAIN Files = 1..Len(Files)  BY FilesDistinct, LenProperties
      <3> QED  BY <3>1 DEF Paths, Range
    <2> QED  BY <1>3, <2>1 DEF NothingLost
  <1>8. EndsInOrder  BY WorkerForms DEF Init, EndsInOrder
  <1> QED  BY <1>2, <1>5, <1>6, <1>7, <1>8 DEF ScanInv

LEMMA ScanKeeps ==
  ASSUME ScanInv, [Next]_vars
  PROVE  ScanInv'
  <1>1. CASE Next
     BY <1>1, NextKeepsType, NextKeepsAccounts, NextKeepsOrder DEF ScanInv, Accounted
  <1>2. CASE UNCHANGED vars
    <2>1. UNCHANGED <<toWalk, fileCh, fileClosed, worker, matchCh, matchClosed, done, errCh,
                      cancelled, failed, found, result>>
       BY <1>2 DEF vars, walkVars, closeVars, collectVars
    <2>2. TypeOK'  BY <2>1 DEF ScanInv, TypeOK
    <2>3. UNCHANGED <<Pending, Reports>>  BY <2>1 DEF Pending, Reports
    <2>4. Accounted'  BY <2>1, <2>3, QuietKeepsAccounts DEF ScanInv, Accounted
    <2>5. EndsInOrder'  BY <2>1 DEF ScanInv, EndsInOrder
    <2> QED  BY <2>2, <2>4, <2>5 DEF ScanInv, Accounted
  <1> QED  BY <1>1, <1>2

------------------------------------------------------------------------------
(* The edits *)

EditorStates == {"waiting", "writing", "truncated", "done", "error"}

\* What is written to a file has the kind of its first document, and a new image.
LEMMA RewrittenIsEdited ==
  ASSUME NEW f \in Paths
  PROVE  /\ Docs[f] \in Seq(Document) /\ Docs[f] # <<>> /\ Head(Docs[f]) \in Document
         /\ Rewritten(Docs[f]) \in Seq(Document) /\ Rewritten(Docs[f]) # <<>>
         /\ Head(Rewritten(Docs[f])).workload = Head(Docs[f]).workload
         /\ Head(Rewritten(Docs[f])).image # "original"
  <1>1. Docs[f] \in Seq(Document) /\ Docs[f] # <<>>  BY DocsAssumption
  <1>2. Head(Docs[f]) \in Document  BY <1>1, HeadTailProperties
  <1> DEFINE d == Updated(Head(Docs[f]))
  <1>3. /\ d \in Document /\ d.workload = Head(Docs[f]).workload /\ d.image # "original"
     BY <1>2 DEF Document, Updated
  <1> HIDE DEF d
  <1>4. <<d>> \in Seq(Document) /\ <<d>> # <<>> /\ Head(<<d>>) = d  BY <1>3
  <1>5. Rewritten(Docs[f]) = <<d>>  BY DEF Rewritten, d
  <1> QED  BY <1>1, <1>2, <1>3, <1>4, <1>5

\* The files a goroutine may be given.
LEMMA EditorType ==
  ASSUME UpdateInv, NEW i \in DOMAIN editor
  PROVE  /\ DOMAIN editor = 1..Len(editor) /\ Len(editor) \in Nat
         /\ found[i] \in Paths /\ editor[i] \in EditorStates
  <1>1. editor \in Seq(EditorStates)  BY DEF UpdateInv, UpdateTypeOK, EditorStates
  <1>2. DOMAIN editor = 1..Len(editor) /\ Len(editor) \in Nat /\ editor[i] \in EditorStates
     BY <1>1, LenProperties
  <1>3. found \in Seq(Paths) /\ i \in DOMAIN found
     BY DEF UpdateInv, UpdateTypeOK, TypeOK, EditorsKnow
  <1>4. found[i] \in Paths  BY <1>3, LenProperties
  <1> QED  BY <1>2, <1>4

EditorMoves(i, x) == editor' = [editor EXCEPT ![i] = x]

LEMMA EditorMovesType ==
  ASSUME UpdateInv, NEW i \in DOMAIN editor, NEW x \in EditorStates, EditorMoves(i, x)
  PROVE  /\ editor' \in Seq(EditorStates) /\ Len(editor') = Len(editor)
         /\ DOMAIN editor' = DOMAIN editor
         /\ \A j \in DOMAIN editor : editor'[j] = IF j = i THEN x ELSE editor[j]
  <1>1. DOMAIN editor = 1..Len(editor)  BY EditorType
  <1>2. editor \in Seq(EditorStates)  BY DEF UpdateInv, UpdateTypeOK, EditorStates
  <1>3. editor' \in Seq(EditorStates) /\ Len(editor') = Len(editor)
     BY <1>1, <1>2, ExceptSeq DEF EditorMoves
  <1>4. /\ DOMAIN editor' = DOMAIN editor
        /\ \A j \in DOMAIN editor : editor'[j] = IF j = i THEN x ELSE editor[j]
     BY DEF EditorMoves
  <1> QED  BY <1>3, <1>4

\* A goroutine that takes a slot found one free.
LEMMA SlotsAreEnough ==
  ASSUME UpdateInv, NEW i \in DOMAIN editor, NEW x \in EditorStates, EditorMoves(i, x),
         x \in {"writing", "truncated"} =>
            editor[i] \in {"writing", "truncated"} \/ Cardinality(Busy) < Slots
  PROVE  Cardinality(Busy') <= Slots
  <1>1. /\ DOMAIN editor' = DOMAIN editor
        /\ \A j \in DOMAIN editor : editor'[j] = IF j = i THEN x ELSE editor[j]
     BY EditorMovesType
  <1>2. IsFiniteSet(Busy)
    <2>1. DOMAIN editor = 1..Len(editor) /\ Len(editor) \in Nat  BY EditorType
    <2>2. IsFiniteSet(1..Len(editor))  BY <2>1, FS_Interval
    <2> QED  BY <2>1, <2>2, FS_Subset DEF Busy
  <1>3. Cardinality(Busy) \in Nat /\ Cardinality(Busy) <= Slots /\ Slots \in Nat
     BY <1>2, FS_CardinalityType, EditAssumption DEF UpdateInv, UpdateTypeOK
  <1>4. CASE x \in {"writing", "truncated"} /\ editor[i] \notin {"writing", "truncated"}
    <2>1. Busy' = Busy \union {i} /\ i \notin Busy  BY <1>1, <1>4 DEF Busy
    <2>2. Cardinality(Busy') = Cardinality(Busy) + 1  BY <1>2, <2>1, FS_AddElement
    <2> QED  BY <1>3, <1>4, <2>2
  <1>5. CASE x \notin {"writing", "truncated"} \/ editor[i] \in {"writing", "truncated"}
    <2>1. Busy' \subseteq Busy  BY <1>1, <1>5 DEF Busy
    <2>2. IsFiniteSet(Busy') /\ Cardinality(Busy') <= Cardinality(Busy)  BY <1>2, <2>1, FS_Subset
    <2>3. Cardinality(Busy') \in Nat  BY <2>2, FS_CardinalityType
    <2> QED  BY <1>3, <2>2, <2>3
  <1> QED  BY <1>4, <1>5

LEMMA UpdateInitially == UpdateInit => UpdateInv
  <1> SUFFICES ASSUME UpdateInit PROVE UpdateInv  OBVIOUS
  <1>1. ScanInv  BY ScanInit DEF UpdateInit
  <1>2. DOMAIN editor = {} /\ editor \in Seq(EditorStates)  BY EmptySeq DEF UpdateInit
  <1>3. Cardinality(Busy) <= Slots
    <2>1. Busy = {}  BY <1>2 DEF Busy
    <2> QED  BY <2>1, FS_EmptySet, EditAssumption
  <1>4. UpdateTypeOK
     BY <1>1, <1>2, <1>3, DocsAssumption DEF UpdateInit, UpdateTypeOK, ScanInv, EditorStates
  <1>5. FilesInHand  BY DocsAssumption DEF UpdateInit, FilesInHand
  <1>6. EditorsKnow  BY <1>2 DEF EditorsKnow
  <1>7. CallerWaits  BY DEF UpdateInit, CallerWaits
  <1> QED  BY <1>1, <1>4, <1>5, <1>6, <1>7 DEF UpdateInv

\* What the scan still does once its answer is there does not touch the answer.
LEMMA ScanningKeeps ==
  ASSUME UpdateInv, [Next]_vars, UNCHANGED updateVars
  PROVE  UpdateInv'
  <1>1. ScanInv'  BY ScanKeeps DEF UpdateInv
  <1>2. UNCHANGED <<phase, editor, content, remote>>  BY DEF updateVars
  <1>3. UNCHANGED Busy  BY <1>2 DEF Busy
  <1>4. phase # "scan" => UNCHANGED <<found, result>>
     BY DEF UpdateInv, CallerWaits, Next, Walker, Walk, WalkEnds, WalkError, Worker, TakeFile,
            SendMatch, EndFile, FileError, NoMoreFiles, Closer, CloseMatches, CloseDone, Collector,
            CollectCancelled, CollectError, CollectMatch, CollectClosed, CollectDone, Cancel,
            vars, collectVars
  <1>5. phase = "scan" => DOMAIN editor = {}  BY DEF UpdateInv, CallerWaits
  <1>6. UpdateTypeOK'
     BY <1>1, <1>2, <1>3, <1>4 DEF UpdateInv, UpdateTypeOK, ScanInv
  <1>7. FilesInHand'  BY <1>2, <1>4, <1>5 DEF UpdateInv, FilesInHand
  <1>8. EditorsKnow'  BY <1>2, <1>4, <1>5 DEF UpdateInv, EditorsKnow, Edited
  <1>9. CallerWaits'  BY <1>2, <1>4 DEF UpdateInv, CallerWaits
  <1> QED  BY <1>1, <1>6, <1>7, <1>8, <1>9 DEF UpdateInv

LEMMA StartEditsKeeps ==
  ASSUME UpdateInv, StartEdits
  PROVE  UpdateInv'
  <1>1. /\ phase = "scan" /\ result # "none" /\ editor = <<>> /\ remote = Docs
        /\ UNCHANGED <<vars, content, remote>>
     BY DEF StartEdits, UpdateInv, CallerWaits
  <1>2. ScanInv' /\ UNCHANGED <<found, result>>
     BY <1>1, ScanKeeps DEF UpdateInv, vars, collectVars
  <1>3. content = Docs
    <2>1. DOMAIN editor = {}  BY <1>1
    <2>2. \A f \in Paths : content[f] = Docs[f]  BY <2>1 DEF UpdateInv, FilesInHand
    <2> QED  BY <2>2, DocsAssumption DEF UpdateInv, UpdateTypeOK
  <1>4. CASE phase' = "stopped" /\ UNCHANGED editor
    <2>1. UNCHANGED Busy  BY <1>4 DEF Busy
    <2>2. UpdateTypeOK'  BY <1>1, <1>2, <1>4, <2>1 DEF UpdateInv, UpdateTypeOK, ScanInv
    <2>3. FilesInHand'
      <3>1. \A f \in Paths : Docs[f] # <<>>  BY DocsAssumption
      <3> QED  BY <1>1, <1>3, <3>1 DEF FilesInHand
    <2>4. EditorsKnow'
      <3>1. DOMAIN editor' = {}  BY <1>1, <1>4
      <3> QED  BY <3>1 DEF EditorsKnow
    <2>5. CallerWaits'  BY <1>1, <1>2, <1>4 DEF CallerWaits
    <2> QED  BY <1>2, <2>2, <2>3, <2>4, <2>5 DEF UpdateInv
  <1>5. CASE phase' = "edit" /\ editor' = [i \in DOMAIN found |-> "waiting"]
    <2>1. found \in Seq(Paths)  BY DEF UpdateInv, UpdateTypeOK, TypeOK
    <2>2. DOMAIN found = 1..Len(found) /\ Len(found) \in Nat  BY <2>1, LenProperties
    <2>3. editor' \in Seq(EditorStates) /\ Len(editor') = Len(found)
          /\ DOMAIN editor' = DOMAIN found /\ \A i \in DOMAIN found : editor'[i] = "waiting"
       BY <1>5, <2>2 DEF EditorStates
    <2>4. Cardinality(Busy') <= Slots
      <3>1. Busy' = {}  BY <2>3 DEF Busy
      <3> QED  BY <3>1, FS_EmptySet, EditAssumption
    <2>5. UpdateTypeOK'
       BY <1>1, <1>2, <1>5, <2>3, <2>4 DEF UpdateInv, UpdateTypeOK, ScanInv, EditorStates
    <2>6. FilesInHand'
      <3>1. \A f \in Paths : Docs[f] # <<>>  BY DocsAssumption
      <3> QED  BY <1>1, <1>3, <3>1 DEF FilesInHand
    <2>7. EditorsKnow'  BY <1>2, <1>5, <2>3 DEF EditorsKnow
    <2>8. CallerWaits'  BY <1>1, <1>2, <1>5 DEF CallerWaits
    <2> QED  BY <1>2, <2>5, <2>6, <2>7, <2>8 DEF UpdateInv
  <1> QED  BY <1>4, <1>5 DEF StartEdits

LEMMA EndEditsKeeps ==
  ASSUME UpdateInv, EndEdits
  PROVE  UpdateInv'
  <1>1. /\ phase = "edit" /\ phase' \in {"stopped", "commit"}
        /\ \A i \in DOMAIN editor : editor[i] \in {"done", "error"}
        /\ phase' = "commit" => \A i \in DOMAIN editor : editor[i] = "done"
        /\ UNCHANGED <<vars, editor, content, remote>>
     BY DEF EndEdits
  <1>2. ScanInv' /\ UNCHANGED <<found, result>>
     BY <1>1, ScanKeeps DEF UpdateInv, vars, collectVars
  <1>3. UNCHANGED Busy  BY <1>1 DEF Busy
  <1>4. UpdateTypeOK'  BY <1>1, <1>2, <1>3 DEF UpdateInv, UpdateTypeOK, ScanInv
  <1>5. FilesInHand'  BY <1>1, <1>2 DEF UpdateInv, FilesInHand
  <1>6. EditorsKnow'  BY <1>1, <1>2 DEF UpdateInv, EditorsKnow, Edited
  <1>7. CallerWaits'  BY <1>1, <1>2 DEF UpdateInv, CallerWaits
  <1> QED  BY <1>2, <1>4, <1>5, <1>6, <1>7 DEF UpdateInv

LEMMA CommitKeeps ==
  ASSUME UpdateInv, CommitAndPush
  PROVE  UpdateInv'
  <1>1. /\ phase = "commit" /\ UNCHANGED <<vars, editor, content>>
        /\ \/ remote' = content /\ phase' = "pushed"
           \/ phase' = "stopped" /\ UNCHANGED remote
     BY DEF CommitAndPush
  <1>2. ScanInv' /\ UNCHANGED <<found, result>>
     BY <1>1, ScanKeeps DEF UpdateInv, vars, collectVars
  <1>3. UNCHANGED Busy  BY <1>1 DEF Busy
  <1>4. UpdateTypeOK'  BY <1>1, <1>2, <1>3 DEF UpdateInv, UpdateTypeOK, ScanInv
  <1>5. FilesInHand'  BY <1>1, <1>2 DEF UpdateInv, FilesInHand
  <1>6. EditorsKnow'  BY <1>1, <1>2 DEF UpdateInv, EditorsKnow, CallerWaits, Edited
  <1>7. CallerWaits'  BY <1>1, <1>2 DEF UpdateInv, CallerWaits
  <1> QED  BY <1>2, <1>4, <1>5, <1>6, <1>7 DEF UpdateInv

LEMMA ReadKeeps ==
  ASSUME UpdateInv, NEW i \in DOMAIN editor, ReadManifest(i)
  PROVE  UpdateInv'
  <1> DEFINE docs == content[found[i]]
             x == IF docs = <<>> THEN "error"
                  ELSE IF ~Head(docs).workload THEN "error"
                  ELSE IF Head(docs).image # "original" THEN "done"
                  ELSE "writing"
  <1>1. /\ phase = "edit" /\ editor[i] = "waiting" /\ Cardinality(Busy) < Slots
        /\ EditorMoves(i, x) /\ UNCHANGED <<vars, phase, content, remote>>
     BY DEF ReadManifest, EditorMoves
  <1>2. ScanInv' /\ UNCHANGED <<found, result>>
     BY <1>1, ScanKeeps DEF UpdateInv, vars, collectVars
  <1>3. x \in EditorStates /\ x # "truncated"  BY DEF EditorStates
  <1>4. found[i] \in Paths  BY EditorType
  <1>5. docs \in {Docs[found[i]], Rewritten(Docs[found[i]]), <<>>}
     BY <1>4 DEF UpdateInv, FilesInHand
  <1>6. x = "writing" => Head(Docs[found[i]]).workload /\ Head(Docs[found[i]]).image = "original"
     BY <1>4, <1>5, RewrittenIsEdited
  <1>7. x = "done" => Edited(docs)  BY DEF Edited
  <1> HIDE DEF x
  <1>8. /\ editor' \in Seq(EditorStates) /\ Len(editor') = Len(editor)
        /\ DOMAIN editor' = DOMAIN editor
        /\ \A j \in DOMAIN editor : editor'[j] = IF j = i THEN x ELSE editor[j]
     BY <1>1, <1>3, EditorMovesType
  <1>9. Cardinality(Busy') <= Slots  BY <1>1, <1>3, SlotsAreEnough
  <1>10. UpdateTypeOK'
     BY <1>1, <1>2, <1>8, <1>9 DEF UpdateInv, UpdateTypeOK, ScanInv, EditorStates
  <1>11. FilesInHand'  BY <1>1, <1>2, <1>8 DEF UpdateInv, FilesInHand
  <1>12. EditorsKnow'
     BY <1>1, <1>2, <1>3, <1>6, <1>7, <1>8 DEF UpdateInv, EditorsKnow, Edited
  <1>13. CallerWaits'  BY <1>1, <1>2 DEF UpdateInv, CallerWaits
  <1> QED  BY <1>2, <1>10, <1>11, <1>12, <1>13 DEF UpdateInv

LEMMA EditErrorKeeps ==
  ASSUME UpdateInv, NEW i \in DOMAIN editor, EditError(i)
  PROVE  UpdateInv'
  <1>1. /\ phase = "edit" /\ EditorMoves(i, "error") /\ UNCHANGED <<vars, phase, content, remote>>
     BY DEF EditError, EditorMoves
  <1>2. ScanInv' /\ UNCHANGED <<found, result>>
     BY <1>1, ScanKeeps DEF UpdateInv, vars, collectVars
  <1>3. "error" \in EditorStates  BY DEF EditorStates
  <1>4. /\ editor' \in Seq(EditorStates) /\ Len(editor') = Len(editor)
        /\ DOMAIN editor' = DOMAIN editor
        /\ \A j \in DOMAIN editor : editor'[j] = IF j = i THEN "error" ELSE editor[j]
     BY <1>1, <1>3, EditorMovesType
  <1>5. Cardinality(Busy') <= Slots  BY <1>1, <1>3, SlotsAreEnough
  <1>6. UpdateTypeOK'
     BY <1>1, <1>2, <1>4, <1>5 DEF UpdateInv, UpdateTypeOK, ScanInv, EditorStates
  <1>7. FilesInHand'  BY <1>1, <1>2, <1>4 DEF UpdateInv, FilesInHand
  <1>8. EditorsKnow'  BY <1>1, <1>2, <1>4 DEF UpdateInv, EditorsKnow, Edited
  <1>9. CallerWaits'  BY <1>1, <1>2 DEF UpdateInv, CallerWaits
  <1> QED  BY <1>2, <1>6, <1>7, <1>8, <1>9 DEF UpdateInv

\* Both halves of os.WriteFile: a file is left empty, or as it is rewritten, whatever
\* the other goroutines with that file have done to it.
LEMMA WriteKeeps ==
  ASSUME UpdateInv, NEW i \in DOMAIN editor, Truncate(i) \/ WriteManifest(i)
  PROVE  UpdateInv'
  <1> DEFINE g == found[i]
  <1>1. PICK x, docs :
           /\ EditorMoves(i, x) /\ content' = [content EXCEPT ![g] = docs]
           /\ \/ x = "truncated" /\ docs = <<>>
              \/ x = "done" /\ docs = Rewritten(Docs[g])
           /\ editor[i] \in {"writing", "truncated"} /\ UNCHANGED <<vars, phase, remote>>
     BY DEF Truncate, WriteManifest, EditorMoves
  <1>2. ScanInv' /\ UNCHANGED <<found, result>>
     BY <1>1, ScanKeeps DEF UpdateInv, vars, collectVars
  <1>3. x \in EditorStates /\ x \in {"truncated", "done"}  BY <1>1 DEF EditorStates
  <1>4. phase = "edit" /\ Head(Docs[g]).workload  BY <1>1 DEF UpdateInv, EditorsKnow
  <1>5. g \in Paths  BY EditorType
  <1>6. /\ editor' \in Seq(EditorStates) /\ Len(editor') = Len(editor)
        /\ DOMAIN editor' = DOMAIN editor
        /\ \A j \in DOMAIN editor : editor'[j] = IF j = i THEN x ELSE editor[j]
     BY <1>1, <1>3, EditorMovesType
  <1>7. docs \in Seq(Document) /\ docs \in {Rewritten(Docs[g]), <<>>}
        /\ (docs = <<>> <=> x = "truncated") /\ (docs # <<>> => Edited(docs))
     BY <1>1, <1>3, <1>4, <1>5, RewrittenIsEdited, EmptySeq DEF Edited
  <1>8. /\ content' \in [Paths -> Seq(Document)]
        /\ \A f \in Paths : content'[f] = IF f = g THEN docs ELSE content[f]
     BY <1>1, <1>5, <1>7 DEF UpdateInv, UpdateTypeOK
  <1>9. Cardinality(Busy') <= Slots  BY <1>1, <1>3, SlotsAreEnough
  <1>10. UpdateTypeOK'
     BY <1>1, <1>2, <1>6, <1>8, <1>9 DEF UpdateInv, UpdateTypeOK, ScanInv, EditorStates
  <1>11. FilesInHand'
    <2>1. ASSUME NEW f \in Paths
          PROVE  /\ content'[f] \in {Docs[f], Rewritten(Docs[f]), <<>>}
                 /\ content'[f] # Docs[f] => \E j \in DOMAIN editor' : found'[j] = f
                 /\ content'[f] = <<>> =>
                       \E j \in DOMAIN editor' : found'[j] = f /\ editor'[j] \in {"truncated", "error"}
      <3>1. CASE f = g
        <4>1. content'[f] = docs /\ found'[i] = f /\ i \in DOMAIN editor' /\ editor'[i] = x
           BY <1>2, <1>6, <1>8, <3>1
        <4> QED  BY <1>7, <3>1, <4>1
      <3>2. CASE f # g
        <4>1. content'[f] = content[f]  BY <1>8, <3>2
        <4>2. \A j \in DOMAIN editor : found[j] = f => editor'[j] = editor[j] /\ found'[j] = f
           BY <1>2, <1>6, <3>2
        <4> QED  BY <1>6, <4>1, <4>2 DEF UpdateInv, FilesInHand
      <3> QED  BY <3>1, <3>2
    <2> QED  BY <2>1 DEF FilesInHand
  <1>12. EditorsKnow'
    <2>1. ASSUME NEW j \in DOMAIN editor'
          PROVE  /\ j \in DOMAIN found'
                 /\ editor'[j] \in {"writing", "truncated"} =>
                       Head(Docs[found'[j]]).workload /\ Head(Docs[found'[j]]).image = "original"
                 /\ editor'[j] = "done" => content'[found'[j]] = <<>> \/ Edited(content'[found'[j]])
                 /\ editor'[j] \notin {"done", "error"} => phase' = "edit"
      <3>1. j \in DOMAIN editor /\ found[j] \in Paths  BY <1>6, EditorType
      <3>2. content'[found[j]] = IF found[j] = g THEN docs ELSE content[found[j]]  BY <1>8, <3>1
      <3>3. editor'[j] = "done" => content'[found[j]] = <<>> \/ Edited(content'[found[j]])
         BY <1>1, <1>6, <1>7, <3>1, <3>2 DEF UpdateInv, EditorsKnow
      <3>4. editor'[j] \in {"writing", "truncated"} => editor[j] \in {"writing", "truncated"}
         BY <1>1, <1>6, <3>1
      <3>5. \/ Head(Docs[found[j]]).workload /\ Head(Docs[found[j]]).image = "original"
            \/ editor[j] \notin {"writing", "truncated"}
         BY <3>1 DEF UpdateInv, EditorsKnow
      <3>6. j \in DOMAIN found  BY <3>1 DEF UpdateInv, EditorsKnow
      <3> QED  BY <1>1, <1>2, <1>4, <3>3, <3>4, <3>5, <3>6
    <2> QED  BY <2>1 DEF EditorsKnow, Edited
  <1>13. CallerWaits'  BY <1>1, <1>2, <1>4 DEF UpdateInv, CallerWaits
  <1> QED  BY <1>2, <1>10, <1>11, <1>12, <1>13 DEF UpdateInv

------------------------------------------------------------------------------
(* The theorems *)

\* The inductive invariant of a scan and of the edits and the push that follow it.
THEOREM ManifestInvariant == UpdateSpec => []UpdateInv
  <1>1. UpdateInv /\ [UpdateNext]_allVars => UpdateInv'
    <2> SUFFICES ASSUME UpdateInv, [UpdateNext]_allVars PROVE UpdateInv'  OBVIOUS
    <2>1. CASE Scanning(Next)  BY <2>1, ScanningKeeps DEF Scanning
    <2>2. CASE Caller  BY <2>2, StartEditsKeeps, EndEditsKeeps, CommitKeeps DEF Caller
    <2>3. ASSUME NEW i \in DOMAIN editor, Editor(i) PROVE UpdateInv'
       BY <2>3, ReadKeeps, WriteKeeps, EditErrorKeeps DEF Editor
    <2>4. CASE UNCHANGED allVars  BY <2>4, ScanningKeeps DEF allVars
    <2> QED  BY <2>1, <2>2, <2>3, <2>4 DEF UpdateNext
  <1> QED  BY <1>1, UpdateInitially, PTL DEF UpdateSpec

\* Every variable stays in its type; in particular no channel holds more than its
\* capacity and no more goroutines edit than sem has slots.
THEOREM ManifestTypes == UpdateSpec => []UpdateTypeOK
  <1>1. UpdateInv => UpdateTypeOK  BY DEF UpdateInv
  <1> QED  BY <1>1, ManifestInvariant, PTL

\* However many workers CheckRepoForMatchingManifests starts, none sends on matchCh
\* after the closer has closed it.
THEOREM NoSendOnClosedChannel == UpdateSpec => []NoSendOnClosed
  <1>1. UpdateInv => NoSendOnClosed
     BY WorkerForms DEF UpdateInv, ScanInv, EndsInOrder, NoSendOnClosed
  <1> QED  BY <1>1, ManifestInvariant, PTL

\* No file is reported more often than it has matching documents, whichever workers
\* read which files.
THEOREM NoSpuriousReports == UpdateSpec => []NoSpuriousMatch
  <1>1. UpdateInv => NoSpuriousMatch  BY DEF UpdateInv, ScanInv
  <1> QED  BY <1>1, ManifestInvariant, PTL

\* A scan without errors whose answer leaves nothing in matchCh has found every match.
THEOREM DrainedScanComplete == UpdateSpec => []DrainedScanIsComplete
  <1>1. UpdateInv => DrainedScanIsComplete
    <2> SUFFICES ASSUME UpdateInv, result = "matches", matchCh = <<>>, ~failed, ~cancelled,
                        NEW f \in Paths
                 PROVE  Count(f, found) = Matches[f]
       BY DEF DrainedScanIsComplete
    <2>1. matchClosed /\ \A w \in Workers : worker[w] = Returned
       BY DEF UpdateInv, ScanInv, EndsInOrder
    <2>2. PICK w \in Workers : TRUE  BY WorkersAssumption
    <2>3. fileCh = <<>> /\ toWalk = <<>>
       BY <2>1, <2>2 DEF UpdateInv, ScanInv, EndsInOrder
    <2>4. Len(Pending) = 0
      <3>1. <<>> \in Seq(Paths)  BY EmptySeq
      <3>2. <<>> \o <<>> = <<>>  BY <3>1, ConcatEmptySeq
      <3> QED  BY <2>3, <3>2, EmptySeq DEF Pending
    <2>5. \A i \in 1..Len(Pending) : FALSE  BY <2>4
    <2>6. \A v \in Workers : \A n \in Nat : worker[v] # InFile(f, n)  BY <2>1, WorkerForms
    <2>7. Count(f, Reports) = Matches[f]  BY <2>5, <2>6 DEF UpdateInv, ScanInv, NothingLost
    <2>8. Reports = found
       BY ConcatEmptySeq DEF Reports, UpdateInv, UpdateTypeOK, TypeOK
    <2> QED  BY <2>7, <2>8
  <1> QED  BY <1>1, ManifestInvariant, PTL

\* Whatever goroutines do to one file at the same time, CommitAndPush pushes it as it
\* was cloned or as one of them wrote it.
THEOREM PushedFilesWhole == UpdateSpec => []PushedFilesAreWhole
  <1>1. UpdateInv => PushedFilesAreWhole
    <2> SUFFICES ASSUME UpdateInv, NEW f \in Paths
                 PROVE  remote[f] = Docs[f] \/ (f \in Range(found) /\ remote[f] = Rewritten(Docs[f]))
       BY DEF PushedFilesAreWhole
    <2>1. CASE phase = "pushed" /\ content[f] # Docs[f]
      <3>1. remote[f] = content[f] /\ \A i \in DOMAIN editor : editor[i] = "done"
         BY <2>1 DEF UpdateInv, CallerWaits
      <3>2. content[f] # <<>>  BY <3>1 DEF UpdateInv, FilesInHand
      <3>3. remote[f] = Rewritten(Docs[f])  BY <2>1, <3>1, <3>2 DEF UpdateInv, FilesInHand
      <3>4. PICK i \in DOMAIN editor : found[i] = f  BY <2>1 DEF UpdateInv, FilesInHand
      <3>5. f \in Range(found)  BY <3>4 DEF UpdateInv, EditorsKnow, Range
      <3> QED  BY <3>3, <3>5
    <2> QED  BY <2>1 DEF UpdateInv, CallerWaits
  <1> QED  BY <1>1, ManifestInvariant, PTL

\* Nothing is pushed unless every report was handled: each reported file is a workload
\* in the branch, without the original image in its first document.
THEOREM PushAllOrNothing == UpdateSpec => []PushIsAllOrNothing
  <1>1. UpdateInv => PushIsAllOrNothing
    <2> SUFFICES ASSUME UpdateInv, phase = "pushed", NEW f \in Range(found)
                 PROVE  Edited(remote[f])
       BY DEF PushIsAllOrNothing, Edited
    <2>1. remote = content /\ \A i \in DOMAIN editor : editor[i] = "done"
       BY DEF UpdateInv, CallerWaits
    <2>2. PICK i \in DOMAIN found : found[i] = f  BY DEF Range
    <2>3. i \in DOMAIN editor /\ f \in Paths
      <3>1. /\ found \in Seq(Paths) /\ editor \in Seq(EditorStates) /\ Len(editor) = Len(found)
         BY DEF UpdateInv, UpdateTypeOK, TypeOK, EditorStates
      <3> QED  BY <2>2, <3>1, LenProperties
    <2>4. content[f] = <<>> \/ Edited(content[f])  BY <2>1, <2>2, <2>3 DEF UpdateInv, EditorsKnow
    <2>5. content[f] # <<>>  BY <2>1, <2>3 DEF UpdateInv, FilesInHand
    <2> QED  BY <2>1, <2>4, <2>5
  <1> QED  BY <1>1, ManifestInvariant, PTL

==============================================================================
