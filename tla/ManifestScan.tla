---------------------------- MODULE ManifestScan ----------------------------
(***************************************************************************)
(* CheckRepoForMatchingManifests (reconcilers/gitaclient/gitea.go): after  *)
(* the clone a walker goroutine puts the YAML files into fileCh, workers   *)
(* decode them and put a path into matchCh for every matching document, a  *)
(* closer waits for the workers and closes matchCh and done, and the       *)
(* caller collects the matches in a select loop.  A branch of a select is  *)
(* one action; when several are ready Go takes any of them.                *)
(***************************************************************************)
EXTENDS Naturals, Sequences, FiniteSets, SequencesExt

CONSTANTS
    Files,      \* the YAML files of the clone, in the order of the walk
    Matches,    \* number of matching documents in each file
    Fragile,    \* files that may be unreadable, or have a document that cannot be decoded
    Workers,    \* the workers, runtime.NumCPU() of them
    FileCap,    \* capacity of fileCh (100 in the code)
    MatchCap,   \* capacity of matchCh (100 in the code)
    WalkFails,  \* whether WalkDir may report an error
    Cancels     \* whether the caller's context may be cancelled

Paths == Range(Files)

ASSUME FilesAssumption ==
    /\ Files \in Seq(Paths) /\ Cardinality(Paths) = Len(Files)
    /\ Matches \in [Paths -> Nat] /\ Fragile \subseteq Paths
ASSUME WorkersAssumption == Workers # {} /\ FileCap \in Nat \ {0} /\ MatchCap \in Nat \ {0}
ASSUME FaultsAssumption == WalkFails \in BOOLEAN /\ Cancels \in BOOLEAN

VARIABLES
    toWalk,       \* files the walker has still to put into fileCh
    fileCh,       \* buffer of fileCh
    fileClosed,   \* close(fileCh)
    worker,       \* each worker: idle at the range loop, in a file, or returned
    matchCh,      \* buffer of matchCh
    matchClosed,  \* close(matchCh)
    errCh,        \* whether the single slot of errCh is taken
    done,         \* close(done)
    cancelled,    \* ctx.Done()
    failed,       \* history: a worker or the walker has met an error
    found,        \* matchingFiles
    result        \* what the function has returned

walkVars    == <<toWalk, fileCh, fileClosed>>
closeVars   == <<matchClosed, done>>
collectVars == <<found, result>>
vars == <<walkVars, worker, matchCh, closeVars, errCh, cancelled, failed, collectVars>>

\* A worker: the file it is in and the matching documents it has still to report.
Idle     == [at |-> "idle"]
Returned == [at |-> "returned"]
InFile(f, left) == [at |-> "file", file |-> f, left |-> left]

\* select { case errCh <- err: default: }
ReportError == errCh' = TRUE /\ failed' = TRUE

------------------------------------------------------------------------------
(* The walker *)

\* Seeded fault: the buffer is taken to be unbounded.
Walk_Unbounded ==
    /\ toWalk # <<>> /\ ~fileClosed
    /\ fileCh' = Append(fileCh, Head(toWalk))
    /\ toWalk' = Tail(toWalk)
    /\ UNCHANGED <<fileClosed, worker, matchCh, closeVars, errCh, cancelled, failed, collectVars>>

Walk ==
    /\ toWalk # <<>> /\ ~fileClosed
    /\ Len(fileCh) < FileCap
    /\ fileCh' = Append(fileCh, Head(toWalk))
    /\ toWalk' = Tail(toWalk)
    /\ UNCHANGED <<fileClosed, worker, matchCh, closeVars, errCh, cancelled, failed, collectVars>>

\* Seeded fault: fileCh is not closed.
WalkEnds_LeavesOpen ==
    /\ toWalk = <<>> /\ ~fileClosed
    /\ UNCHANGED vars

WalkEnds ==
    /\ toWalk = <<>> /\ ~fileClosed
    /\ fileClosed' = TRUE
    /\ UNCHANGED <<toWalk, fileCh, worker, matchCh, closeVars, errCh, cancelled, failed, collectVars>>

\* A walk error ends the walk; fileCh is closed all the same.
WalkError ==
    /\ WalkFails /\ toWalk # <<>> /\ ~fileClosed
    /\ fileClosed' = TRUE
    /\ ReportError
    /\ UNCHANGED <<toWalk, fileCh, worker, matchCh, closeVars, cancelled, collectVars>>

------------------------------------------------------------------------------
(* A worker *)

\* for path := range fileCh, and the check of the context: a cancelled one drops the file.
TakeFile(w) ==
    /\ worker[w] = Idle /\ fileCh # <<>>
    /\ fileCh' = Tail(fileCh)
    /\ worker' = [worker EXCEPT ![w] =
                     IF cancelled THEN Returned ELSE InFile(Head(fileCh), Matches[Head(fileCh)])]
    /\ UNCHANGED <<toWalk, fileClosed, matchCh, closeVars, errCh, cancelled, failed, collectVars>>

\* Seeded fault: the worker stays on the document it has reported.
SendMatch_Again(w) ==
    /\ worker[w].at = "file" /\ worker[w].left > 0
    /\ Len(matchCh) < MatchCap
    /\ matchCh' = Append(matchCh, worker[w].file)
    /\ UNCHANGED <<walkVars, worker, closeVars, errCh, cancelled, failed, collectVars>>

\* matchCh <- path blocks while the buffer is full.
SendMatch(w) ==
    /\ worker[w].at = "file" /\ worker[w].left > 0
    /\ Len(matchCh) < MatchCap
    /\ matchCh' = Append(matchCh, worker[w].file)
    /\ worker' = [worker EXCEPT ![w].left = @ - 1]
    /\ UNCHANGED <<walkVars, closeVars, errCh, cancelled, failed, collectVars>>

\* The end of the file.
EndFile(w) ==
    /\ worker[w].at = "file" /\ worker[w].left = 0
    /\ worker' = [worker EXCEPT ![w] = Idle]
    /\ UNCHANGED <<walkVars, matchCh, closeVars, errCh, cancelled, failed, collectVars>>

\* The file cannot be read, before any report, or a document not be decoded, after
\* those of the documents before it: the worker returns.
FileError(w) ==
    /\ worker[w].at = "file" /\ worker[w].file \in Fragile
    /\ worker' = [worker EXCEPT ![w] = Returned]
    /\ ReportError
    /\ UNCHANGED <<walkVars, matchCh, closeVars, cancelled, collectVars>>

\* Seeded fault: an empty fileCh is taken for a closed one.
NoMoreFiles_WhenEmpty(w) ==
    /\ worker[w] = Idle /\ fileCh = <<>>
    /\ worker' = [worker EXCEPT ![w] = Returned]
    /\ UNCHANGED <<walkVars, matchCh, closeVars, errCh, cancelled, failed, collectVars>>

\* fileCh is closed and drained: the range loop ends.
NoMoreFiles(w) ==
    /\ worker[w] = Idle /\ fileClosed /\ fileCh = <<>>
    /\ worker' = [worker EXCEPT ![w] = Returned]
    /\ UNCHANGED <<walkVars, matchCh, closeVars, errCh, cancelled, failed, collectVars>>

------------------------------------------------------------------------------
(* The closer *)

\* Seeded fault: the walk is waited for, not the workers.
CloseMatches_AfterWalk ==
    /\ fileClosed /\ ~matchClosed
    /\ matchClosed' = TRUE
    /\ UNCHANGED <<walkVars, worker, matchCh, done, errCh, cancelled, failed, collectVars>>

\* wg.Wait(); close(matchCh)
CloseMatches ==
    /\ \A w \in Workers : worker[w] = Returned
    /\ ~matchClosed
    /\ matchClosed' = TRUE
    /\ UNCHANGED <<walkVars, worker, matchCh, done, errCh, cancelled, failed, collectVars>>

CloseDone ==
    /\ matchClosed /\ ~done
    /\ done' = TRUE
    /\ UNCHANGED <<walkVars, worker, matchCh, matchClosed, errCh, cancelled, failed, collectVars>>

------------------------------------------------------------------------------
(* The caller's select loop *)

CollectCancelled ==
    /\ result = "none" /\ cancelled
    /\ result' = "error"
    /\ UNCHANGED <<walkVars, worker, matchCh, closeVars, errCh, cancelled, failed, found>>

CollectError ==
    /\ result = "none" /\ errCh
    /\ errCh' = FALSE
    /\ result' = "error"
    /\ UNCHANGED <<walkVars, worker, matchCh, closeVars, cancelled, failed, found>>

\* Seeded fault: the first match is enough.
CollectMatch_First ==
    /\ result = "none" /\ matchCh # <<>>
    /\ matchCh' = Tail(matchCh)
    /\ found' = Append(found, Head(matchCh))
    /\ result' = "matches"
    /\ UNCHANGED <<walkVars, worker, closeVars, errCh, cancelled, failed>>

CollectMatch ==
    /\ result = "none" /\ matchCh # <<>>
    /\ matchCh' = Tail(matchCh)
    /\ found' = Append(found, Head(matchCh))
    /\ UNCHANGED <<walkVars, worker, closeVars, errCh, cancelled, failed, result>>

\* matchCh is closed and drained.
CollectClosed ==
    /\ result = "none" /\ matchClosed /\ matchCh = <<>>
    /\ result' = "matches"
    /\ UNCHANGED <<walkVars, worker, matchCh, closeVars, errCh, cancelled, failed, found>>

\* case <-done: whatever is still in the buffers of matchCh and errCh.
CollectDone ==
    /\ result = "none" /\ done
    /\ result' = "matches"
    /\ UNCHANGED <<walkVars, worker, matchCh, closeVars, errCh, cancelled, failed, found>>

Cancel ==
    /\ Cancels /\ ~cancelled /\ result = "none"
    /\ cancelled' = TRUE
    /\ UNCHANGED <<walkVars, worker, matchCh, closeVars, errCh, failed, collectVars>>

------------------------------------------------------------------------------

Init ==
    /\ toWalk = Files /\ fileCh = <<>> /\ fileClosed = FALSE
    /\ worker = [w \in Workers |-> Idle]
    /\ matchCh = <<>> /\ matchClosed = FALSE /\ done = FALSE
    /\ errCh = FALSE /\ cancelled = FALSE /\ failed = FALSE
    /\ found = <<>> /\ result = "none"

Walker == Walk \/ WalkEnds \/ WalkError

Worker(w) == TakeFile(w) \/ SendMatch(w) \/ EndFile(w) \/ FileError(w) \/ NoMoreFiles(w)

Closer == CloseMatches \/ CloseDone

Collector ==
    CollectCancelled \/ CollectError \/ CollectMatch \/ CollectClosed \/ CollectDone

Next == Walker \/ (\E w \in Workers : Worker(w)) \/ Closer \/ Collector \/ Cancel

Spec == Init /\ [][Next]_vars

------------------------------------------------------------------------------
(* Properties *)

Count(f, paths) == Cardinality({i \in DOMAIN paths : paths[i] = f})

TypeOK ==
    /\ toWalk \in Seq(Paths) /\ fileCh \in Seq(Paths) /\ Len(fileCh) <= FileCap
    /\ matchCh \in Seq(Paths) /\ Len(matchCh) <= MatchCap
    /\ DOMAIN worker = Workers
    /\ \A w \in Workers :
          \/ worker[w] \in {Idle, Returned}
          \/ \E f \in Paths : \E left \in 0..Matches[f] : worker[w] = InFile(f, left)
    /\ {fileClosed, matchClosed, done, errCh, cancelled, failed} \subseteq BOOLEAN
    /\ found \in Seq(Paths) /\ result \in {"none", "error", "matches"}

\* No worker is left that could send on matchCh after it is closed: a send on a
\* closed channel would panic and end the operator.
NoSendOnClosed == matchClosed => \A w \in Workers : worker[w].at # "file"

\* A file is reported at most once per matching document: the caller edits each
\* file it is given.
NoSpuriousMatch == \A f \in Paths : Count(f, found \o matchCh) <= Matches[f]

\* The part of "scans it for manifests" the select loop keeps: a scan in which
\* nothing failed and that leaves nothing in matchCh has found every match.
DrainedScanIsComplete ==
    (result = "matches" /\ matchCh = <<>> /\ ~failed /\ ~cancelled)
        => \A f \in Paths : Count(f, found) = Matches[f]

\* A scan without errors leaves no goroutine behind: the caller does not return
\* while a worker waits for room in matchCh or the walker for room in fileCh.
NoGoroutineLeft ==
    <>(\/ failed \/ cancelled
       \/ fileClosed /\ done /\ \A w \in Workers : worker[w] = Returned)

==============================================================================
