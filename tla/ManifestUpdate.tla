---------------------------- MODULE ManifestUpdate ----------------------------
(***************************************************************************)
(* What TransitionOnMissedNodeHealth (checkpoint_transition/               *)
(* nodehealth_transition.go) does with a scan: it edits every file the     *)
(* scan of ManifestScan reports, in one goroutine per report of which two  *)
(* run at a time, waits for them, and commits and pushes the clone         *)
(* (UpdateResourceContainers and CommitAndPush, gitaclient/gitea.go).      *)
(***************************************************************************)
EXTENDS ManifestScan

CONSTANTS
    Docs,       \* the YAML documents of each file of the repository
    Slots,      \* capacity of sem (2 in the code)
    EditFails   \* whether a file operation, the secret or a request may fail

\* A document: whether the editor supports its kind, whether the ResourceRef names
\* it, and the image of its containers.
Document == [workload : BOOLEAN, match : BOOLEAN, image : {"original", "checkpoint", "other"}]

ASSUME DocsAssumption ==
    /\ Docs \in [Paths -> Seq(Document)] /\ \A f \in Paths : Docs[f] # <<>>
    /\ \A f \in Paths : Matches[f] = Cardinality({i \in DOMAIN Docs[f] : Docs[f][i].match})
ASSUME EditAssumption == Slots \in Nat \ {0} /\ EditFails \in BOOLEAN

VARIABLES
    phase,     \* of the caller: scan, edit, commit, pushed or stopped
    editor,    \* the goroutine for each report: waiting, writing, truncated, done, error
    content,   \* the documents of each file in the clone
    remote     \* and in the branch of the repository

updateVars == <<phase, editor, content, remote>>
allVars    == <<vars, updateVars>>

\* updateContainers
Updated(doc) == IF doc.image = "original" THEN [doc EXCEPT !.image = "checkpoint"] ELSE doc

\* What UpdateResourceContainers makes of a file: yaml.Unmarshal decodes the first
\* document only, and the file is written from it.
Rewritten(docs) == <<Updated(Head(docs))>>

------------------------------------------------------------------------------
(* The caller *)

\* The scan has failed or found nothing; otherwise wg.Add and go func for each report.
StartEdits ==
    /\ phase = "scan" /\ result # "none"
    /\ IF result = "error" \/ found = <<>>
       THEN phase' = "stopped" /\ UNCHANGED editor
       ELSE phase' = "edit" /\ editor' = [i \in DOMAIN found |-> "waiting"]
    /\ UNCHANGED <<vars, content, remote>>

\* Seeded fault: the caller does not wait for the goroutines.
EndEdits_NoWait ==
    /\ phase = "edit"
    /\ phase' = IF \E i \in DOMAIN editor : editor[i] = "error" THEN "stopped" ELSE "commit"
    /\ UNCHANGED <<vars, editor, content, remote>>

\* Seeded fault: an error of a goroutine is only logged.
EndEdits_IgnoresErrors ==
    /\ phase = "edit"
    /\ \A i \in DOMAIN editor : editor[i] \in {"done", "error"}
    /\ phase' = "commit"
    /\ UNCHANGED <<vars, editor, content, remote>>

\* wg.Wait(), and the first error in errChan ends the transition.
EndEdits ==
    /\ phase = "edit"
    /\ \A i \in DOMAIN editor : editor[i] \in {"done", "error"}
    /\ phase' = IF \E i \in DOMAIN editor : editor[i] = "error" THEN "stopped" ELSE "commit"
    /\ UNCHANGED <<vars, editor, content, remote>>

\* CommitAndPush: everything in the clone is staged.  A clone without a change
\* cannot be committed; the secret, the commit or the push may fail.
CommitAndPush ==
    /\ phase = "commit"
    /\ \/ /\ content # remote
          /\ remote' = content /\ phase' = "pushed"
       \/ /\ content = remote \/ EditFails
          /\ phase' = "stopped" /\ UNCHANGED remote
    /\ UNCHANGED <<vars, editor, content>>

------------------------------------------------------------------------------
(* UpdateResourceContainers for report i, between sem <- and <-sem *)

Busy == {i \in DOMAIN editor : editor[i] \in {"writing", "truncated"}}

\* ReadFile and the checks of the first document.  A file that another goroutine
\* has just truncated has no kind.
ReadManifest(i) ==
    /\ phase = "edit" /\ editor[i] = "waiting"
    /\ Cardinality(Busy) < Slots
    /\ LET docs == content[found[i]]
       IN  editor' = [editor EXCEPT ![i] =
              IF docs = <<>> THEN "error"
              ELSE IF ~Head(docs).workload THEN "error"
              ELSE IF Head(docs).image # "original" THEN "done"
              ELSE "writing"]
    /\ UNCHANGED <<vars, phase, content, remote>>

\* os.WriteFile truncates the file and then writes it.
Truncate(i) ==
    /\ editor[i] = "writing"
    /\ editor' = [editor EXCEPT ![i] = "truncated"]
    /\ content' = [content EXCEPT ![found[i]] = <<>>]
    /\ UNCHANGED <<vars, phase, remote>>

WriteManifest(i) ==
    /\ editor[i] = "truncated"
    /\ editor' = [editor EXCEPT ![i] = "done"]
    /\ content' = [content EXCEPT ![found[i]] = Rewritten(Docs[found[i]])]
    /\ UNCHANGED <<vars, phase, remote>>

\* A file operation fails.
EditError(i) ==
    /\ EditFails /\ editor[i] \in {"waiting", "writing", "truncated"} /\ phase = "edit"
    /\ editor[i] = "waiting" => Cardinality(Busy) < Slots
    /\ editor' = [editor EXCEPT ![i] = "error"]
    /\ UNCHANGED <<vars, phase, content, remote>>

------------------------------------------------------------------------------

UpdateInit ==
    /\ Init
    /\ phase = "scan" /\ editor = <<>>
    /\ content = Docs /\ remote = Docs

Scanning(A) == A /\ UNCHANGED updateVars

Caller == StartEdits \/ EndEdits \/ CommitAndPush

Editor(i) == ReadManifest(i) \/ Truncate(i) \/ WriteManifest(i) \/ EditError(i)

UpdateNext ==
    \/ Scanning(Next)
    \/ Caller
    \/ \E i \in DOMAIN editor : Editor(i)

UpdateSpec == UpdateInit /\ [][UpdateNext]_allVars

\* The Go scheduler runs every goroutine that is not blocked.
FairUpdateSpec ==
    /\ UpdateSpec
    /\ WF_allVars(Scanning(Walker)) /\ WF_allVars(Scanning(Closer)) /\ WF_allVars(Scanning(Collector))
    /\ \A w \in Workers : WF_allVars(Scanning(Worker(w)))
    /\ WF_allVars(Caller)
    /\ WF_allVars(\E i \in DOMAIN editor : Editor(i))

------------------------------------------------------------------------------
(* Properties *)

UpdateTypeOK ==
    /\ TypeOK
    /\ phase \in {"scan", "edit", "commit", "pushed", "stopped"}
    /\ editor \in Seq({"waiting", "writing", "truncated", "done", "error"})
    /\ phase \in {"edit", "commit", "pushed"} => Len(editor) = Len(found)
    /\ content \in [Paths -> Seq(Document)] /\ remote \in [Paths -> Seq(Document)]
    /\ Cardinality(Busy) <= Slots

\* Whatever two goroutines do to one file at the same time, what is pushed of it
\* is as it was cloned or as one of them wrote it, and never a truncated file.
PushedFilesAreWhole ==
    \A f \in Paths : remote[f] = Docs[f] \/ (f \in Range(found) /\ remote[f] = Rewritten(Docs[f]))

\* Nothing is pushed unless every report could be handled: no reported file is
\* left in the branch with the original image in the document the editor sees.
PushIsAllOrNothing ==
    phase = "pushed" => \A f \in Range(found) :
                           remote[f] # <<>> /\ Head(remote[f]).workload /\ Head(remote[f]).image # "original"

\* The caller gets to an end, also when the goroutines of one file fail.
UpdateEnds == <>(phase \in {"pushed", "stopped"})

==============================================================================
