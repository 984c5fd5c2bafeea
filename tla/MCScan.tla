------------------------------- MODULE MCScan -------------------------------
(* The instances of ManifestScan that TLC checks. *)
EXTENDS ManifestScan

CONSTANTS f1, f2, f3   \* files

ThreeFiles == <<f1, f2, f3>>
SomeMatches == [f \in {f1, f2, f3} |-> IF f = f1 THEN 2 ELSE IF f = f2 THEN 1 ELSE 0]

\* "scans it for YAML manifests matching a given ResourceRef" (gitea.go:46): an
\* answer without an error names every match.
AnswerIsComplete ==
    result = "matches" => \A f \in Paths : Count(f, found) = Matches[f]

==============================================================================
