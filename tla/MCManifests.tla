----------------------------- MODULE MCManifests -----------------------------
(* The instances of ManifestUpdate that TLC checks. *)
EXTENDS ManifestUpdate

CONSTANTS f1, f2, f3   \* files

\* A document that the ResourceRef names, other workloads, and one that is none.
Named   == [workload |-> TRUE, match |-> TRUE, image |-> "original"]
Twin    == [workload |-> TRUE, match |-> FALSE, image |-> "original"]
Other   == [workload |-> TRUE, match |-> FALSE, image |-> "other"]
Service == [workload |-> FALSE, match |-> FALSE, image |-> "other"]

ThreeFiles == <<f1, f2, f3>>
\* Two matches in one file, a match behind a workload with the same image, no match.
SomeDocs == (f1 :> <<Named, Named>>) @@ (f2 :> <<Twin, Named>>) @@ (f3 :> <<Service, Other>>)
SomeMatches == (f1 :> 2) @@ (f2 :> 1) @@ (f3 :> 0)

==============================================================================
