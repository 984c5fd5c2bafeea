---------------------------- MODULE MCTransition ----------------------------
(* The instances of Transition that TLC checks. *)
EXTENDS Transition

CONSTANTS w1, w2,  \* workloads
          p1, p2   \* packages

OneEach == [w \in Workloads |-> IF w = w1 THEN p1 ELSE p2]
BothInOne == [w \in Workloads |-> p1]
InOrder == IF p2 \in Packages THEN <<p1, p2>> ELSE <<p1>>

\* The API server has a Completed record of the package.
IsRecorded(p) == \E r \in Range(api.status) : r.pkg = p /\ r.condition = "Completed"

\* Velero failed a Restore.  No retry can repeat it, so its package is recorded
\* as Failed in every pass from then on.
RestoreFailed == \E p \in Packages : restore[p] = "Failed"

\* Two failures are for good: Velero runs a Restore once, and the process keeps a
\* Gitea client it could not initialise.
Hopeless == RestoreFailed \/ gitea = "broken"

\* A package that is not live is handled by the reconciler alone, which retries
\* it in every pass: once the calls stop failing it is recorded as Completed for
\* good, through stale caches, conflicts, restarts and records lost in races.
PlainPackagesComplete ==
    \A p \in Packages \ Live :
        <>[](Hopeless \/ IsRecorded(p))

\* Then it is left alone: no further task is started for it.  A behaviour that
\* goes on recording comes to the bound of the model, which counts as a failure.
PlainPackagesSettle ==
    \A p \in Packages \ Live :
        <>[](\/ Hopeless
             \/ /\ api.rv < MaxUpdates
                /\ \A t \in Tasks : Pkg(t) = p => pc[t] = "none")

\* "To avoid duplicate transitions" (clusterpolicy_controller.go:630): one
\* application is pushed for a package.
NoDuplicateTransition == \A p \in Packages : dr[p] <= 1

\* "Gitea client not yet initialized, retrying later"
\* (clusterpolicy_controller.go:364): a transition of the reconciler, which comes
\* back every 5 s, gets through in the end and deploys the package.
EarlyReturnIsRetried ==
    \A t \in Tasks : pc[t] = "init" ~> dr[Pkg(t)] > 0

\* "3. Patch ClusterPolicy status (You already have this flow inside Reconcile,
\* reuse here)" (clusterpolicy_controller.go:958-959): a deployed package gets
\* its record.
DeploymentRecorded ==
    \A p \in Packages : (dr[p] > 0) ~> IsRecorded(p)

==============================================================================
