----------------------------- MODULE MCMonitors -----------------------------
(* The instance of HealthMonitors that TLC checks. *)
EXTENDS HealthMonitors

CONSTANTS n1, n2   \* nodes

BothNodes       == <<n1, n2>>
ShortWarmup     == [k \in Kinds |-> 1]

==============================================================================
