---------------------------- MODULE MCHeartbeat ----------------------------
(* The instance of HeartbeatMonitor that TLC checks. *)
EXTENDS HeartbeatMonitor

CONSTANTS n1,          \* a node with two heartbeats
          n2           \* a node with one

TwoAndOne == [n \in Nodes |-> IF n = n1 THEN 2 ELSE 1]

==============================================================================
