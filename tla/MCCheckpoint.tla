---------------------------- MODULE MCCheckpoint ----------------------------
(* The instances of CheckpointController that TLC checks. *)
EXTENDS CheckpointController

CONSTANTS c1, c2   \* containers

OneContainer == <<c1>>
TwoContainers == <<c1, c2>>

\* A behaviour has a tick of cron or a wrong schedule, not both: a bound.
TickOrEdit == ticks' = 0 \/ edits' = 0

TickOrEditSpec == Init /\ [][Next /\ TickOrEdit]_vars /\ Fairness

==============================================================================
