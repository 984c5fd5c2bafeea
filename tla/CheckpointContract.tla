------------------------- MODULE CheckpointContract -------------------------
(***************************************************************************)
(* What the transition code relies on when it reads a Checkpoint: the      *)
(* image named in its status is one that can be pulled, and once there is  *)
(* one there always is one.                                                *)
(***************************************************************************)

CONSTANTS Containers,  \* the pod's containers; each has one checkpoint image
          None         \* no image

VARIABLES registry,  \* containers whose checkpoint image is in the registry
          image,     \* the container LastCheckpointImage stands for, or None
          live       \* whether the resource exists

vars == <<registry, image, live>>

Init == registry = {} /\ image = None /\ live = TRUE

Push(c) == registry' = registry \union {c} /\ UNCHANGED <<image, live>>

Publish(c) ==
    /\ live /\ c \in registry
    /\ image' = c
    /\ UNCHANGED <<registry, live>>

Remove == live /\ live' = FALSE /\ UNCHANGED <<registry, image>>

Next == (\E c \in Containers : Push(c) \/ Publish(c)) \/ Remove

Spec == Init /\ [][Next]_vars

==============================================================================
