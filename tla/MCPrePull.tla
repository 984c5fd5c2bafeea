------------------------------ MODULE MCPrePull ------------------------------
(* The instances of PrePull that TLC checks. *)
EXTENDS PrePull

CONSTANTS n1, n2   \* nodes

TwoNodes == <<n1, n2>>

\* The target cluster at its best: the kubelet runs every pod, and a pull takes less
\* than the two minutes of a watcher.
PromptNext ==
    /\ Next
    /\ \A c \in Calls, nm \in Names :
          pod[nm] = "pulling" /\ watcher[<<c, nm>>] = "watching" => watcher'[<<c, nm>>] = "watching"

PromptSpec ==
    /\ Init /\ [][PromptNext]_vars
    /\ \A c \in Calls : WF_vars(Call(c))
    /\ \A c \in Calls, nm \in Names : WF_vars(PromptNext /\ Watcher(c, nm))
    /\ \A nm \in Names : WF_vars(Kubelet(nm))

==============================================================================
