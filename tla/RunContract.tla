----------------------------- MODULE RunContract -----------------------------
(***************************************************************************)
(* What a run promises to everything that looks at it (the run list, the   *)
(* approval queue, task flows, video ingestions): its status moves along   *)
(* the edges below, one at a time, and an approval request is open from    *)
(* the suspension that asks for it until the run leaves that suspension.   *)
(***************************************************************************)
CONSTANT Nodes     \* approval nodes

VARIABLES
    status,        \* the status of the run
    open           \* the node whose approval is asked for, as a set

vars == <<status, open>>

Init == status = "absent" /\ open = {}

Start == status = "absent" /\ status' = "running" /\ UNCHANGED open

Suspend ==
    /\ status = "running"
    /\ status' = "waiting"
    /\ open' \in {{}} \cup {{n} : n \in Nodes}

\* A resumption by a timer, a decision or a timeout.
Continue == status = "waiting" /\ status' = "running" /\ open' = {}

Succeed == status = "running" /\ status' = "succeeded" /\ open' = {}

FailOrCancel ==
    /\ status \in {"running", "waiting"}
    /\ status' \in {"failed", "cancelled"}
    /\ open' = {}

Next == Start \/ Suspend \/ Continue \/ Succeed \/ FailOrCancel

Spec == Init /\ [][Next]_vars
=============================================================================
