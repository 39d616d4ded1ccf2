-------------------------- MODULE AutomationTaskFlowMC --------------------------
(* Instances of AutomationTaskFlow for TLC. *)
EXTENDS AutomationTaskFlow, TLC

\* Runs, and cancellations, are interchangeable.
Symmetry == Permutations(Runs) \cup Permutations(Cancellers)
=============================================================================
