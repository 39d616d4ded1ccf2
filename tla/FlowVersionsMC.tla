---------------------------- MODULE FlowVersionsMC ----------------------------
(* Instances of FlowVersions for TLC. *)
EXTENDS FlowVersions, TLC

\* Actors of one role, and graphs of one verdict, are interchangeable.
Symmetry == Permutations(Savers) \cup Permutations(Publishers)
            \cup Permutations(Valid) \cup Permutations(Graphs \ Valid)
=============================================================================
