--------------------------- MODULE RunLifecycleMC ---------------------------
(* Instances of RunLifecycle for TLC. *)
EXTENDS RunLifecycle, TLC

\* Actors of one role and the nodes are interchangeable.
Symmetry == Permutations(Tickers) \cup Permutations(Reviewers)
            \cup Permutations(Cancellers) \cup Permutations(Executors)
            \cup Permutations(Nodes)
=============================================================================
