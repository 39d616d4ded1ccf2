--------------------------- MODULE AuthSessionsMC ---------------------------
(* Instances of AuthSessions for TLC. *)
EXTENDS AuthSessions, TLC

Symmetry == Permutations(Requests) \cup Permutations(Sessions) \cup Permutations(Tokens)
=============================================================================
