------------------------- MODULE WorkspaceMembersMC -------------------------
(* Instances of WorkspaceMembers for TLC. *)
EXTENDS WorkspaceMembers, TLC

Symmetry == Permutations(Requests)
=============================================================================
