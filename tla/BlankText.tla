------------------------------- MODULE BlankText -------------------------------
(* A text that nobody filled in: what is missing, of spaces only or no text  *)
(* at all reads as blank in the editor, the executor and the adapter.        *)

Blank == ""
=============================================================================
