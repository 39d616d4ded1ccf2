------------------------- MODULE YouTubeIngestionMC -------------------------
(* Instances of YouTubeIngestion for TLC. *)
EXTENDS YouTubeIngestion, TLC
=============================================================================
