--------------------------- MODULE ChannelBridgeMC ---------------------------
(* Instances of ChannelBridge for TLC. *)
EXTENDS ChannelBridge, TLC
=============================================================================
