-------------------------- MODULE MCChannelServer --------------------------
(* Instances of ChannelServer for TLC. *)
EXTENDS ChannelServer, TLC
=============================================================================
