---------------------------- MODULE MCLocHandle ----------------------------
(* Instances of LocHandle for TLC. *)
EXTENDS LocHandle
=============================================================================
