--------------------------- MODULE MCLocInterface ---------------------------
(* Instances of LocInterface for TLC. *)
EXTENDS LocInterface
=============================================================================
