--------------------------- MODULE MCSerialParser ---------------------------
(* Instances of SerialParser for TLC. *)
EXTENDS SerialParser
=============================================================================
