----------------------------- MODULE MCInsLogic -----------------------------
(* Instances of InsLogic for TLC: a client of each of the two threads that *)
(* send, out of the six of the program.                                    *)
EXTENDS InsLogic, TLC

MCStartOrder == <<"gnss", "ins">>
MCLocation   == <<"gnss">>
MCNmea       == <<"gnss">>
MCResult     == <<"ins">>
=============================================================================
