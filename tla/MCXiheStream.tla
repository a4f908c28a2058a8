---------------------------- MODULE MCXiheStream ----------------------------
(* Instances of XiheStream for TLC. A frame's last three bytes are its     *)
(* checksum: 9, 9, 9 when it is right.                                     *)
EXTENDS XiheStream

Empty    == <<211, 0, 0, 9, 9, 9>>
Inner    == <<211, 0, 1, 211, 9, 9, 9>>    (* holds a preamble *)
BadSum   == <<211, 0, 0, 9, 9, 8>>
Oversize == <<211, 0, 2>>                  (* says it has 8 bytes *)

TwoFrames == {Empty, Inner}
BadFrames == {BadSum \o BadSum, Oversize}
NoJunk    == {}

(* the port of the second main server is not that of the extension server  *)
TwoServers == {[addr |-> "a", port |-> 8001, extPort |-> 8001],
               [addr |-> "a", port |-> 8002, extPort |-> 8001]}
=============================================================================
