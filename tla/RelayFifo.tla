----------------------------- MODULE RelayFifo -----------------------------
(***************************************************************************)
(* What the transfer relay promises about the packets it carries: a        *)
(* bounded first-in first-out buffer of numbered packets that gives up its *)
(* oldest packet when it has to make room for a new one (the comment over  *)
(* gnss_queue_push in transfer_server/src/gnss_queue.c:41-44).             *)
(*                                                                         *)
(* Strict = TRUE is the promise as that comment words it: a packet is      *)
(* given up only when the buffer is full. Strict = FALSE also lets the     *)
(* buffer give one up earlier, as long as there is one.                    *)
(***************************************************************************)
EXTENDS Naturals, Sequences

CONSTANTS
  Cap,        (* the number of packets the buffer holds              *)
  Strict,     (* whether giving up a packet needs a full buffer      *)
  MaxPackets  (* bound on the number of packets that arrive          *)

VARIABLES
  q,         (* the packets held, oldest first                       *)
  accepted,  (* the number of the last packet that was put in        *)
  handed     (* the number of the last packet that was taken out     *)

fifoVars == <<q, accepted, handed>>

Init ==
  /\ q = <<>>
  /\ accepted = 0
  /\ handed = 0

(* A new packet goes in behind all others. *)
Put ==
  /\ accepted < MaxPackets
  /\ Len(q) < Cap
  /\ q' = Append(q, accepted + 1)
  /\ accepted' = accepted + 1
  /\ UNCHANGED handed

(* The oldest packet is given up to make room. *)
GiveUpOldest ==
  /\ q # <<>>
  /\ Strict => Len(q) = Cap
  /\ q' = Tail(q)
  /\ UNCHANGED <<accepted, handed>>

(* The oldest packet is handed over. *)
Take ==
  /\ q # <<>>
  /\ handed' = Head(q)
  /\ q' = Tail(q)
  /\ UNCHANGED accepted

Next == Put \/ GiveUpOldest \/ Take

Spec == Init /\ [][Next]_fifoVars

=============================================================================
