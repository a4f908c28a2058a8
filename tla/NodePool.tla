------------------------------ MODULE NodePool ------------------------------
(***************************************************************************)
(* What a pool of memory nodes promises its clients: a node is handed out  *)
(* only while it is available, to one client, and becomes available again  *)
(* only when its holder gives it back; a client gets none only when every  *)
(* node is held.                                                           *)
(***************************************************************************)
CONSTANTS
  Nodes,     (* the nodes of the pool                                      *)
  Clients    (* those who take nodes                                       *)

VARIABLES
  available, (* the nodes nobody holds                                     *)
  held,      (* held[c]: the nodes client c holds                          *)
  refused    (* refused[c]: client c was last told there is no node        *)

poolState == <<available, held, refused>>

Init ==
  /\ available = Nodes
  /\ held = [c \in Clients |-> {}]
  /\ refused = [c \in Clients |-> FALSE]

Acquire(c) == \E n \in available :
  /\ available' = available \ {n}
  /\ held' = [held EXCEPT ![c] = @ \cup {n}]
  /\ refused' = [refused EXCEPT ![c] = FALSE]

Refuse(c) ==
  /\ available = {}
  /\ refused' = [refused EXCEPT ![c] = TRUE]
  /\ UNCHANGED <<available, held>>

Release(c) == \E n \in held[c] :
  /\ available' = available \cup {n}
  /\ held' = [held EXCEPT ![c] = @ \ {n}]
  /\ UNCHANGED refused

(* A client passes a node on to another one. *)
Transfer(c, d) == \E n \in held[c] :
  /\ held' = [held EXCEPT ![c] = @ \ {n}, ![d] = @ \cup {n}]
  /\ UNCHANGED <<available, refused>>

Next == \E c \in Clients :
  \/ Acquire(c) \/ Refuse(c) \/ Release(c)
  \/ \E d \in Clients \ {c} : Transfer(c, d)

Spec == Init /\ [][Next]_poolState

=============================================================================
