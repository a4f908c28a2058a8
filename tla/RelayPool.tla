----------------------------- MODULE RelayPool ------------------------------
(***************************************************************************)
(* The transfer relay with its memory pool: the threads of TransferRelay   *)
(* as the clients of GnssMempool. TransferRelay takes any free node; here  *)
(* it is the head of the linked list, and a node is returned in the two    *)
(* steps the pool has for it.                                              *)
(***************************************************************************)
EXTENDS TransferRelay

ASSUME RelayPoolAssumption ==
  /\ Nodes # {}
  /\ Nodes = 1 .. Cardinality(Nodes)

VARIABLES in_use, next, current_free_memnode, free_memnode_number, max_used,
          holds, returning, gotNull

mempoolVars == <<in_use, next, current_free_memnode, free_memnode_number,
                 max_used, holds, returning, gotNull>>
allVars == <<vars, mempoolVars>>

Pool == INSTANCE GnssMempool WITH
  PoolSize <- Cardinality(Nodes), Clients <- {"reader", "sender"}

RelayInit == Init /\ Pool!Init

(* The steps of the relay that call the pool, and the pop that passes a    *)
(* node from the reader's side to the sender's.                            *)
GetsNode      == ReaderGets(current_free_memnode) /\ Pool!GetNode("reader")
DropUnmarks   == DropClear /\ Pool!ReturnUnmark("reader", items[head])
DropLinks     == DropLink /\ Pool!ReturnLink("reader")
Pops          == SenderPop /\ Pool!Hand("reader", "sender", items[head])
SenderUnmarks == SenderClear /\ Pool!ReturnUnmark("sender", snode)
SenderLinks   == SenderLink /\ Pool!ReturnLink("sender")

(* the rest of a push, and of what the sender does of its own accord *)
PushesOn == PushLock \/ DropSkip \/ PushStore \/ PushSignal
SendsOn  == SenderConnect \/ SenderWait \/ SenderWrite \/ SenderWriteFails
ReadsOn  == ReaderConnect \/ ReaderReadData \/ ReaderReadTimeout \/ ReaderReadError

Push == DropUnmarks \/ DropLinks \/ (PushesOn /\ UNCHANGED mempoolVars)
Send == Pops \/ SenderUnmarks \/ SenderLinks \/ (SendsOn /\ UNCHANGED mempoolVars)

RelayNext ==
  \/ GetsNode
  \/ Push
  \/ Send
  \/ (ReadsOn \/ SenderSpuriousWake) /\ UNCHANGED mempoolVars

RelaySpec == RelayInit /\ [][RelayNext]_allVars

(* as in TransferRelay *)
FairRelaySpec == RelaySpec /\ WF_allVars(Push) /\ WF_allVars(Send)

-----------------------------------------------------------------------------
(* The relay's idea of who has which node is the pool's: what it takes to  *)
(* be free is what the list links, the sender has the node it popped, and  *)
(* the reader's side, which returns for a push that drops, has the rest.   *)
PoolAgrees ==
  /\ free = Pool!FreeNodes
  /\ holds["sender"] = IF SenderHas THEN {snode} ELSE {}
  /\ holds["reader"] = Nodes \ (free \cup holds["sender"])
  /\ returning["reader"] = IF rpc = "link" THEN items[head] ELSE NULL
  /\ returning["sender"] = IF spc = "link" THEN snode ELSE NULL

(* GnssMempool's properties hold of the pool as the relay uses it, with    *)
(* drops and pops that return and pass on nodes in any order.              *)
FreeListSound  == Pool!TypeOK /\ Pool!FreeListSound
ImplementsPool == Pool!ImplementsPool

=============================================================================
