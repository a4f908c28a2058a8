--------------------------- MODULE TransferRelay ---------------------------
(***************************************************************************)
(* The transfer relay (transfer_server/src): a reader thread reads packets *)
(* from the data server into nodes of a fixed pool and pushes the nodes    *)
(* into a ring; a sender thread pops them, writes each as one 40-byte      *)
(* frame to the GNSS server and returns the node to the pool.              *)
(*                                                                         *)
(* A step of a thread is what it does between two points where the other   *)
(* thread can observe it: one critical section of the pool mutex, one      *)
(* system call, one access to memory it shares without a mutex. The queue  *)
(* mutex is a variable because push holds it while it returns a node to    *)
(* the pool. The pool mutex is not: nothing is locked inside its sections, *)
(* so each of them is one step.                                            *)
(***************************************************************************)
EXTENDS Integers, Sequences, FiniteSets

CONSTANTS
  Nodes,       (* the memory nodes of the pool (20 in main)             *)
  QLen,        (* total_queue_number, the slots of the ring (10)        *)
  Frame,       (* the length of a frame, in units a write may cut (40)  *)
  MaxPackets,  (* bound on the packets the data server sends            *)
  NULL         (* the null pointer                                      *)

ASSUME RelayAssumption ==
  /\ IsFiniteSet(Nodes)
  /\ QLen \in Nat /\ QLen >= 2
  /\ Frame \in Nat \ {0}
  /\ MaxPackets \in Nat
  /\ NULL \notin Nodes
  /\ NULL # "reader"

(* main gives the pool twice as many nodes as the ring has slots; one more *)
(* than the ring has slots is what the relay needs.                        *)
EnoughNodes == Cardinality(Nodes) > QLen

VARIABLES
  free,      (* the nodes on the free list of packet_pool               *)
  data,      (* data[n]: the packet in node n, 0 when it is zeroed      *)
  items,     (* the slots of the ring; a slot keeps its old pointer     *)
  head,      (* index of the oldest packet                              *)
  tail,      (* index of the next slot to fill                          *)
  mutex,     (* the thread that holds the queue mutex, or NULL          *)
  rpc,       (* where the reader thread is                              *)
  rnode,     (* the reader's node                                       *)
  times,     (* the reader's count of read timeouts                     *)
  produced,  (* packets read from the data server so far                *)
  spc,       (* where the sender thread is                              *)
  snode,     (* the sender's node                                       *)
  spkt,      (* the packet that was in snode when it was popped         *)
  count,     (* units of the current frame written so far               *)
  failed     (* the sender's flag: a write failed                       *)

poolVars   == <<free, data>>
queueVars  == <<items, head, tail, mutex>>
readerVars == <<rpc, rnode, times, produced>>
senderVars == <<spc, snode, spkt, count, failed>>
vars == <<poolVars, queueVars, readerVars, senderVars>>

Slots == 0 .. QLen - 1

(***************************************************************************)
(* The ring. Its indices are uint32_t: a negative difference wraps modulo  *)
(* 2^32 before the remainder is taken, and 2^32 is a multiple of QLen only *)
(* when QLen is a power of two. WrapRem is 2^32 % QLen, computed with      *)
(* products that fit TLC's integers.                                       *)
(***************************************************************************)
WrapRem == ((65536 % QLen) * (65536 % QLen)) % QLen

Succ(i) == (i + 1) % QLen

(* Mutation: there is no test for a full ring. *)
NeverLooksFull(h, t) == FALSE

(* the test of gnss_queue_push for a full ring *)
LooksFull(h, t) ==
  LET diff == t + 1 - h
  IN  IF diff >= 0 THEN diff % QLen = 0
                   ELSE (WrapRem + QLen + diff) % QLen = 0

(* the slots from head up to tail, and how many they are *)
Filled(h, t) ==
  IF h <= t THEN h .. t - 1 ELSE (h .. QLen - 1) \cup (0 .. t - 1)
Held(h, t) == IF h <= t THEN t - h ELSE QLen - h + t

(***************************************************************************)
(* gnss_mempool_return_node: the node is cleared before the mutex is       *)
(* taken, and linked into the free list under it.                          *)
(***************************************************************************)
ClearNode(n) == data' = [data EXCEPT ![n] = 0]
LinkNode(n)  == free' = free \cup {n}

Init ==
  /\ free = Nodes
  /\ data = [n \in Nodes |-> 0]
  /\ items = [i \in Slots |-> NULL]
  /\ head = 0
  /\ tail = 0
  /\ mutex = NULL
  /\ rpc = "connect"
  /\ rnode = NULL
  /\ times = 0
  /\ produced = 0
  /\ spc = "connect"
  /\ snode = NULL
  /\ spkt = 0
  /\ count = 0
  /\ failed = FALSE

-----------------------------------------------------------------------------
(* The reader: connect_data_server_thread and gnss_queue_push.             *)

(* connect_data_server retries until a connection is made. *)
ReaderConnect ==
  /\ rpc = "connect"
  /\ rpc' = IF rnode = NULL THEN "get" ELSE "read"
  /\ UNCHANGED <<poolVars, queueVars, rnode, times, produced, senderVars>>

(* What gnss_mempool_get_node returned, a node or NULL, is dereferenced at *)
(* once.                                                                   *)
ReaderGets(n) ==
  /\ rpc = "get"
  /\ free' = free \ {n}
  /\ rnode' = n
  /\ rpc' = IF n = NULL THEN "crashed" ELSE "read"
  /\ UNCHANGED <<data, queueVars, times, produced, senderVars>>

(* Which of the free nodes that is, is up to the pool.                     *)
ReaderGetNode == \E n \in IF free = {} THEN {NULL} ELSE free : ReaderGets(n)

(* The read filled the node's buffer. *)
ReaderReadData ==
  /\ rpc = "read"
  /\ produced < MaxPackets
  /\ produced' = produced + 1
  /\ data' = [data EXCEPT ![rnode] = produced + 1]
  /\ rpc' = "push"
  /\ UNCHANGED <<free, queueVars, rnode, times, senderVars>>

(* Nothing came for ten seconds; the fourth such timeout reconnects. *)
ReaderReadTimeout ==
  /\ rpc = "read"
  /\ IF times + 1 > 3
     THEN times' = 0 /\ rpc' = "connect"
     ELSE times' = times + 1 /\ UNCHANGED rpc
  /\ UNCHANGED <<poolVars, queueVars, rnode, produced, senderVars>>

(* The peer closed, or the read failed: reconnect. *)
ReaderReadError ==
  /\ rpc = "read"
  /\ rpc' = "connect"
  /\ UNCHANGED <<poolVars, queueVars, rnode, times, produced, senderVars>>

(* Mutation: the dropped node is skipped but not returned to the pool. *)
PushLockLeaks ==
  /\ rpc = "push"
  /\ mutex = NULL
  /\ mutex' = "reader"
  /\ rpc' = IF LooksFull(head, tail) THEN "skip" ELSE "store"
  /\ UNCHANGED <<poolVars, items, head, tail, rnode, times, produced, senderVars>>

PushLock ==
  /\ rpc = "push"
  /\ mutex = NULL
  /\ mutex' = "reader"
  /\ rpc' = IF LooksFull(head, tail) THEN "clear" ELSE "store"
  /\ UNCHANGED <<poolVars, items, head, tail, rnode, times, produced, senderVars>>

(* The oldest node is returned to the pool in two steps, then skipped. *)
DropClear ==
  /\ rpc = "clear"
  /\ ClearNode(items[head])
  /\ rpc' = "link"
  /\ UNCHANGED <<free, queueVars, rnode, times, produced, senderVars>>

(* Mutation: the head is returned to the pool but stays the head. *)
DropLinkKeepsHead ==
  /\ rpc = "link"
  /\ LinkNode(items[head])
  /\ rpc' = "store"
  /\ UNCHANGED <<data, queueVars, rnode, times, produced, senderVars>>

DropLink ==
  /\ rpc = "link"
  /\ LinkNode(items[head])
  /\ rpc' = "skip"
  /\ UNCHANGED <<data, queueVars, rnode, times, produced, senderVars>>

DropSkip ==
  /\ rpc = "skip"
  /\ head' = Succ(head)
  /\ rpc' = "store"
  /\ UNCHANGED <<poolVars, items, tail, mutex, rnode, times, produced, senderVars>>

PushStore ==
  /\ rpc = "store"
  /\ items' = [items EXCEPT ![tail] = rnode]
  /\ tail' = Succ(tail)
  /\ mutex' = NULL
  /\ rnode' = NULL
  /\ rpc' = "signal"
  /\ UNCHANGED <<poolVars, head, times, produced, senderVars>>

(* Mutation: the condition is not signalled. *)
PushSilent ==
  /\ rpc = "signal"
  /\ rpc' = "get"
  /\ UNCHANGED <<poolVars, queueVars, rnode, times, produced, senderVars>>

(* The condition is signalled after the mutex is released. *)
PushSignal ==
  /\ rpc = "signal"
  /\ rpc' = "get"
  /\ spc' = IF spc = "wait" THEN "pop" ELSE spc
  /\ UNCHANGED <<poolVars, queueVars, rnode, times, produced, snode, spkt, count, failed>>

-----------------------------------------------------------------------------
(* The sender: connect_gnss_tcp_server_thread and gnss_queue_pop.          *)

(* connect_gnss_tcp_server retries until a connection is made. *)
SenderConnect ==
  /\ spc = "connect"
  /\ spc' = "pop"
  /\ UNCHANGED <<poolVars, queueVars, readerVars, snode, spkt, count, failed>>

(* The ring is empty: release the mutex and wait for the condition. *)
SenderWait ==
  /\ spc = "pop"
  /\ mutex = NULL
  /\ head = tail
  /\ spc' = "wait"
  /\ UNCHANGED <<poolVars, queueVars, readerVars, snode, spkt, count, failed>>

(* pthread_cond_wait may return without a signal. *)
SenderSpuriousWake ==
  /\ spc = "wait"
  /\ spc' = "pop"
  /\ UNCHANGED <<poolVars, queueVars, readerVars, snode, spkt, count, failed>>

(* Mutation: the queue mutex is not taken. *)
SenderPopUnlocked ==
  /\ spc = "pop"
  /\ head # tail
  /\ snode' = items[head]
  /\ spkt' = data[items[head]]
  /\ head' = Succ(head)
  /\ count' = 0
  /\ spc' = "write"
  /\ UNCHANGED <<poolVars, items, tail, mutex, readerVars, failed>>

SenderPop ==
  /\ spc = "pop"
  /\ mutex = NULL
  /\ head # tail
  /\ snode' = items[head]
  /\ spkt' = data[items[head]]
  /\ head' = Succ(head)
  /\ count' = 0
  /\ spc' = "write"
  /\ UNCHANGED <<poolVars, items, tail, mutex, readerVars, failed>>

(* One write of a whole frame from offset count; it may be cut short. *)
SenderWrite ==
  /\ spc = "write"
  /\ \E n \in 1 .. Frame :
       /\ count' = count + n
       /\ spc' = IF count + n < Frame THEN "write" ELSE "clear"
  /\ UNCHANGED <<poolVars, queueVars, readerVars, snode, spkt, failed>>

SenderWriteFails ==
  /\ spc = "write"
  /\ failed' = TRUE
  /\ spc' = "clear"
  /\ UNCHANGED <<poolVars, queueVars, readerVars, snode, spkt, count>>

(* The node goes back to the pool whether the frame was written or not. *)
SenderClear ==
  /\ spc = "clear"
  /\ ClearNode(snode)
  /\ spc' = "link"
  /\ UNCHANGED <<free, queueVars, readerVars, snode, spkt, count, failed>>

(* Mutation: a node whose write failed is not returned. *)
SenderLinkUnlessFailed ==
  /\ spc = "link"
  /\ free' = IF failed THEN free ELSE free \cup {snode}
  /\ snode' = NULL
  /\ spc' = IF failed THEN "connect" ELSE "pop"
  /\ failed' = FALSE
  /\ UNCHANGED <<data, queueVars, readerVars, spkt, count>>

SenderLink ==
  /\ spc = "link"
  /\ LinkNode(snode)
  /\ snode' = NULL
  /\ spc' = IF failed THEN "connect" ELSE "pop"
  /\ failed' = FALSE
  /\ UNCHANGED <<data, queueVars, readerVars, spkt, count>>

-----------------------------------------------------------------------------
ReaderPush == PushLock \/ DropClear \/ DropLink \/ DropSkip \/ PushStore \/ PushSignal

ReaderStep ==
  \/ ReaderConnect
  \/ ReaderGetNode
  \/ ReaderReadData
  \/ ReaderReadTimeout
  \/ ReaderReadError
  \/ ReaderPush

(* what the sender does of its own accord: all but a spurious wake-up *)
SenderStep ==
  \/ SenderConnect
  \/ SenderWait
  \/ SenderPop
  \/ SenderWrite
  \/ SenderWriteFails
  \/ SenderClear
  \/ SenderLink

Next == ReaderStep \/ SenderStep \/ SenderSpuriousWake

Spec == Init /\ [][Next]_vars

(* A push runs to its end once it has begun, and the sender's calls return *)
(* (its server is on the same intranet, transfer.c:169). The data server   *)
(* owes nothing: no read, and no reconnection to it, need ever succeed.    *)
FairSpec ==
  /\ Spec
  /\ WF_vars(ReaderPush)
  /\ WF_vars(SenderStep)

-----------------------------------------------------------------------------
(* Where each node is.                                                     *)

(* The slots whose nodes belong to the ring: not the head slot once the    *)
(* node in it has been linked into the free list.                          *)
LiveSlots ==
  IF rpc = "skip" THEN Filled(head, tail) \ {head} ELSE Filled(head, tail)

ReaderHas == rpc \in {"read", "push", "clear", "link", "skip", "store"}
             \/ (rpc = "connect" /\ rnode # NULL)
SenderHas == spc \in {"write", "clear", "link"}

TypeOK ==
  /\ free \subseteq Nodes
  /\ data \in [Nodes -> 0 .. MaxPackets]
  /\ items \in [Slots -> Nodes \cup {NULL}]
  /\ head \in Slots
  /\ tail \in Slots
  /\ mutex \in {NULL, "reader"}
  /\ rpc \in {"connect", "get", "read", "push", "clear", "link", "skip",
              "store", "signal", "crashed"}
  /\ rnode \in Nodes \cup {NULL}
  /\ times \in 0 .. 3
  /\ produced \in 0 .. MaxPackets
  /\ spc \in {"connect", "pop", "wait", "write", "clear", "link"}
  /\ snode \in Nodes \cup {NULL}
  /\ spkt \in 0 .. MaxPackets
  /\ count \in 0 .. 2 * Frame - 1
  /\ failed \in BOOLEAN

(* No node has two owners: the free list, each live slot of the ring, the  *)
(* reader and the sender hold different nodes, so that no node is returned *)
(* to the pool twice and none is used after it was returned, whatever the  *)
(* interleaving of a push that drops the head with the pop of the sender.  *)
ExclusiveOwner ==
  /\ \A i \in LiveSlots : items[i] \in Nodes \ free
  /\ \A i, j \in LiveSlots : items[i] = items[j] => i = j
  /\ ReaderHas => /\ rnode \in Nodes \ free
                  /\ \A i \in LiveSlots : items[i] # rnode
  /\ SenderHas => /\ snode \in Nodes \ free
                  /\ \A i \in LiveSlots : items[i] # snode
  /\ ReaderHas /\ SenderHas => rnode # snode

(* No node leaks: every node is free, in a live slot, or in the hands of   *)
(* one of the threads, also after failed writes, reconnections and drops.  *)
NoNodeLost ==
  \A n \in Nodes \ free :
    \/ \E i \in LiveSlots : items[i] = n
    \/ ReaderHas /\ rnode = n
    \/ SenderHas /\ snode = n

(* The reader never dereferences a NULL node: whenever it asks the pool    *)
(* for one, one is free, because a full ring gives up its oldest first     *)
(* (a NULL result at transfer.c:124 or 149 is used in the next line).      *)
ReaderAlive == EnoughNodes => rpc # "crashed"

(* The packet the sender writes is the one it popped: nobody refills or    *)
(* clears the buffer under it, and what it popped was a packet.            *)
SenderDataIntact == spc = "write" => data[snode] = spkt /\ spkt # 0

(* No wake-up is lost: when the sender waits and the ring holds a packet   *)
(* nobody is busy pushing, the reader has still to signal the condition,   *)
(* although it signals only after it has released the mutex.               *)
NoLostWakeup ==
  spc = "wait" /\ head # tail /\ mutex = NULL => rpc = "signal"

(* Dropping the head of an empty ring would return a node nobody put there.*)
DropFindsPacket == rpc \in {"clear", "link", "skip"} => head # tail

(* The comments over and in gnss_queue_push (gnss_queue.c:43, 47): the     *)
(* oldest packet is dropped when the ring is full.                         *)
DropOnlyWhenFull == rpc = "clear" => Held(head, tail) = QLen - 1

(* The relay as a buffer of packet numbers. *)
FifoHead == IF rpc \in {"link", "skip"} THEN Succ(head) ELSE head
Fifo == INSTANCE RelayFifo WITH
  Cap      <- QLen - 1,
  Strict   <- WrapRem = 0,
  q        <- [k \in 1 .. Held(FifoHead, tail) |->
                 data[items[(FifoHead + k - 1) % QLen]]],
  accepted <- IF rpc \in {"push", "clear", "link", "skip", "store"}
              THEN produced - 1 ELSE produced,
  handed   <- spkt

(* The relay implements the bounded first-in first-out buffer: packets are *)
(* handed to the sender in the order they were read, none twice, and none  *)
(* is missing but those given up as the oldest. The buffer is the strict   *)
(* one when 2^32 is a multiple of the ring's length.                       *)
ImplementsFifo == Fifo!Spec

(* A packet in the ring does not stay there: it is popped or given up.     *)
EventuallyLeavesRing ==
  \A i \in Slots : i \in Filled(head, tail) ~> i \notin Filled(head, tail)

(* A node the sender has taken comes back to the pool.                     *)
SenderReturnsNode == \A n \in Nodes : SenderHas /\ snode = n ~> n \in free

=============================================================================
