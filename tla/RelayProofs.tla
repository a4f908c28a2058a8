---------------------------- MODULE RelayProofs ----------------------------
(***************************************************************************)
(* Proofs about the transfer relay.                                        *)
(*                                                                         *)
(* The first part is about TransferRelay, for every pool, ring and number  *)
(* of packets, and rests on RelayAssumption alone. The inductive invariant *)
(* IInv adds to the properties what makes them inductive: who holds the    *)
(* queue mutex, what the ring looks like while it is held, and that the    *)
(* packets in live slots have not been cleared.                            *)
(*                                                                         *)
(* The second part shows that the relay implements RelayFifo for every     *)
(* ring, also those whose length does not divide 2^32: packets leave the   *)
(* ring in the order they came, none twice, and only the oldest is ever    *)
(* given up.                                                               *)
(*                                                                         *)
(* The third part is about RelayPool. The relay with its linked pool is    *)
(* the relay of TransferRelay, so that what is proved of that one holds of *)
(* it; its pool is used as GnssMempool says it is, so that the list stays  *)
(* sound and implements NodePool; and both agree about who has which node. *)
(***************************************************************************)
EXTENDS RelayPool, TLAPS, FunctionTheorems, FiniteSetTheorems, SequenceTheorems

(* the reader is inside gnss_queue_push's critical section *)
Pushing == rpc \in {"clear", "link", "skip", "store"}

(* The slots whose nodes still hold their packets. *)
PacketSlots ==
  IF rpc \in {"link", "skip"} THEN Filled(head, tail) \ {head}
                              ELSE Filled(head, tail)

(* The queue mutex is held across steps only by a push. *)
MutexInv == mutex = (IF Pushing THEN "reader" ELSE NULL)

(* The threads have a node exactly where the code says so. *)
HandsInv ==
  /\ rpc \in {"read", "push", "clear", "link", "skip", "store"} => rnode # NULL
  /\ rpc \in {"get", "signal", "crashed"} => rnode = NULL
  /\ SenderHas => snode # NULL

(* A frame is written on only while less than a frame has been written. *)
CountInv == spc = "write" => count < Frame

(* A push drops only from a ring that holds a packet, and stores only into *)
(* one that has room.                                                      *)
RingInv ==
  /\ rpc \in {"clear", "link", "skip"} => head # tail
  /\ rpc = "store" => Succ(tail) # head

(* What is in the ring and in the reader's hands on its way there is a     *)
(* packet, not a cleared node.                                             *)
PacketInv ==
  /\ \A i \in PacketSlots : data[items[i]] # 0
  /\ rpc \in {"push", "clear", "link", "skip", "store"} => data[rnode] # 0

IInv ==
  /\ TypeOK
  /\ MutexInv
  /\ HandsInv
  /\ CountInv
  /\ RingInv
  /\ ExclusiveOwner
  /\ NoNodeLost
  /\ PacketInv
  /\ SenderDataIntact
  /\ NoLostWakeup

-----------------------------------------------------------------------------
(* Arithmetic of the ring.                                                 *)

(* The next index is the next slot, or slot 0 after the last. *)
LEMMA SuccSlot ==
  ASSUME NEW i \in Slots
  PROVE  /\ Succ(i) \in Slots
         /\ Succ(i) = IF i = QLen - 1 THEN 0 ELSE i + 1
<1> USE RelayAssumption DEF Slots, Succ
<1>1. CASE i = QLen - 1
  <2>1. i + 1 = QLen BY <1>1
  <2>2. QLen % QLen = 0 OBVIOUS
  <2> QED BY <2>1, <2>2, <1>1
<1>2. CASE i # QLen - 1
  <2>1. i + 1 \in 1 .. QLen - 1 BY <1>2
  <2>2. (i + 1) % QLen = i + 1 BY <2>1
  <2> QED BY <2>2, <1>2
<1> QED BY <1>1, <1>2

(* Different slots have different next ones. *)
LEMMA SuccDiffers ==
  ASSUME NEW i \in Slots, NEW j \in Slots, i # j
  PROVE  Succ(i) # Succ(j)
BY SuccSlot, RelayAssumption DEF Slots

(* The remainder of 2^32 is a remainder. *)
LEMMA WrapRemType == WrapRem \in 0 .. QLen - 1
<1>1. /\ 65536 % QLen \in Nat
  BY RelayAssumption
<1>2. (65536 % QLen) * (65536 % QLen) \in Nat
  BY <1>1
<1> QED BY <1>2, RelayAssumption DEF WrapRem

(* An empty ring never looks full, whatever the wrap-around does. *)
LEMMA EmptyNeverLooksFull ==
  ASSUME NEW h \in Slots PROVE ~LooksFull(h, h)
<1>1. h + 1 - h = 1 BY DEF Slots
<1>2. 1 % QLen = 1 BY RelayAssumption
<1> QED BY <1>1, <1>2 DEF LooksFull

(* A ring with no free slot but one always looks full. *)
LEMMA FullLooksFull ==
  ASSUME NEW h \in Slots, NEW t \in Slots, Succ(t) = h
  PROVE  LooksFull(h, t)
<1>1. CASE t = QLen - 1
  <2>1. h = 0 BY <1>1, SuccSlot
  <2>2. t + 1 - h = QLen BY <1>1, <2>1, RelayAssumption
  <2>3. QLen % QLen = 0 BY RelayAssumption
  <2> QED BY <2>2, <2>3, RelayAssumption DEF LooksFull
<1>2. CASE t # QLen - 1
  <2>1. t + 1 - h = 0 BY <1>2, SuccSlot DEF Slots
  <2>2. 0 % QLen = 0 BY RelayAssumption
  <2> QED BY <2>1, <2>2 DEF LooksFull
<1> QED BY <1>1, <1>2

(* Where 2^32 is a multiple of the ring's length, only a full ring looks   *)
(* slot.                                                                   *)
LEMMA LooksFullExact ==
  ASSUME WrapRem = 0, NEW h \in Slots, NEW t \in Slots, LooksFull(h, t)
  PROVE  Held(h, t) = QLen - 1
<1> DEFINE diff == t + 1 - h
<1>0. diff \in Int /\ h \in Nat /\ t \in Nat /\ h < QLen /\ t < QLen
  BY RelayAssumption DEF Slots
<1>1. CASE diff >= 1 /\ diff <= QLen - 1
  <2>1. diff % QLen = diff BY <1>1, <1>0, RelayAssumption
  <2>2. LooksFull(h, t) <=> diff % QLen = 0 BY <1>1, <1>0 DEF LooksFull
  <2> QED BY <2>1, <2>2, <1>1
<1>2. CASE diff = 0
  BY <1>2, <1>0, RelayAssumption DEF Held
<1>3. CASE diff = QLen
  BY <1>3, <1>0, RelayAssumption DEF Held
<1>4. CASE diff < 0
  <2>1. WrapRem + QLen + diff = QLen + diff BY <1>0, RelayAssumption
  <2>2. QLen + diff \in 1 .. QLen - 1 BY <1>4, <1>0, RelayAssumption
  <2>3. (QLen + diff) % QLen = QLen + diff BY <2>2, RelayAssumption
  <2> QED BY <2>1, <2>2, <2>3, <1>4, <1>0 DEF LooksFull
<1> QED BY <1>0, <1>1, <1>2, <1>3, <1>4, RelayAssumption

(* The relay's own ring of ten looks full with three packets in it. *)
THEOREM TenLooksFullEarly ==
  ASSUME QLen = 10 PROVE LooksFull(7, 0) /\ Held(7, 0) = 3
<1>1. 65536 % 10 = 6 /\ 36 % 10 = 6 OBVIOUS
<1>2. WrapRem = 6 BY <1>1 DEF WrapRem
<1>3. WrapRem + QLen + (0 + 1 - 7) = 10 BY <1>2
<1>4. 10 % 10 = 0 OBVIOUS
<1> QED BY <1>3, <1>4 DEF LooksFull, Held

(* The filled slots are slots, never the one at tail. *)
LEMMA FilledSlots ==
  ASSUME NEW h \in Slots, NEW t \in Slots
  PROVE  /\ Filled(h, t) \subseteq Slots
         /\ t \notin Filled(h, t)
         /\ h # t => h \in Filled(h, t)
         /\ h = t => Filled(h, t) = {}
BY RelayAssumption DEF Filled, Slots

(* Skipping the head removes its slot and nothing else. *)
LEMMA FilledSkip ==
  ASSUME NEW h \in Slots, NEW t \in Slots, h # t
  PROVE  Filled(Succ(h), t) = Filled(h, t) \ {h}
BY SuccSlot, RelayAssumption DEF Filled, Slots

(* Storing at the tail adds its slot and nothing else. *)
LEMMA FilledStore ==
  ASSUME NEW h \in Slots, NEW t \in Slots, Succ(t) # h
  PROVE  Filled(h, Succ(t)) = Filled(h, t) \cup {t}
BY SuccSlot, RelayAssumption DEF Filled, Slots

-----------------------------------------------------------------------------
(* The steps.                                                              *)

LEMMA InitIInv == Init => IInv
<1> SUFFICES ASSUME Init PROVE IInv
  OBVIOUS
<1>1. 0 \in Slots /\ Filled(0, 0) = {}
  BY RelayAssumption DEF Slots, Filled
<1>2. TypeOK
  <2>1. 0 \in 0 .. MaxPackets /\ 0 \in 0 .. 3 /\ 0 \in 0 .. 2 * Frame - 1
    BY RelayAssumption
  <2> QED BY <1>1, <2>1 DEF Init, TypeOK
<1> QED
  BY <1>1, <1>2, RelayAssumption DEF Init, IInv, MutexInv, Pushing, HandsInv,
     ReaderHas, SenderHas, CountInv, RingInv, ExclusiveOwner, LiveSlots, NoNodeLost,
     PacketInv, PacketSlots, SenderDataIntact, NoLostWakeup

(* The pool gives one of its free nodes, or NULL when it has none. *)
LEMMA GetNodeCases ==
  ASSUME TypeOK, ReaderGetNode
  PROVE  /\ rpc = "get"
         /\ UNCHANGED <<data, queueVars, times, produced, senderVars>>
         /\ \/ \E n \in free : free' = free \ {n} /\ rnode' = n /\ rpc' = "read"
            \/ free = {} /\ free' = free /\ rnode' = NULL /\ rpc' = "crashed"
<1>1. PICK n \in (IF free = {} THEN {NULL} ELSE free) : ReaderGets(n)
  BY DEF ReaderGetNode
<1>2. free # {} => n \in free /\ n # NULL
  BY <1>1, RelayAssumption DEF TypeOK
<1> QED
  BY <1>1, <1>2 DEF ReaderGets

(* Types are kept: a thread has a node where it uses one, and live slots   *)
(* hold nodes.                                                             *)
LEMMA TypeStep ==
  ASSUME IInv, Next PROVE TypeOK'
<1> USE DEF poolVars, queueVars, readerVars, senderVars
<1>0. TypeOK
  BY DEF IInv
<1>1. Succ(head) \in Slots /\ Succ(tail) \in Slots
  BY <1>0, SuccSlot DEF TypeOK
<1>2. rpc \in {"clear", "link"} \/ SenderPop => items[head] \in Nodes
  <2>1. head # tail => head \in Filled(head, tail)
    BY <1>0, FilledSlots DEF TypeOK
  <2> QED
    BY <2>1, RelayAssumption DEF IInv, RingInv, ExclusiveOwner, LiveSlots,
       MutexInv, Pushing, SenderPop
<1>3. (rpc \in {"read", "store"} => rnode \in Nodes)
      /\ (spc \in {"clear", "link"} => snode \in Nodes)
  BY <1>0 DEF IInv, ExclusiveOwner, ReaderHas, SenderHas
<1>10. CASE ReaderConnect
  BY <1>0, <1>10 DEF TypeOK, ReaderConnect
<1>11. CASE ReaderGetNode
  BY <1>0, <1>11, GetNodeCases DEF TypeOK
<1>12. CASE ReaderReadData
  BY <1>0, <1>12, <1>3, RelayAssumption DEF TypeOK, ReaderReadData
<1>13. CASE ReaderReadTimeout
  BY <1>0, <1>13 DEF TypeOK, ReaderReadTimeout
<1>14. CASE ReaderReadError
  BY <1>0, <1>14 DEF TypeOK, ReaderReadError
<1>15. CASE PushLock
  BY <1>0, <1>15 DEF TypeOK, PushLock
<1>16. CASE DropClear
  BY <1>0, <1>16, <1>2, RelayAssumption DEF TypeOK, DropClear, ClearNode
<1>17. CASE DropLink
  BY <1>0, <1>17, <1>2 DEF TypeOK, DropLink, LinkNode
<1>18. CASE DropSkip
  BY <1>0, <1>18, <1>1 DEF TypeOK, DropSkip
<1>19. CASE PushStore
  BY <1>0, <1>19, <1>1, <1>3 DEF TypeOK, PushStore
<1>20. CASE PushSignal
  BY <1>0, <1>20 DEF TypeOK, PushSignal
<1>21. CASE SenderConnect
  BY <1>0, <1>21 DEF TypeOK, SenderConnect
<1>22. CASE SenderWait
  BY <1>0, <1>22 DEF TypeOK, SenderWait
<1>23. CASE SenderSpuriousWake
  BY <1>0, <1>23 DEF TypeOK, SenderSpuriousWake
<1>24. CASE SenderPop
  BY <1>0, <1>24, <1>1, <1>2, RelayAssumption DEF TypeOK, SenderPop
<1>25. CASE SenderWrite
  BY <1>0, <1>25, RelayAssumption DEF TypeOK, SenderWrite, IInv, CountInv
<1>26. CASE SenderWriteFails
  BY <1>0, <1>26, RelayAssumption DEF TypeOK, SenderWriteFails
<1>27. CASE SenderClear
  BY <1>0, <1>27, <1>3, RelayAssumption DEF TypeOK, SenderClear, ClearNode
<1>28. CASE SenderLink
  BY <1>0, <1>28, <1>3 DEF TypeOK, SenderLink, LinkNode
<1> QED
  BY <1>10, <1>11, <1>12, <1>13, <1>14, <1>15, <1>16, <1>17, <1>18, <1>19,
     <1>20, <1>21, <1>22, <1>23, <1>24, <1>25, <1>26, <1>27, <1>28 DEF Next,
     ReaderStep, ReaderPush, SenderStep

(* Steps that touch neither the pool nor the ring: the threads' own moves. *)
LEMMA QuietSteps ==
  ASSUME IInv,
         ReaderConnect \/ ReaderReadTimeout \/ ReaderReadError \/ PushSignal
         \/ SenderConnect \/ SenderWait \/ SenderSpuriousWake
         \/ SenderWrite \/ SenderWriteFails
  PROVE  IInv'
<1> USE RelayAssumption DEF poolVars, queueVars, readerVars, senderVars,
    IInv, TypeOK, MutexInv, Pushing, HandsInv, ReaderHas, SenderHas, CountInv, RingInv,
    ExclusiveOwner, LiveSlots, NoNodeLost, PacketInv, PacketSlots,
    SenderDataIntact, NoLostWakeup
<1>1. CASE ReaderConnect
  BY <1>1 DEF ReaderConnect
<1>2. CASE ReaderReadTimeout
  BY <1>2 DEF ReaderReadTimeout
<1>3. CASE ReaderReadError
  BY <1>3 DEF ReaderReadError
<1>4. CASE PushSignal
  BY <1>4 DEF PushSignal
<1>5. CASE SenderConnect
  BY <1>5 DEF SenderConnect
<1>6. CASE SenderWait
  BY <1>6 DEF SenderWait
<1>7. CASE SenderSpuriousWake
  BY <1>7 DEF SenderSpuriousWake
<1>8. CASE SenderWrite
  BY <1>8 DEF SenderWrite
<1>9. CASE SenderWriteFails
  BY <1>9 DEF SenderWriteFails
<1> QED
  BY <1>1, <1>2, <1>3, <1>4, <1>5, <1>6, <1>7, <1>8, <1>9

(* A node leaves the free list for the reader's hand. *)
LEMMA GetNodeStep ==
  ASSUME IInv, TypeOK', ReaderGetNode PROVE IInv'
<1> USE DEF poolVars, queueVars, readerVars, senderVars, IInv, TypeOK
<1>0. /\ Filled(head, tail) \subseteq Slots
      /\ tail \notin Filled(head, tail)
      /\ head # tail => head \in Filled(head, tail)
      /\ head = tail => Filled(head, tail) = {}
  BY FilledSlots
<1>1. /\ rpc = "get"
      /\ UNCHANGED <<data, queueVars, times, produced, senderVars>>
      /\ \/ \E n \in free : free' = free \ {n} /\ rnode' = n /\ rpc' = "read"
         \/ free = {} /\ free' = free /\ rnode' = NULL /\ rpc' = "crashed"
  BY GetNodeCases
<1>11. (MutexInv /\ HandsInv /\ CountInv)'
  BY <1>0, <1>1, RelayAssumption DEF MutexInv, Pushing, HandsInv, SenderHas,
     CountInv
<1>12. RingInv'
  BY <1>0, <1>1, RelayAssumption DEF RingInv
<1>13. ExclusiveOwner'
  BY <1>0, <1>1, RelayAssumption DEF ExclusiveOwner, RingInv, LiveSlots,
     ReaderHas, SenderHas, HandsInv
<1>14. NoNodeLost'
  BY <1>0, <1>1, RelayAssumption DEF NoNodeLost, LiveSlots, ReaderHas,
     SenderHas, HandsInv
<1>15. PacketInv'
  BY <1>0, <1>1, RelayAssumption DEF PacketInv, RingInv, PacketSlots,
     LiveSlots, ExclusiveOwner, ReaderHas, SenderHas, HandsInv
<1>16. (SenderDataIntact /\ NoLostWakeup)'
  BY <1>0, <1>1, RelayAssumption DEF SenderDataIntact, NoLostWakeup,
     MutexInv, Pushing, RingInv, ExclusiveOwner, LiveSlots, ReaderHas,
     SenderHas, HandsInv, PacketInv, PacketSlots
<1> QED
  BY <1>11, <1>12, <1>13, <1>14, <1>15, <1>16

(* The reader fills a node only it holds. *)
LEMMA ReadDataStep ==
  ASSUME IInv, TypeOK', ReaderReadData PROVE IInv'
<1> USE DEF poolVars, queueVars, readerVars, senderVars, IInv, TypeOK
<1>0. /\ Filled(head, tail) \subseteq Slots
      /\ tail \notin Filled(head, tail)
      /\ head # tail => head \in Filled(head, tail)
      /\ head = tail => Filled(head, tail) = {}
  BY FilledSlots
<1>11. (MutexInv /\ HandsInv /\ CountInv)'
  BY <1>0, RelayAssumption DEF ReaderReadData, MutexInv, Pushing, HandsInv,
     SenderHas, CountInv
<1>12. RingInv'
  BY <1>0, RelayAssumption DEF ReaderReadData, RingInv
<1>13. ExclusiveOwner'
  BY <1>0, RelayAssumption DEF ReaderReadData, ExclusiveOwner, RingInv,
     LiveSlots, ReaderHas, SenderHas, HandsInv
<1>14. NoNodeLost'
  BY <1>0, RelayAssumption DEF ReaderReadData, NoNodeLost, LiveSlots,
     ReaderHas, SenderHas, HandsInv
<1>15. PacketInv'
  BY <1>0, RelayAssumption DEF ReaderReadData, PacketInv, RingInv,
     PacketSlots, LiveSlots, ExclusiveOwner, ReaderHas, SenderHas, HandsInv
<1>16. (SenderDataIntact /\ NoLostWakeup)'
  BY <1>0, RelayAssumption DEF ReaderReadData, SenderDataIntact,
     NoLostWakeup, MutexInv, Pushing, RingInv, ExclusiveOwner, LiveSlots,
     ReaderHas, SenderHas, HandsInv, PacketInv, PacketSlots
<1> QED
  BY <1>11, <1>12, <1>13, <1>14, <1>15, <1>16

(* A ring that looks full is not empty, one that does not has room. *)
LEMMA PushLockStep ==
  ASSUME IInv, TypeOK', PushLock PROVE IInv'
<1> USE DEF poolVars, queueVars, readerVars, senderVars, IInv, TypeOK
<1>0. /\ Filled(head, tail) \subseteq Slots
      /\ tail \notin Filled(head, tail)
      /\ head # tail => head \in Filled(head, tail)
      /\ head = tail => Filled(head, tail) = {}
  BY FilledSlots
<1>1. head = tail => ~LooksFull(head, tail)
  BY EmptyNeverLooksFull
<1>2. Succ(tail) = head => LooksFull(head, tail)
  BY FullLooksFull
<1>11. (MutexInv /\ HandsInv /\ CountInv)'
  BY <1>0, <1>1, <1>2, RelayAssumption DEF PushLock, MutexInv, Pushing,
     HandsInv, SenderHas, CountInv
<1>12. RingInv'
  BY <1>0, <1>1, <1>2, RelayAssumption DEF PushLock, RingInv
<1>13. ExclusiveOwner'
  BY <1>0, <1>1, <1>2, RelayAssumption DEF PushLock, ExclusiveOwner,
     RingInv, LiveSlots, ReaderHas, SenderHas, HandsInv
<1>14. NoNodeLost'
  BY <1>0, <1>1, <1>2, RelayAssumption DEF PushLock, NoNodeLost, LiveSlots,
     ReaderHas, SenderHas, HandsInv
<1>15. PacketInv'
  BY <1>0, <1>1, <1>2, RelayAssumption DEF PushLock, PacketInv, RingInv,
     PacketSlots, LiveSlots, ExclusiveOwner, ReaderHas, SenderHas, HandsInv
<1>16. (SenderDataIntact /\ NoLostWakeup)'
  BY <1>0, <1>1, <1>2, RelayAssumption DEF PushLock, SenderDataIntact,
     NoLostWakeup, MutexInv, Pushing, RingInv, ExclusiveOwner, LiveSlots,
     ReaderHas, SenderHas, HandsInv, PacketInv, PacketSlots
<1> QED
  BY <1>11, <1>12, <1>13, <1>14, <1>15, <1>16

(* The head's node is cleared; nobody else has it. *)
LEMMA DropClearStep ==
  ASSUME IInv, TypeOK', DropClear PROVE IInv'
<1> USE DEF poolVars, queueVars, readerVars, senderVars, IInv, TypeOK
<1>0. /\ Filled(head, tail) \subseteq Slots
      /\ tail \notin Filled(head, tail)
      /\ head # tail => head \in Filled(head, tail)
      /\ head = tail => Filled(head, tail) = {}
  BY FilledSlots
<1>11. (MutexInv /\ HandsInv /\ CountInv)'
  BY <1>0, RelayAssumption DEF DropClear, ClearNode, MutexInv, Pushing,
     HandsInv, SenderHas, CountInv
<1>12. RingInv'
  BY <1>0, RelayAssumption DEF DropClear, ClearNode, RingInv
<1>13. ExclusiveOwner'
  BY <1>0, RelayAssumption DEF DropClear, ClearNode, ExclusiveOwner,
     RingInv, LiveSlots, ReaderHas, SenderHas, HandsInv
<1>14. NoNodeLost'
  BY <1>0, RelayAssumption DEF DropClear, ClearNode, NoNodeLost, LiveSlots,
     ReaderHas, SenderHas, HandsInv
<1>15. PacketInv'
  BY <1>0, RelayAssumption DEF DropClear, ClearNode, PacketInv, RingInv,
     PacketSlots, LiveSlots, ExclusiveOwner, ReaderHas, SenderHas, HandsInv
<1>16. (SenderDataIntact /\ NoLostWakeup)'
  BY <1>0, RelayAssumption DEF DropClear, ClearNode, SenderDataIntact,
     NoLostWakeup, MutexInv, Pushing, RingInv, ExclusiveOwner, LiveSlots,
     ReaderHas, SenderHas, HandsInv, PacketInv, PacketSlots
<1> QED
  BY <1>11, <1>12, <1>13, <1>14, <1>15, <1>16

(* The head's node goes to the free list and out of the live slots. *)
LEMMA DropLinkStep ==
  ASSUME IInv, TypeOK', DropLink PROVE IInv'
<1> USE DEF poolVars, queueVars, readerVars, senderVars, IInv, TypeOK
<1>0. /\ Filled(head, tail) \subseteq Slots
      /\ tail \notin Filled(head, tail)
      /\ head # tail => head \in Filled(head, tail)
      /\ head = tail => Filled(head, tail) = {}
  BY FilledSlots
<1>11. (MutexInv /\ HandsInv /\ CountInv)'
  BY <1>0, RelayAssumption DEF DropLink, LinkNode, MutexInv, Pushing,
     HandsInv, SenderHas, CountInv
<1>12. RingInv'
  BY <1>0, RelayAssumption DEF DropLink, LinkNode, RingInv
<1>13. ExclusiveOwner'
  BY <1>0, RelayAssumption DEF DropLink, LinkNode, ExclusiveOwner, RingInv,
     LiveSlots, ReaderHas, SenderHas, HandsInv
<1>14. NoNodeLost'
  BY <1>0, RelayAssumption DEF DropLink, LinkNode, NoNodeLost, LiveSlots,
     ReaderHas, SenderHas, HandsInv
<1>15. PacketInv'
  BY <1>0, RelayAssumption DEF DropLink, LinkNode, PacketInv, RingInv,
     PacketSlots, LiveSlots, ExclusiveOwner, ReaderHas, SenderHas, HandsInv
<1>16. (SenderDataIntact /\ NoLostWakeup)'
  BY <1>0, RelayAssumption DEF DropLink, LinkNode, SenderDataIntact,
     NoLostWakeup, MutexInv, Pushing, RingInv, ExclusiveOwner, LiveSlots,
     ReaderHas, SenderHas, HandsInv, PacketInv, PacketSlots
<1> QED
  BY <1>11, <1>12, <1>13, <1>14, <1>15, <1>16

(* The head moves past the slot that is no longer live. *)
LEMMA DropSkipStep ==
  ASSUME IInv, TypeOK', DropSkip PROVE IInv'
<1> USE DEF poolVars, queueVars, readerVars, senderVars, IInv, TypeOK
<1>0. /\ Filled(head, tail) \subseteq Slots
      /\ tail \notin Filled(head, tail)
      /\ head # tail => head \in Filled(head, tail)
      /\ head = tail => Filled(head, tail) = {}
  BY FilledSlots
<1>1. head # tail /\ Succ(head) \in Slots
  BY SuccSlot DEF DropSkip, RingInv
<1>2. Filled(Succ(head), tail) = Filled(head, tail) \ {head}
  BY <1>1, FilledSkip
<1>3. Succ(tail) # Succ(head)
  BY <1>1, SuccDiffers
<1>11. (MutexInv /\ HandsInv /\ CountInv)'
  BY <1>0, <1>1, <1>2, <1>3, RelayAssumption DEF DropSkip, MutexInv,
     Pushing, HandsInv, SenderHas, CountInv
<1>12. RingInv'
  BY <1>0, <1>1, <1>2, <1>3, RelayAssumption DEF DropSkip, RingInv
<1>13. ExclusiveOwner'
  BY <1>0, <1>1, <1>2, <1>3, RelayAssumption DEF DropSkip, ExclusiveOwner,
     RingInv, LiveSlots, ReaderHas, SenderHas, HandsInv
<1>14. NoNodeLost'
  BY <1>0, <1>1, <1>2, <1>3, RelayAssumption DEF DropSkip, NoNodeLost,
     LiveSlots, ReaderHas, SenderHas, HandsInv
<1>15. PacketInv'
  BY <1>0, <1>1, <1>2, <1>3, RelayAssumption DEF DropSkip, PacketInv,
     RingInv, PacketSlots, LiveSlots, ExclusiveOwner, ReaderHas, SenderHas,
     HandsInv
<1>16. (SenderDataIntact /\ NoLostWakeup)'
  BY <1>0, <1>1, <1>2, <1>3, RelayAssumption DEF DropSkip, SenderDataIntact,
     NoLostWakeup, MutexInv, Pushing, RingInv, ExclusiveOwner, LiveSlots,
     ReaderHas, SenderHas, HandsInv, PacketInv, PacketSlots
<1> QED
  BY <1>11, <1>12, <1>13, <1>14, <1>15, <1>16

(* The reader's node goes from its hand to the slot at tail. *)
LEMMA PushStoreStep ==
  ASSUME IInv, TypeOK', PushStore PROVE IInv'
<1> USE DEF poolVars, queueVars, readerVars, senderVars, IInv, TypeOK
<1>0. /\ Filled(head, tail) \subseteq Slots
      /\ tail \notin Filled(head, tail)
      /\ head # tail => head \in Filled(head, tail)
      /\ head = tail => Filled(head, tail) = {}
  BY FilledSlots
<1>1. Succ(tail) # head /\ Succ(tail) \in Slots
  BY SuccSlot DEF PushStore, RingInv
<1>2. Filled(head, Succ(tail)) = Filled(head, tail) \cup {tail}
  BY <1>1, FilledStore
<1>11. (MutexInv /\ HandsInv /\ CountInv)'
  BY <1>0, <1>1, <1>2, RelayAssumption DEF PushStore, MutexInv, Pushing,
     HandsInv, SenderHas, CountInv
<1>12. RingInv'
  BY <1>0, <1>1, <1>2, RelayAssumption DEF PushStore, RingInv
<1>13. ExclusiveOwner'
  BY <1>0, <1>1, <1>2, RelayAssumption DEF PushStore, ExclusiveOwner,
     RingInv, LiveSlots, ReaderHas, SenderHas, HandsInv
<1>14. NoNodeLost'
  BY <1>0, <1>1, <1>2, RelayAssumption DEF PushStore, NoNodeLost, LiveSlots,
     ReaderHas, SenderHas, HandsInv
<1>15. PacketInv'
  BY <1>0, <1>1, <1>2, RelayAssumption DEF PushStore, PacketInv, RingInv,
     PacketSlots, LiveSlots, ExclusiveOwner, ReaderHas, SenderHas, HandsInv
<1>16. (SenderDataIntact /\ NoLostWakeup)'
  BY <1>0, <1>1, <1>2, RelayAssumption DEF PushStore, SenderDataIntact,
     NoLostWakeup, MutexInv, Pushing, RingInv, ExclusiveOwner, LiveSlots,
     ReaderHas, SenderHas, HandsInv, PacketInv, PacketSlots
<1> QED
  BY <1>11, <1>12, <1>13, <1>14, <1>15, <1>16

(* The head's node goes from the ring to the sender's hand. *)
LEMMA PopStep ==
  ASSUME IInv, TypeOK', SenderPop PROVE IInv'
<1> USE DEF poolVars, queueVars, readerVars, senderVars, IInv, TypeOK
<1>0. /\ Filled(head, tail) \subseteq Slots
      /\ tail \notin Filled(head, tail)
      /\ head # tail => head \in Filled(head, tail)
      /\ head = tail => Filled(head, tail) = {}
  BY FilledSlots
<1>1. head # tail /\ Succ(head) \in Slots
  BY SuccSlot DEF SenderPop
<1>2. Filled(Succ(head), tail) = Filled(head, tail) \ {head}
  BY <1>1, FilledSkip
<1>3. rpc \notin {"clear", "link", "skip", "store"}
  BY RelayAssumption DEF SenderPop, MutexInv, Pushing
<1>11. (MutexInv /\ HandsInv /\ CountInv)'
  BY <1>0, <1>1, <1>2, <1>3, RelayAssumption DEF SenderPop, MutexInv,
     Pushing, HandsInv, SenderHas, CountInv, ExclusiveOwner, LiveSlots
<1>12. RingInv'
  BY <1>0, <1>1, <1>2, <1>3, RelayAssumption DEF SenderPop, RingInv
<1>13. ExclusiveOwner'
  BY <1>0, <1>1, <1>2, <1>3, RelayAssumption DEF SenderPop, ExclusiveOwner,
     RingInv, LiveSlots, ReaderHas, SenderHas, HandsInv
<1>14. NoNodeLost'
  BY <1>0, <1>1, <1>2, <1>3, RelayAssumption DEF SenderPop, NoNodeLost,
     LiveSlots, ReaderHas, SenderHas, HandsInv
<1>15. PacketInv'
  BY <1>0, <1>1, <1>2, <1>3, RelayAssumption DEF SenderPop, PacketInv,
     RingInv, PacketSlots, LiveSlots, ExclusiveOwner, ReaderHas, SenderHas,
     HandsInv
<1>16. (SenderDataIntact /\ NoLostWakeup)'
  BY <1>0, <1>1, <1>2, <1>3, RelayAssumption DEF SenderPop,
     SenderDataIntact, NoLostWakeup, MutexInv, Pushing, RingInv,
     ExclusiveOwner, LiveSlots, ReaderHas, SenderHas, HandsInv, PacketInv,
     PacketSlots
<1> QED
  BY <1>11, <1>12, <1>13, <1>14, <1>15, <1>16

(* The sender clears a node only it holds. *)
LEMMA SenderClearStep ==
  ASSUME IInv, TypeOK', SenderClear PROVE IInv'
<1> USE DEF poolVars, queueVars, readerVars, senderVars, IInv, TypeOK
<1>0. /\ Filled(head, tail) \subseteq Slots
      /\ tail \notin Filled(head, tail)
      /\ head # tail => head \in Filled(head, tail)
      /\ head = tail => Filled(head, tail) = {}
  BY FilledSlots
<1>11. (MutexInv /\ HandsInv /\ CountInv)'
  BY <1>0, RelayAssumption DEF SenderClear, ClearNode, MutexInv, Pushing,
     HandsInv, SenderHas, CountInv
<1>12. RingInv'
  BY <1>0, RelayAssumption DEF SenderClear, ClearNode, RingInv
<1>13. ExclusiveOwner'
  BY <1>0, RelayAssumption DEF SenderClear, ClearNode, ExclusiveOwner,
     RingInv, LiveSlots, ReaderHas, SenderHas, HandsInv
<1>14. NoNodeLost'
  BY <1>0, RelayAssumption DEF SenderClear, ClearNode, NoNodeLost,
     LiveSlots, ReaderHas, SenderHas, HandsInv
<1>15. PacketInv'
  BY <1>0, RelayAssumption DEF SenderClear, ClearNode, PacketInv, RingInv,
     PacketSlots, LiveSlots, ExclusiveOwner, ReaderHas, SenderHas, HandsInv
<1>16. (SenderDataIntact /\ NoLostWakeup)'
  BY <1>0, RelayAssumption DEF SenderClear, ClearNode, SenderDataIntact,
     NoLostWakeup, MutexInv, Pushing, RingInv, ExclusiveOwner, LiveSlots,
     ReaderHas, SenderHas, HandsInv, PacketInv, PacketSlots
<1> QED
  BY <1>11, <1>12, <1>13, <1>14, <1>15, <1>16

(* The sender's node goes to the free list. *)
LEMMA SenderLinkStep ==
  ASSUME IInv, TypeOK', SenderLink PROVE IInv'
<1> USE DEF poolVars, queueVars, readerVars, senderVars, IInv, TypeOK
<1>0. /\ Filled(head, tail) \subseteq Slots
      /\ tail \notin Filled(head, tail)
      /\ head # tail => head \in Filled(head, tail)
      /\ head = tail => Filled(head, tail) = {}
  BY FilledSlots
<1>11. (MutexInv /\ HandsInv /\ CountInv)'
  BY <1>0, RelayAssumption DEF SenderLink, LinkNode, MutexInv, Pushing,
     HandsInv, SenderHas, CountInv
<1>12. RingInv'
  BY <1>0, RelayAssumption DEF SenderLink, LinkNode, RingInv
<1>13. ExclusiveOwner'
  BY <1>0, RelayAssumption DEF SenderLink, LinkNode, ExclusiveOwner,
     RingInv, LiveSlots, ReaderHas, SenderHas, HandsInv
<1>14. NoNodeLost'
  BY <1>0, RelayAssumption DEF SenderLink, LinkNode, NoNodeLost, LiveSlots,
     ReaderHas, SenderHas, HandsInv
<1>15. PacketInv'
  BY <1>0, RelayAssumption DEF SenderLink, LinkNode, PacketInv, RingInv,
     PacketSlots, LiveSlots, ExclusiveOwner, ReaderHas, SenderHas, HandsInv
<1>16. (SenderDataIntact /\ NoLostWakeup)'
  BY <1>0, RelayAssumption DEF SenderLink, LinkNode, SenderDataIntact,
     NoLostWakeup, MutexInv, Pushing, RingInv, ExclusiveOwner, LiveSlots,
     ReaderHas, SenderHas, HandsInv, PacketInv, PacketSlots
<1> QED
  BY <1>11, <1>12, <1>13, <1>14, <1>15, <1>16

(* Every step of the two threads keeps it. *)
LEMMA StepIInv == ASSUME IInv, [Next]_vars PROVE IInv'
<1>1. CASE UNCHANGED vars
  BY <1>1 DEF vars, poolVars, queueVars, readerVars, senderVars, IInv, TypeOK,
     MutexInv, Pushing, HandsInv, ReaderHas, SenderHas, CountInv, RingInv,
     ExclusiveOwner, LiveSlots, NoNodeLost, PacketInv, PacketSlots,
     SenderDataIntact, NoLostWakeup
<1>2. Next => TypeOK'
  BY TypeStep
<1>3. CASE ReaderStep
  BY <1>2, <1>3, QuietSteps, GetNodeStep, ReadDataStep, PushLockStep,
     DropClearStep, DropLinkStep, DropSkipStep, PushStoreStep
  DEF Next, ReaderStep, ReaderPush
<1>4. CASE SenderStep
  BY <1>2, <1>4, QuietSteps, PopStep, SenderClearStep, SenderLinkStep
  DEF Next, SenderStep
<1>5. CASE SenderSpuriousWake
  BY <1>5, QuietSteps
<1> QED
  BY <1>1, <1>3, <1>4, <1>5 DEF Next

(* IInv is inductive. *)
THEOREM Invariance == Spec => []IInv
<1> QED
  BY InitIInv, StepIInv, PTL DEF Spec

-----------------------------------------------------------------------------
(* What follows from the invariant.                                        *)

(* Every variable of the relay keeps its type, for every pool and ring:    *)
(* the frame count stays below two frames, the time-out count below four.  *)
THEOREM TypeCorrect == Spec => []TypeOK
BY Invariance, PTL DEF IInv

(* No node of the pool is ever owned twice: the drop of a full push and    *)
(* the pop and return of the sender never hand out or return the same node *)
(* (gnss_queue_push, gnss_queue_pop, gnss_mempool_return_node).            *)
THEOREM Ownership == Spec => []ExclusiveOwner
BY Invariance, PTL DEF IInv

(* No node leaks, whatever writes fail and connections are made again.     *)
THEOREM NothingLeaks == Spec => []NoNodeLost
BY Invariance, PTL DEF IInv

(* The buffer the sender writes from holds the packet it popped until the  *)
(* write is over, although return_node clears a node outside the pool's    *)
(* mutex (gnss_mempool.c:102).                                             *)
THEOREM DataIntact == Spec => []SenderDataIntact
BY Invariance, PTL DEF IInv

(* Signalling after the unlock (gnss_queue.c:55-56) loses no wake-up.      *)
THEOREM WakeupKept == Spec => []NoLostWakeup
BY Invariance, PTL DEF IInv

(* Although the full test may hold early, it never holds of an empty ring, *)
(* so what a push drops is a node that is in the ring (gnss_queue.c:48).   *)
THEOREM DropSound == Spec => []DropFindsPacket
<1>1. IInv => DropFindsPacket
  BY DEF IInv, RingInv, DropFindsPacket
<1> QED
  BY <1>1, Invariance, PTL

(* Where 2^32 is a multiple of the ring's length, a push that gives up the *)
(* oldest packet has found the ring full.                                  *)
LEMMA DropOnlyWhenFullStep ==
  ASSUME WrapRem = 0, IInv, DropOnlyWhenFull, [Next]_vars
  PROVE  DropOnlyWhenFull'
<1> SUFFICES ASSUME IInv, DropOnlyWhenFull, [Next]_vars, rpc' = "clear"
             PROVE  Held(head', tail') = QLen - 1
  BY DEF DropOnlyWhenFull
<1>1. CASE PushLock
  <2>1. LooksFull(head, tail)
    BY <1>1 DEF PushLock
  <2>2. head \in Slots /\ tail \in Slots /\ head' = head /\ tail' = tail
    BY <1>1 DEF PushLock, IInv, TypeOK
  <2> QED
    BY <2>1, <2>2, LooksFullExact
<1>2. CASE ~PushLock
  <2>0. ReaderGetNode => rpc = "get" /\ rpc' # "clear"
    BY GetNodeCases DEF IInv
  <2>1. rpc = "clear" /\ mutex = "reader"
    BY <1>2, <2>0 DEF Next, ReaderStep, ReaderPush, SenderStep, ReaderConnect,
       ReaderReadData, ReaderReadTimeout, ReaderReadError,
       DropClear, DropLink, DropSkip, PushStore, PushSignal, SenderConnect,
       SenderWait, SenderPop, SenderWrite, SenderWriteFails, SenderClear,
       SenderLink, SenderSpuriousWake, vars, readerVars, IInv, MutexInv,
       Pushing
  <2>2. UNCHANGED <<head, tail>>
    BY <2>0, <2>1, RelayAssumption DEF Next, ReaderStep, ReaderPush,
       SenderStep, ReaderConnect, ReaderReadData, ReaderReadTimeout,
       ReaderReadError, PushLock, DropClear, DropLink, DropSkip, PushStore,
       PushSignal, SenderConnect, SenderWait, SenderPop, SenderWrite,
       SenderWriteFails, SenderClear, SenderLink, SenderSpuriousWake, vars,
       queueVars
  <2> QED
    BY <2>1, <2>2 DEF DropOnlyWhenFull
<1> QED
  BY <1>1, <1>2

(* When 2^32 is a multiple of the ring's length the drop of                *)
(* gnss_queue_push does what its comment says: only a full ring gives up   *)
(* its oldest packet. The relay's own ring of ten is not such a ring.      *)
THEOREM ExactRingDropsOnlyWhenFull ==
  ASSUME WrapRem = 0 PROVE Spec => []DropOnlyWhenFull
<1>1. Init => DropOnlyWhenFull
  BY DEF Init, DropOnlyWhenFull
<1> QED
  BY <1>1, DropOnlyWhenFullStep, Invariance, PTL DEF Spec

(* With one node more than the ring has slots the pool is never empty when *)
(* the reader asks for a node: the nodes in the ring's filled slots and    *)
(* the sender's node are images of the slots.                              *)
LEMMA PoolHasNode ==
  ASSUME IInv, EnoughNodes, rpc = "get" PROVE free # {}
<1> SUFFICES ASSUME free = {} PROVE FALSE
  OBVIOUS
<1> DEFINE f == [i \in Slots |-> IF i = tail THEN snode ELSE items[i]]
           Reached == {f[i] : i \in Slots}
<1>1. tail \in Slots /\ tail \notin Filled(head, tail)
      /\ Filled(head, tail) \subseteq Slots
  BY FilledSlots DEF IInv, TypeOK
<1>2. Nodes \subseteq Reached
  <2> SUFFICES ASSUME NEW n \in Nodes PROVE n \in Reached
    OBVIOUS
  <2>1. CASE \E i \in Filled(head, tail) : items[i] = n
    <3>1. PICK i \in Filled(head, tail) : items[i] = n
      BY <2>1
    <3>2. i \in Slots /\ f[i] = n
      BY <3>1, <1>1
    <3> QED
      BY <3>2
  <2>2. CASE SenderHas /\ snode = n
    <3>1. f[tail] = n
      BY <2>2, <1>1
    <3> QED
      BY <3>1, <1>1
  <2> QED
    BY <2>1, <2>2 DEF IInv, NoNodeLost, LiveSlots, ReaderHas
<1>3. IsFiniteSet(Slots) /\ Cardinality(Slots) = QLen
  <2>1. QLen - 1 \in Int /\ 0 \in Int
    BY RelayAssumption
  <2> QED
    BY <2>1, FS_Interval, RelayAssumption DEF Slots
<1>4. f \in Surjection(Slots, Reached)
  BY Fun_IsSurj
<1>5. IsFiniteSet(Reached) /\ Cardinality(Reached) <= QLen
  BY <1>3, <1>4, FS_Surjection
<1>6. Cardinality(Nodes) <= Cardinality(Reached)
  BY <1>2, <1>5, FS_Subset
<1> QED
  BY <1>3, <1>5, <1>6, FS_CardinalityType, RelayAssumption DEF EnoughNodes

(* The reader never gets NULL from the pool (transfer.c:124, 149).         *)
THEOREM ReaderLives == Spec => []ReaderAlive
<1>1. Init => ReaderAlive
  BY DEF Init, ReaderAlive
<1>2. IInv /\ ReaderAlive /\ [Next]_vars => ReaderAlive'
  <2> SUFFICES ASSUME IInv, EnoughNodes, rpc # "crashed", [Next]_vars
               PROVE  rpc' # "crashed"
    BY DEF ReaderAlive, EnoughNodes
  <2>1. CASE ReaderGetNode
    BY <2>1, GetNodeCases, PoolHasNode DEF IInv
  <2>2. CASE ~ReaderGetNode
    BY <2>2 DEF Next, ReaderStep, ReaderPush, SenderStep, ReaderConnect,
       ReaderReadData, ReaderReadTimeout, ReaderReadError, PushLock, DropClear,
       DropLink, DropSkip, PushStore, PushSignal, SenderConnect, SenderWait,
       SenderPop, SenderWrite, SenderWriteFails, SenderClear, SenderLink,
       SenderSpuriousWake, vars, readerVars
  <2> QED
    BY <2>1, <2>2
<1> QED
  BY <1>1, <1>2, Invariance, PTL DEF Spec

-----------------------------------------------------------------------------
(* The relay implements RelayFifo, for every ring, also those whose length *)
(* does not divide 2^32: packets leave the ring in the order they came,    *)
(* none twice, and only the oldest is ever given up.                       *)

(* The refinement mapping of TransferRelay, by name. *)
QueueOf(h, t, d, it) ==
  [k \in 1 .. Held(h, t) |-> d[it[(h + k - 1) % QLen]]]
Queue == QueueOf(FifoHead, tail, data, items)
Accepted == IF rpc \in {"push", "clear", "link", "skip", "store"}
            THEN produced - 1 ELSE produced

(* The packet on its way into the ring is the last one that was read.      *)
NumberInv == rpc \in {"push", "clear", "link", "skip", "store"} =>
               data[rnode] = produced /\ produced > 0

-----------------------------------------------------------------------------
(* Positions in the ring.                                                  *)

(* What the remainder does to an index less than a turn beyond the ring. *)
LEMMA Remainder ==
  ASSUME NEW x \in 0 .. 2 * QLen - 1
  PROVE  x % QLen = IF x < QLen THEN x ELSE x - QLen
<1> USE RelayAssumption
<1>1. CASE x < QLen
  BY <1>1
<1>2. CASE x >= QLen
  <2> DEFINE y == x - QLen
  <2>1. y \in 0 .. QLen - 1 /\ x = QLen + y
    BY <1>2
  <2>2. (QLen + y) % QLen = y
    BY <2>1
  <2> QED BY <2>1, <2>2
<1> QED BY <1>1, <1>2

(* The k-th filled slot from the head is k - 1 slots on. *)
LEMMA Positions ==
  ASSUME NEW h \in Slots, NEW t \in Slots
  PROVE  /\ Held(h, t) \in 0 .. QLen - 1
         /\ Held(h, t) = 0 <=> h = t
         /\ \A k \in 1 .. Held(h, t) : (h + k - 1) % QLen \in Filled(h, t)
<1> USE RelayAssumption DEF Slots, Held, Filled
<1>1. Held(h, t) \in 0 .. QLen - 1 /\ (Held(h, t) = 0 <=> h = t)
  OBVIOUS
<1>2. ASSUME NEW k \in 1 .. Held(h, t)
      PROVE  (h + k - 1) % QLen \in Filled(h, t)
  <2>1. h + k - 1 \in 0 .. 2 * QLen - 1
    BY <1>1, <1>2
  <2>2. (h + k - 1) % QLen = IF h + k - 1 < QLen THEN h + k - 1 ELSE h + k - 1 - QLen
    BY <2>1, Remainder
  <2> QED BY <2>2, <1>2
<1> QED BY <1>1, <1>2

(* Without its head the ring holds one packet less, each one place on. *)
LEMMA PositionsSkip ==
  ASSUME NEW h \in Slots, NEW t \in Slots, h # t
  PROVE  /\ Held(Succ(h), t) = Held(h, t) - 1
         /\ h % QLen = h
         /\ \A k \in 1 .. Held(h, t) - 1 :
              (Succ(h) + k - 1) % QLen = (h + (k + 1) - 1) % QLen
<1> USE RelayAssumption DEF Slots, Held
<1>1. Succ(h) = IF h = QLen - 1 THEN 0 ELSE h + 1
  BY SuccSlot
<1>2. Held(Succ(h), t) = Held(h, t) - 1
  BY <1>1
<1>3. ASSUME NEW k \in 1 .. Held(h, t) - 1
      PROVE  (Succ(h) + k - 1) % QLen = (h + (k + 1) - 1) % QLen
  <2> DEFINE x == h + (k + 1) - 1
             y == Succ(h) + k - 1
  <2>1. Held(h, t) \in 0 .. QLen - 1
    BY Positions
  <2>2. x \in 0 .. 2 * QLen - 1 /\ y \in 0 .. 2 * QLen - 1
    BY <1>1, <1>3, <2>1
  <2>3. x = h + k /\ y = IF h = QLen - 1 THEN k - 1 ELSE h + k
    BY <1>1, <1>3, <2>1
  <2> HIDE DEF x, y
  <2>4. /\ x % QLen = IF x < QLen THEN x ELSE x - QLen
        /\ y % QLen = IF y < QLen THEN y ELSE y - QLen
    BY <2>2, Remainder
  <2>5. x % QLen = y % QLen
    BY <1>3, <2>1, <2>2, <2>3, <2>4
  <2> QED BY <2>5 DEF x, y
<1>4. h % QLen = h
  BY Remainder
<1> QED BY <1>2, <1>3, <1>4

(* With one more packet the ring holds it behind the others, at the tail. *)
LEMMA PositionsStore ==
  ASSUME NEW h \in Slots, NEW t \in Slots, Succ(t) # h
  PROVE  /\ Held(h, Succ(t)) = Held(h, t) + 1
         /\ Held(h, t) < QLen - 1
         /\ (h + (Held(h, t) + 1) - 1) % QLen = t
<1> USE RelayAssumption DEF Slots, Held
<1>1. Succ(t) = IF t = QLen - 1 THEN 0 ELSE t + 1
  BY SuccSlot
<1>2. Held(h, Succ(t)) = Held(h, t) + 1 /\ Held(h, t) < QLen - 1
  BY <1>1
<1>3. h + Held(h, t) \in 0 .. 2 * QLen - 1
  OBVIOUS
<1>4. (h + Held(h, t)) % QLen = t
  BY <1>3, Remainder
<1> QED BY <1>2, <1>4

-----------------------------------------------------------------------------
(* The queue of a ring: what it is, and what the three changes do to it.   *)

(* The queue in the ring is a sequence of packets, one per filled slot. *)
LEMMA QueueType ==
  ASSUME NEW h \in Slots, NEW t \in Slots, NEW d, NEW it,
         \A i \in Filled(h, t) : d[it[i]] \in Nat
  PROVE  /\ QueueOf(h, t, d, it) \in Seq(Nat)
         /\ Len(QueueOf(h, t, d, it)) = Held(h, t)
         /\ \A k \in 1 .. Held(h, t) :
              QueueOf(h, t, d, it)[k] = d[it[(h + k - 1) % QLen]]
<1>1. Held(h, t) \in Nat
  BY Positions
<1>2. \A k \in 1 .. Held(h, t) : d[it[(h + k - 1) % QLen]] \in Nat
  BY Positions
<1>3. QueueOf(h, t, d, it) \in [1 .. Held(h, t) -> Nat]
  BY <1>2 DEF QueueOf
<1> QED
  BY <1>1, <1>3 DEF QueueOf

(* Only what the filled slots point to matters. *)
LEMMA QueueSame ==
  ASSUME NEW h \in Slots, NEW t \in Slots, NEW d, NEW it, NEW d2, NEW it2,
         \A i \in Filled(h, t) : d2[it2[i]] = d[it[i]]
  PROVE  QueueOf(h, t, d2, it2) = QueueOf(h, t, d, it)
BY Positions DEF QueueOf

(* Without its head slot the ring holds the rest of the queue. *)
LEMMA QueueTail ==
  ASSUME NEW h \in Slots, NEW t \in Slots, h # t, NEW d, NEW it,
         \A i \in Filled(h, t) : d[it[i]] \in Nat
  PROVE  /\ QueueOf(h, t, d, it) # <<>>
         /\ Head(QueueOf(h, t, d, it)) = d[it[h]]
         /\ Tail(QueueOf(h, t, d, it)) = QueueOf(Succ(h), t, d, it)
<1> DEFINE q == QueueOf(h, t, d, it)
           r == QueueOf(Succ(h), t, d, it)
<1>1. /\ q \in Seq(Nat) /\ Len(q) = Held(h, t)
      /\ \A k \in 1 .. Held(h, t) : q[k] = d[it[(h + k - 1) % QLen]]
  BY QueueType
<1>2. Succ(h) \in Slots /\ \A i \in Filled(Succ(h), t) : d[it[i]] \in Nat
  BY SuccSlot, FilledSkip
<1>3. /\ r \in Seq(Nat) /\ Len(r) = Held(Succ(h), t)
      /\ \A k \in 1 .. Held(Succ(h), t) : r[k] = d[it[(Succ(h) + k - 1) % QLen]]
  BY <1>2, QueueType
<1>4. /\ Held(Succ(h), t) = Held(h, t) - 1 /\ h % QLen = h
      /\ \A k \in 1 .. Held(h, t) - 1 :
           (Succ(h) + k - 1) % QLen = (h + (k + 1) - 1) % QLen
  BY PositionsSkip
<1>5. Held(h, t) \in 0 .. QLen - 1 /\ Held(h, t) # 0
  BY Positions
<1> HIDE DEF q, r
<1>6. q # <<>>
  BY <1>1, <1>5
<1>7. Head(q) = d[it[h]]
  <2>1. h + 1 - 1 = h
    BY DEF Slots
  <2>2. q[1] = d[it[(h + 1 - 1) % QLen]]
    BY <1>1, <1>5
  <2> QED BY <1>1, <1>4, <1>6, <2>1, <2>2
<1>8. Tail(q) = r
  <2>1. /\ Tail(q) \in Seq(Nat) /\ Len(Tail(q)) = Len(q) - 1
        /\ \A k \in 1 .. Len(Tail(q)) : Tail(q)[k] = q[k + 1]
    BY <1>1, <1>6, HeadTailProperties
  <2>2. ASSUME NEW k \in 1 .. Len(Tail(q)) PROVE Tail(q)[k] = r[k]
    <3>1. k \in 1 .. Held(h, t) - 1 /\ k + 1 \in 1 .. Held(h, t)
      BY <1>1, <1>5, <2>1, <2>2
    <3>2. q[k + 1] = d[it[(h + (k + 1) - 1) % QLen]]
      BY <1>1, <3>1
    <3>3. r[k] = d[it[(Succ(h) + k - 1) % QLen]]
      BY <1>3, <1>4, <3>1
    <3> QED BY <1>4, <2>1, <3>1, <3>2, <3>3
  <2> QED BY <1>1, <1>3, <1>4, <2>1, <2>2, SeqEqual
<1> QED
  BY <1>6, <1>7, <1>8 DEF q, r

-----------------------------------------------------------------------------
(* The steps.                                                              *)

(* The slots from the abstract head to tail are those whose nodes hold     *)
(* their packets.                                                          *)
LEMMA HeadSlot ==
  ASSUME IInv
  PROVE  /\ FifoHead \in Slots /\ tail \in Slots /\ head \in Slots
         /\ PacketSlots = Filled(FifoHead, tail)
         /\ PacketSlots \subseteq Slots
         /\ \A i \in PacketSlots : items[i] \in Nodes /\ data[items[i]] \in Nat
<1>1. FifoHead \in Slots /\ tail \in Slots /\ head \in Slots
  BY SuccSlot DEF IInv, TypeOK, FifoHead
<1>2. PacketSlots = Filled(FifoHead, tail)
  BY <1>1, FilledSkip DEF IInv, RingInv, FifoHead, PacketSlots
<1>3. ASSUME NEW i \in PacketSlots PROVE items[i] \in Nodes /\ data[items[i]] \in Nat
  <2>1. items[i] \in Nodes \cup {NULL} /\ data[items[i]] # 0
    BY <1>1, FilledSlots DEF IInv, TypeOK, PacketInv, PacketSlots
  <2>2. items[i] \in Nodes
    BY <1>1, FilledSlots DEF IInv, TypeOK, ExclusiveOwner, LiveSlots, PacketSlots
  <2> QED BY <2>2 DEF IInv, TypeOK
<1> QED
  BY <1>1, <1>2, <1>3, FilledSlots DEF PacketSlots

(* The relay starts with the empty buffer. *)
LEMMA InitFifo == Init => NumberInv /\ DropOnlyWhenFull /\ Fifo!Init
<1> SUFFICES ASSUME Init PROVE NumberInv /\ DropOnlyWhenFull /\ Fifo!Init
  OBVIOUS
<1>1. NumberInv /\ DropOnlyWhenFull
  BY DEF Init, NumberInv, DropOnlyWhenFull
<1>2. FifoHead = 0 /\ tail = 0 /\ Held(0, 0) = 0
  BY DEF Init, FifoHead, Held
<1>3. Queue = <<>>
  BY <1>2 DEF Queue, QueueOf
<1> QED
  BY <1>1, <1>3 DEF Fifo!Init, Queue, QueueOf, Init

(* Only the read gives a packet its number; the pool clears other nodes.   *)
LEMMA NumberStep ==
  ASSUME IInv, NumberInv, [Next]_vars PROVE NumberInv'
<1> USE DEF NumberInv, IInv, TypeOK, poolVars, queueVars, readerVars, senderVars
<1>1. CASE UNCHANGED vars
  BY <1>1 DEF vars
<1>2. CASE ReaderGetNode
  BY <1>2, GetNodeCases
<1>3. CASE ReaderReadData
  BY <1>3, RelayAssumption DEF ReaderReadData, HandsInv
<1>4. CASE DropClear
  <2>1. items[head] # rnode /\ rpc = "clear" /\ rnode \in Nodes
    BY <1>4, FilledSlots DEF DropClear, ExclusiveOwner, LiveSlots, ReaderHas, RingInv
  <2> QED BY <1>4, <2>1 DEF DropClear, ClearNode
<1>5. CASE SenderClear
  <2>1. rpc \in {"push", "clear", "link", "skip", "store"} => snode # rnode /\ rnode \in Nodes
    BY <1>5 DEF SenderClear, ExclusiveOwner, ReaderHas, SenderHas
  <2> QED BY <1>5, <2>1 DEF SenderClear, ClearNode
<1>6. CASE ReaderConnect \/ ReaderReadTimeout \/ ReaderReadError
  BY <1>6 DEF ReaderConnect, ReaderReadTimeout, ReaderReadError
<1>7. CASE PushLock \/ DropLink \/ DropSkip \/ PushStore \/ PushSignal
  BY <1>7 DEF PushLock, DropLink, DropSkip, PushStore, PushSignal
<1>8. CASE SenderConnect \/ SenderWait \/ SenderPop \/ SenderWrite
           \/ SenderWriteFails \/ SenderLink \/ SenderSpuriousWake
  BY <1>8 DEF SenderConnect, SenderWait, SenderPop, SenderWrite,
     SenderWriteFails, SenderLink, SenderSpuriousWake
<1> QED
  BY <1>1, <1>2, <1>3, <1>4, <1>5, <1>6, <1>7, <1>8
  DEF Next, ReaderStep, ReaderPush, SenderStep

(* Steps that leave the packets where they are leave the queue as it is. *)
LEMMA QueueKept ==
  ASSUME IInv, FifoHead' = FifoHead, tail' = tail,
         \A i \in PacketSlots : data'[items'[i]] = data[items[i]]
  PROVE  Queue' = Queue
<1>1. QueueOf(FifoHead, tail, data', items') = QueueOf(FifoHead, tail, data, items)
  BY HeadSlot, QueueSame
<1> QED
  BY <1>1 DEF Queue

(* The store of a push puts the packet at the end of the buffer. *)
LEMMA PutStep ==
  ASSUME IInv, NumberInv, PushStore
  PROVE  Fifo!Put
<1>1. /\ FifoHead = head /\ FifoHead' = head /\ head \in Slots /\ tail \in Slots
      /\ Succ(tail) # head /\ tail' = Succ(tail) /\ data' = data /\ spkt' = spkt
  BY HeadSlot DEF PushStore, FifoHead, poolVars, senderVars, IInv, RingInv
<1>2. PICK it2 : it2 = [items EXCEPT ![tail] = rnode]
  OBVIOUS
<1>3. /\ items' = it2 /\ it2[tail] = rnode
      /\ \A i \in Filled(head, tail) : it2[i] = items[i]
  BY <1>1, <1>2, FilledSlots DEF PushStore, IInv, TypeOK
<1>4. /\ data[rnode] = produced /\ produced \in 1 .. MaxPackets
      /\ produced' = produced /\ rpc = "store" /\ rpc' = "signal"
  BY RelayAssumption DEF PushStore, NumberInv, IInv, TypeOK
<1>5. /\ \A i \in Filled(head, tail) : data[items[i]] \in Nat
      /\ \A i \in Filled(head, tail) : data[it2[i]] = data[items[i]]
      /\ data[it2[tail]] = produced /\ produced \in Nat
  BY <1>1, <1>3, <1>4, HeadSlot
<1>6. /\ QueueOf(head, Succ(tail), data, it2) = Queue'
      /\ QueueOf(head, tail, data, items) = Queue
  BY <1>1, <1>3 DEF Queue
<1>7. Len(Queue) < QLen - 1 /\ Queue' = Append(Queue, produced)
  <2> DEFINE q == QueueOf(head, tail, data, items)
             r == QueueOf(head, Succ(tail), data, it2)
             n == Held(head, tail)
  <2>5. \A i \in Filled(head, Succ(tail)) : data[it2[i]] \in Nat
    BY <1>1, <1>5, FilledStore
  <2>6. /\ q \in Seq(Nat) /\ Len(q) = n
        /\ \A k \in 1 .. n : q[k] = data[items[(head + k - 1) % QLen]]
    BY <1>1, <1>5, QueueType
  <2>7. /\ r \in Seq(Nat) /\ Len(r) = Held(head, Succ(tail))
        /\ \A k \in 1 .. Held(head, Succ(tail)) :
             r[k] = data[it2[(head + k - 1) % QLen]]
    BY <1>1, <2>5, SuccSlot, QueueType
  <2>8. /\ Held(head, Succ(tail)) = n + 1 /\ n < QLen - 1 /\ n \in Nat
        /\ (head + (n + 1) - 1) % QLen = tail
        /\ \A k \in 1 .. n : (head + k - 1) % QLen \in Filled(head, tail)
    BY <1>1, Positions, PositionsStore
  <2> HIDE DEF q, r, n
  <2>9. ASSUME NEW k \in 1 .. n PROVE r[k] = q[k]
    <3> DEFINE i == (head + k - 1) % QLen
    <3>1. q[k] = data[items[i]] /\ i \in Filled(head, tail)
      BY <2>6, <2>8
    <3>2. r[k] = data[it2[i]]
      BY <2>7, <2>8
    <3> HIDE DEF i
    <3> QED
      BY <1>5, <3>1, <3>2
  <2>1. /\ q \in Seq(Nat) /\ r \in Seq(Nat) /\ Len(q) < QLen - 1
        /\ Len(r) = Len(q) + 1
        /\ \A k \in 1 .. Len(q) : r[k] = q[k]
        /\ r[Len(q) + 1] = produced
    BY <1>5, <2>6, <2>7, <2>8, <2>9
  <2>2. /\ Append(q, produced) \in Seq(Nat)
        /\ Len(Append(q, produced)) = Len(q) + 1
        /\ \A k \in 1 .. Len(q) : Append(q, produced)[k] = q[k]
        /\ Append(q, produced)[Len(q) + 1] = produced
    BY <1>5, <2>1, AppendProperties
  <2>3. \A k \in 1 .. Len(r) : r[k] = Append(q, produced)[k]
    BY <1>5, <2>1, <2>2
  <2>4. r = Append(q, produced)
    BY <2>1, <2>2, <2>3, SeqEqual
  <2> QED
    BY <1>6, <2>1, <2>4 DEF q, r
<1>8. /\ Accepted = produced - 1 /\ Accepted' = produced
      /\ Accepted < MaxPackets /\ Accepted + 1 = produced
  BY <1>4, RelayAssumption DEF Accepted
<1>9. /\ Accepted < MaxPackets /\ Len(Queue) < QLen - 1
      /\ Queue' = Append(Queue, Accepted + 1)
      /\ Accepted' = Accepted + 1 /\ spkt' = spkt
  BY <1>1, <1>7, <1>8
<1> QED
  BY <1>9 DEF Fifo!Put, Queue, QueueOf, Accepted

(* The clear of a drop gives up the oldest packet, in the strict buffer    *)
(* only a full one does.                                                   *)
LEMMA GiveUpStep ==
  ASSUME IInv, WrapRem = 0 => DropOnlyWhenFull, DropClear
  PROVE  Fifo!GiveUpOldest
<1>1. /\ rpc = "clear" /\ rpc' = "link" /\ head' = head /\ tail' = tail
      /\ items' = items /\ produced' = produced /\ spkt' = spkt
      /\ FifoHead = head /\ FifoHead' = Succ(head) /\ head # tail
      /\ head \in Slots /\ tail \in Slots /\ Succ(head) \in Slots
      /\ items[head] \in Nodes
  BY SuccSlot, FilledSlots DEF DropClear, queueVars, senderVars, FifoHead, IInv,
     TypeOK, RingInv, ExclusiveOwner, LiveSlots
<1>2. \A i \in Filled(head, tail) : items[i] \in Nodes /\ data[items[i]] \in Nat
  BY <1>1, HeadSlot
<1>3. /\ Queue # <<>> /\ Len(Queue) = Held(head, tail)
      /\ Tail(Queue) = QueueOf(Succ(head), tail, data, items)
  BY <1>1, <1>2, QueueTail, QueueType DEF Queue
<1>4. \A i \in Filled(Succ(head), tail) : data'[items[i]] = data[items[i]]
  BY <1>1, <1>2, FilledSkip, FilledSlots DEF DropClear, ClearNode, IInv, TypeOK,
     ExclusiveOwner, LiveSlots
<1>5. QueueOf(Succ(head), tail, data', items) = QueueOf(Succ(head), tail, data, items)
  BY <1>1, <1>4, QueueSame
<1>6. Queue' = Tail(Queue)
  BY <1>1, <1>3, <1>5 DEF Queue
<1>7. WrapRem = 0 => Len(Queue) = QLen - 1
  BY <1>1, <1>3 DEF DropOnlyWhenFull
<1>8. Accepted' = Accepted
  BY <1>1 DEF Accepted
<1> QED
  BY <1>1, <1>3, <1>6, <1>7, <1>8 DEF Fifo!GiveUpOldest, Queue, QueueOf, Accepted

(* The pop of the sender takes the oldest packet. *)
LEMMA TakeStep ==
  ASSUME IInv, SenderPop
  PROVE  Fifo!Take
<1>1. /\ rpc \notin {"clear", "link", "skip", "store"} /\ rpc' = rpc
      /\ head' = Succ(head) /\ tail' = tail /\ items' = items /\ data' = data
      /\ produced' = produced /\ spkt' = data[items[head]]
      /\ head # tail /\ head \in Slots /\ tail \in Slots
  BY RelayAssumption DEF SenderPop, poolVars, readerVars, IInv, TypeOK, MutexInv,
     Pushing
<1>2. FifoHead = head /\ FifoHead' = Succ(head)
  BY <1>1 DEF FifoHead
<1>3. \A i \in Filled(head, tail) : data[items[i]] \in Nat
  BY <1>1, <1>2, HeadSlot
<1>4. /\ Queue # <<>> /\ Head(Queue) = data[items[head]]
      /\ Tail(Queue) = QueueOf(Succ(head), tail, data, items)
  BY <1>1, <1>2, <1>3, QueueTail DEF Queue
<1>5. Queue' = Tail(Queue)
  BY <1>1, <1>2, <1>4 DEF Queue
<1>6. Accepted' = Accepted
  BY <1>1 DEF Accepted
<1> QED
  BY <1>1, <1>4, <1>5, <1>6 DEF Fifo!Take, Queue, QueueOf, Accepted

(* All other steps leave the queue, what was accepted and what was handed  *)
(* over as they are.                                                       *)
LEMMA StutterStep ==
  ASSUME IInv, [Next]_vars, ~PushStore, ~DropClear, ~SenderPop
  PROVE  UNCHANGED Fifo!fifoVars
<1> USE DEF poolVars, queueVars, readerVars, senderVars
<1>1. FifoHead' = FifoHead /\ tail' = tail /\ items' = items /\ spkt' = spkt
      /\ Accepted' = Accepted
  <2>1. CASE ReaderGetNode
    BY <2>1, GetNodeCases DEF IInv, FifoHead, Accepted
  <2>2. CASE ReaderConnect \/ ReaderReadTimeout \/ ReaderReadError \/ ReaderReadData
    BY <2>2 DEF ReaderConnect, ReaderReadTimeout, ReaderReadError,
       ReaderReadData, FifoHead, Accepted, IInv, TypeOK
  <2>3. CASE PushLock \/ DropLink \/ DropSkip \/ PushSignal
    BY <2>3 DEF PushLock, DropLink, DropSkip, PushSignal, FifoHead, Accepted
  <2>4. CASE SenderConnect \/ SenderWait \/ SenderWrite \/ SenderWriteFails
             \/ SenderClear \/ SenderLink \/ SenderSpuriousWake
    BY <2>4 DEF SenderConnect, SenderWait, SenderWrite, SenderWriteFails,
       SenderClear, SenderLink, SenderSpuriousWake, FifoHead, Accepted
  <2>5. CASE UNCHANGED vars
    BY <2>5 DEF vars, FifoHead, Accepted
  <2> QED
    BY <2>1, <2>2, <2>3, <2>4, <2>5 DEF Next, ReaderStep, ReaderPush, SenderStep
<1>2. \A i \in PacketSlots : data'[items'[i]] = data[items[i]]
  <2>1. PacketSlots \subseteq LiveSlots
    BY DEF PacketSlots, LiveSlots
  <2>2. CASE ReaderReadData
    BY <1>1, <2>1, <2>2, HeadSlot DEF ReaderReadData, IInv, TypeOK, ExclusiveOwner,
       ReaderHas
  <2>3. CASE SenderClear
    BY <1>1, <2>1, <2>3, HeadSlot DEF SenderClear, ClearNode, IInv, TypeOK,
       ExclusiveOwner, SenderHas
  <2>4. CASE ReaderGetNode
    BY <1>1, <2>4, GetNodeCases DEF IInv
  <2>5. CASE ~ReaderReadData /\ ~SenderClear /\ ~ReaderGetNode
    BY <1>1, <2>5 DEF Next, ReaderStep, ReaderPush, SenderStep, ReaderConnect,
       ReaderReadTimeout, ReaderReadError, PushLock, DropLink, DropSkip, PushSignal,
       SenderConnect, SenderWait, SenderWrite, SenderWriteFails, SenderLink,
       SenderSpuriousWake, vars
  <2> QED
    BY <2>2, <2>3, <2>4, <2>5
<1>3. Queue' = Queue
  BY <1>1, <1>2, QueueKept
<1> QED
  BY <1>1, <1>3 DEF Fifo!fifoVars, Queue, QueueOf, Accepted

(* The relay is a first-in first-out buffer of the packets read, for every *)
(* ring, pool and number of packets: gnss_queue_push and gnss_queue_pop    *)
(* hand each packet over at most once and in the order it was read, and    *)
(* only the oldest is ever given up; where 2^32 is a multiple of the       *)
(* ring's length only when the ring is full.                               *)
THEOREM FifoImplemented == Spec => ImplementsFifo
<1> DEFINE Inv == IInv /\ NumberInv /\ (WrapRem = 0 => DropOnlyWhenFull)
<1>1. Init => Inv /\ Fifo!Init
  BY InitIInv, InitFifo
<1>2. Inv /\ [Next]_vars => Inv'
  BY StepIInv, NumberStep, DropOnlyWhenFullStep
<1>3. Inv /\ [Next]_vars => [Fifo!Next]_(Fifo!fifoVars)
  BY PutStep, GiveUpStep, TakeStep, StutterStep DEF Fifo!Next
<1> QED
  BY <1>1, <1>2, <1>3, PTL DEF Spec, ImplementsFifo, Fifo!Spec

-----------------------------------------------------------------------------
(* The relay with its linked pool. *)

PoolProofs == INSTANCE GnssMempoolProofs WITH
  PoolSize <- Cardinality(Nodes), Clients <- {"reader", "sender"}

(* The two invariants, and that they speak of the same nodes. *)
PoolIInv == PoolProofs!IInv
BothInv == IInv /\ PoolIInv /\ PoolAgrees

(* What GnssMempoolProofs assumes of its constants holds here. *)
LEMMA PoolAssumed == PoolProofs!MempoolAssumption
  BY RelayAssumption, RelayPoolAssumption, FS_CardinalityType, FS_EmptySet
  DEF PoolProofs!MempoolAssumption, PoolProofs!Memnodes

LEMMA PoolNodes == PoolProofs!Memnodes = Nodes
  BY RelayPoolAssumption DEF PoolProofs!Memnodes

(* Both start with every node free. *)
LEMMA InitBoth == ASSUME RelayInit PROVE BothInv
<1>1. IInv
  BY InitIInv DEF RelayInit
<1>2. PoolIInv
  <2>1. PoolProofs!Init
    BY DEF RelayInit, Pool!Init, PoolProofs!Init, Pool!Memnodes, PoolProofs!Memnodes
  <2> QED
    BY <2>1, PoolAssumed, PoolProofs!InitIInv DEF PoolIInv
<1>3. PoolAgrees
  BY PoolNodes, RelayAssumption DEF RelayInit, Init, Pool!Init, PoolAgrees,
     Pool!FreeNodes, Pool!Memnodes, PoolProofs!Memnodes, SenderHas
<1> QED
  BY <1>1, <1>2, <1>3 DEF BothInv

(* The head of the list is a free node, or NULL when there is none.        *)
LEMMA GetsFree ==
  ASSUME BothInv
  PROVE  current_free_memnode \in IF free = {} THEN {NULL} ELSE free
<1>1. free = PoolProofs!FreeNodes
  BY DEF BothInv, PoolAgrees, Pool!FreeNodes, PoolProofs!FreeNodes, Pool!Memnodes,
     PoolProofs!Memnodes
<1>2. PICK f \in [1 .. free_memnode_number -> PoolProofs!FreeNodes] :
        PoolProofs!IsFreeList(f)
  BY DEF BothInv, PoolIInv, PoolProofs!IInv, PoolProofs!FreeListSound
<1>3. free_memnode_number \in Nat
  BY DEF BothInv, PoolIInv, PoolProofs!IInv, PoolProofs!TypeOK
<1> QED
  BY <1>1, <1>2, <1>3 DEF PoolProofs!IsFreeList

(* The node a drop returns or a pop passes on is the reader's side's.      *)
LEMMA HeadHeld ==
  ASSUME BothInv,
         \/ rpc \in {"clear", "link"}
         \/ spc = "pop" /\ mutex = NULL /\ head # tail
  PROVE  /\ items[head] \in Nodes \ free
         /\ SenderHas => items[head] # snode
         /\ items[head] \in holds["reader"]
<1>1. head # tail /\ rpc # "skip"
  BY RelayAssumption DEF BothInv, IInv, RingInv, MutexInv, Pushing
<1>2. head \in LiveSlots
  BY <1>1, FilledSlots DEF LiveSlots, BothInv, IInv, TypeOK
<1>3. items[head] \in Nodes \ free /\ (SenderHas => items[head] # snode)
  BY <1>2 DEF BothInv, IInv, ExclusiveOwner
<1> QED
  BY <1>3 DEF BothInv, PoolAgrees

(* A step of the relay with its pool is a step of the relay. *)
LEMMA RelayStep ==
  ASSUME BothInv, [RelayNext]_allVars PROVE [Next]_vars
<1>1. GetsNode => ReaderGetNode
  BY GetsFree DEF GetsNode, ReaderGetNode
<1> QED
  BY <1>1 DEF RelayNext, Push, Send, PushesOn, SendsOn, ReadsOn, DropUnmarks,
     DropLinks, Pops, SenderUnmarks, SenderLinks, allVars, Next, ReaderStep,
     ReaderPush, SenderStep

(* It is one of the pool, or leaves the pool alone: what a thread returns  *)
(* or passes on it has.                                                    *)
LEMMA PoolStep ==
  ASSUME BothInv, [RelayNext]_allVars
  PROVE  [PoolProofs!Next]_(PoolProofs!vars)
<1>1. holds["sender"] = IF SenderHas THEN {snode} ELSE {}
  BY DEF BothInv, PoolAgrees
<1>3. mutex = NULL => returning["reader"] = NULL
  BY RelayAssumption DEF BothInv, PoolAgrees, IInv, MutexInv, Pushing
<1>4. items \in [Slots -> Nodes \cup {NULL}] /\ head \in Slots
  BY DEF BothInv, IInv, TypeOK
<1>5. CASE GetsNode
  <2>1. PoolProofs!GetNode("reader")
    BY <1>5 DEF GetsNode, Pool!GetNode, PoolProofs!GetNode
  <2> QED
    BY <2>1 DEF PoolProofs!Next
<1>6. CASE DropUnmarks
  <2>1. /\ items[head] \in holds["reader"]
        /\ PoolProofs!ReturnUnmark("reader", items[head])
    BY <1>6, HeadHeld DEF DropUnmarks, DropClear, Pool!ReturnUnmark,
       PoolProofs!ReturnUnmark
  <2> QED
    BY <2>1 DEF PoolProofs!Next
<1>7. CASE DropLinks
  <2>1. PoolProofs!ReturnLink("reader")
    BY <1>7 DEF DropLinks, Pool!ReturnLink, PoolProofs!ReturnLink
  <2> QED
    BY <2>1 DEF PoolProofs!Next
<1>8. CASE Pops
  <2>1. items[head] \in holds["reader"] /\ returning["reader"] = NULL
    BY <1>3, <1>8, HeadHeld DEF Pops, SenderPop
  <2>2. items[head] # NULL
    BY <2>1, RelayAssumption DEF BothInv, PoolAgrees
  <2>3. PoolProofs!Hand("reader", "sender", items[head])
    BY <1>8 DEF Pops, Pool!Hand, PoolProofs!Hand
  <2> QED
    BY <2>1, <2>2, <2>3 DEF PoolProofs!Next
<1>9. CASE SenderUnmarks
  <2>1. /\ snode \in holds["sender"]
        /\ PoolProofs!ReturnUnmark("sender", snode)
    BY <1>1, <1>9 DEF SenderUnmarks, SenderClear, SenderHas, Pool!ReturnUnmark,
       PoolProofs!ReturnUnmark
  <2> QED
    BY <2>1 DEF PoolProofs!Next
<1>10. CASE SenderLinks
  <2>1. PoolProofs!ReturnLink("sender")
    BY <1>10 DEF SenderLinks, Pool!ReturnLink, PoolProofs!ReturnLink
  <2> QED
    BY <2>1 DEF PoolProofs!Next
<1>11. CASE UNCHANGED mempoolVars
  BY <1>11 DEF mempoolVars, PoolProofs!vars
<1> QED
  BY <1>5, <1>6, <1>7, <1>8, <1>9, <1>10, <1>11 DEF RelayNext, Push, Send, allVars

(* Outside the list are the nodes of the two threads. *)
LEMMA PoolFree ==
  /\ Pool!FreeNodes = Nodes \ (holds["reader"] \cup holds["sender"])
  /\ Pool!FreeNodes' = Nodes \ (holds["reader"]' \cup holds["sender"]')
  /\ PoolProofs!FreeNodes = Pool!FreeNodes
<1>1. UNION {holds[c] : c \in {"reader", "sender"}} = holds["reader"] \cup holds["sender"]
  OBVIOUS
<1>2. UNION {holds'[c] : c \in {"reader", "sender"}} = holds'["reader"] \cup holds'["sender"]
  OBVIOUS
<1> QED
  BY <1>1, <1>2, RelayPoolAssumption DEF Pool!FreeNodes, Pool!Memnodes,
     PoolProofs!FreeNodes, PoolProofs!Memnodes

(* What is free for the relay is free in the pool after every step, and    *)
(* the threads' nodes are those they are recorded to hold.                 *)
LEMMA AgreeStep ==
  ASSUME BothInv, [RelayNext]_allVars PROVE PoolAgrees'
<1> USE RelayAssumption DEF SenderHas, queueVars, readerVars, senderVars, poolVars
<1>1. /\ free \subseteq Nodes
      /\ holds["sender"] = IF SenderHas THEN {snode} ELSE {}
      /\ holds["reader"] = Nodes \ (free \cup holds["sender"])
      /\ returning["reader"] = IF rpc = "link" THEN items[head] ELSE NULL
      /\ returning["sender"] = IF spc = "link" THEN snode ELSE NULL
  BY DEF BothInv, PoolAgrees, IInv, TypeOK
<1>2. /\ DOMAIN holds = {"reader", "sender"}
      /\ DOMAIN returning = {"reader", "sender"}
  BY DEF BothInv, PoolIInv, PoolProofs!IInv, PoolProofs!TypeOK
<1>3. SenderHas => snode \in Nodes \ free
  BY DEF BothInv, IInv, ExclusiveOwner
<1>4. ASSUME /\ free' = Nodes \ (holds["reader"]' \cup holds["sender"]')
             /\ holds["sender"]' = IF SenderHas' THEN {snode'} ELSE {}
             /\ holds["reader"]' = Nodes \ (free' \cup holds["sender"]')
             /\ returning["reader"]' = IF rpc' = "link" THEN items'[head'] ELSE NULL
             /\ returning["sender"]' = IF spc' = "link" THEN snode' ELSE NULL
      PROVE  PoolAgrees'
  BY <1>4, PoolFree DEF PoolAgrees
<1>5. CASE GetsNode
  <2> DEFINE n == current_free_memnode
  <2>1. /\ rpc = "get" /\ rpc' \in {"crashed", "read"}
        /\ free' = free \ {n}
        /\ UNCHANGED <<items, head, spc, snode, returning>>
    BY <1>5 DEF GetsNode, ReaderGets, Pool!GetNode
  <2>2. CASE n = NULL
    BY <2>1, <2>2, <1>1, <1>3, <1>4, <1>5 DEF GetsNode, Pool!GetNode
  <2>3. CASE n # NULL
    <3>1. n \in free
      <4>1. ReaderGetNode
        BY <1>5, GetsFree DEF GetsNode, ReaderGetNode
      <4> QED BY <1>5, <2>3, GetsFree
    <3>2. holds' = [holds EXCEPT !["reader"] = @ \cup {n}]
      BY <1>5, <2>3 DEF GetsNode, Pool!GetNode
    <3> QED BY <2>1, <3>1, <3>2, <1>1, <1>2, <1>3, <1>4
  <2> QED BY <2>2, <2>3
<1>6. CASE DropUnmarks
  <2>1. returning' = [returning EXCEPT !["reader"] = items[head]] /\ holds' = holds
    BY <1>6 DEF DropUnmarks, Pool!ReturnUnmark
  <2>2. /\ rpc = "clear" /\ rpc' = "link"
        /\ UNCHANGED <<free, items, head, spc, snode>>
    BY <1>6 DEF DropUnmarks, DropClear
  <2> QED BY <2>1, <2>2, <1>1, <1>2, <1>3, <1>4
<1>7. CASE DropLinks
  <2>1. rpc = "link" /\ items[head] \in Nodes \ free /\ (SenderHas => items[head] # snode)
    BY <1>7, HeadHeld DEF DropLinks, DropLink
  <2>2. /\ holds' = [holds EXCEPT !["reader"] = @ \ {items[head]}]
        /\ returning' = [returning EXCEPT !["reader"] = NULL]
    BY <1>1, <1>7, <2>1 DEF DropLinks, Pool!ReturnLink
  <2>3. /\ rpc' = "skip" /\ free' = free \cup {items[head]}
        /\ UNCHANGED <<items, head, spc, snode>>
    BY <1>7 DEF DropLinks, DropLink, LinkNode
  <2> QED BY <2>1, <2>2, <2>3, <1>1, <1>2, <1>3, <1>4
<1>8. CASE Pops
  <2>1. spc = "pop" /\ mutex = NULL /\ rpc # "link" /\ items[head] \in Nodes \ free
    BY <1>8, HeadHeld DEF Pops, SenderPop, BothInv, IInv, MutexInv, Pushing
  <2>2. /\ holds' = [holds EXCEPT !["reader"] = @ \ {items[head]},
                                  !["sender"] = @ \cup {items[head]}]
        /\ returning' = returning
    BY <1>8 DEF Pops, Pool!Hand
  <2>3. spc' = "write" /\ snode' = items[head] /\ UNCHANGED <<free, rpc>>
    BY <1>8 DEF Pops, SenderPop
  <2> QED BY <2>1, <2>2, <2>3, <1>1, <1>2, <1>3, <1>4
<1>9. CASE SenderUnmarks
  <2>1. returning' = [returning EXCEPT !["sender"] = snode] /\ holds' = holds
    BY <1>9 DEF SenderUnmarks, Pool!ReturnUnmark
  <2>2. /\ spc = "clear" /\ spc' = "link"
        /\ UNCHANGED <<free, items, head, rpc, snode>>
    BY <1>9 DEF SenderUnmarks, SenderClear
  <2> QED BY <2>1, <2>2, <1>1, <1>2, <1>3, <1>4
<1>10. CASE SenderLinks
  <2>1. spc = "link" /\ spc' \in {"connect", "pop"} /\ free' = free \cup {snode}
        /\ UNCHANGED <<items, head, rpc>>
    BY <1>10 DEF SenderLinks, SenderLink, LinkNode
  <2>2. /\ holds' = [holds EXCEPT !["sender"] = @ \ {snode}]
        /\ returning' = [returning EXCEPT !["sender"] = NULL]
    BY <1>1, <1>10, <2>1 DEF SenderLinks, Pool!ReturnLink
  <2> QED BY <2>1, <2>2, <1>1, <1>2, <1>3, <1>4
<1>11. CASE UNCHANGED mempoolVars /\ (PushesOn \/ SendsOn \/ ReadsOn \/ SenderSpuriousWake
                                      \/ UNCHANGED vars)
  <2>1. UNCHANGED <<holds, returning>>
    BY <1>11 DEF mempoolVars
  <2>2. /\ free' = free /\ SenderHas' = SenderHas /\ (SenderHas => snode' = snode)
        /\ (spc' = "link") = (spc = "link")
        /\ (rpc' = "link") = (rpc = "link")
        /\ rpc = "link" => items' = items /\ head' = head
    BY <1>11 DEF PushesOn, SendsOn, ReadsOn, SenderSpuriousWake, vars, PushLock,
       DropSkip, PushStore, PushSignal, SenderConnect, SenderWait, SenderWrite,
       SenderWriteFails, ReaderConnect, ReaderReadData, ReaderReadTimeout,
       ReaderReadError
  <2> QED BY <2>1, <2>2, <1>1, <1>3, <1>4
<1> QED
  BY <1>5, <1>6, <1>7, <1>8, <1>9, <1>10, <1>11 DEF RelayNext, Push, Send, allVars

(* Every step of the composition keeps both invariants and the agreement. *)
LEMMA BothStep ==
  ASSUME BothInv, [RelayNext]_allVars PROVE BothInv'
<1>1. IInv'
  BY RelayStep, StepIInv DEF BothInv
<1>2. PoolIInv'
  BY PoolStep, PoolAssumed, PoolProofs!StepInv DEF BothInv, PoolIInv
<1> QED
  BY <1>1, <1>2, AgreeStep DEF BothInv

-----------------------------------------------------------------------------
(* The relay with its linked pool is a relay as TransferRelay has it.      *)
THEOREM PoolRefinesRelay == RelaySpec => Spec
<1>1. RelayInit => BothInv /\ Init
  BY InitBoth DEF RelayInit
<1>2. BothInv /\ [RelayNext]_allVars => BothInv' /\ [Next]_vars
  BY RelayStep, BothStep
<1> QED
  BY <1>1, <1>2, PTL DEF RelaySpec, Spec

(* So they hold in every state of the composition. *)
LEMMA BothInvariance == RelaySpec => []BothInv
<1> QED
  BY InitBoth, BothStep, PTL DEF RelaySpec

(* The relay and its pool agree, after every step, about who has a node.   *)
THEOREM Agreement == RelaySpec => []PoolAgrees
<1>1. BothInv => PoolAgrees
  BY DEF BothInv
<1> QED
  BY <1>1, BothInvariance, PTL

(* Drops, pops and returns of the two threads keep the free list sound.    *)
THEOREM FreeListKept == RelaySpec => []FreeListSound
<1>1. BothInv => FreeListSound
  BY DEF BothInv, PoolIInv, FreeListSound, PoolProofs!IInv, PoolProofs!TypeOK,
     PoolProofs!FreeListSound, PoolProofs!FreeNodes, PoolProofs!Memnodes,
     PoolProofs!IsFreeList, Pool!TypeOK, Pool!FreeListSound, Pool!FreeNodes,
     Pool!Memnodes, Pool!IsFreeList
<1> QED
  BY <1>1, BothInvariance, PTL

(* To the two threads the linked list is the pool that NodePool promises:  *)
(* a node is given to one thread at a time, and a request is refused only  *)
(* when every node is out.                                                 *)
THEOREM PoolImplemented == RelaySpec => ImplementsPool
<1>1. RelayInit => Pool!Pool!Init
  BY DEF RelayInit, Pool!Init, Pool!Pool!Init, Pool!FreeNodes
<1>2. BothInv /\ [RelayNext]_allVars => [Pool!Pool!Next]_(Pool!Pool!poolState)
  <2> SUFFICES ASSUME BothInv, [RelayNext]_allVars
               PROVE  [Pool!Pool!Next]_(Pool!Pool!poolState)
    OBVIOUS
  <2>1. [PoolProofs!Pool!Next]_(PoolProofs!Pool!poolState)
    BY PoolStep, PoolAssumed, PoolProofs!StepInv DEF BothInv, PoolIInv
  <2> QED
    BY <2>1 DEF Pool!FreeNodes, Pool!Memnodes, PoolProofs!FreeNodes,
       PoolProofs!Memnodes, Pool!Pool!Next, Pool!Pool!poolState, Pool!Pool!Acquire,
       Pool!Pool!Refuse, Pool!Pool!Release, Pool!Pool!Transfer,
       PoolProofs!Pool!Next, PoolProofs!Pool!poolState, PoolProofs!Pool!Acquire,
       PoolProofs!Pool!Refuse, PoolProofs!Pool!Release, PoolProofs!Pool!Transfer
<1> QED
  BY <1>1, <1>2, BothInvariance, PTL DEF RelaySpec, ImplementsPool,
     Pool!ImplementsPool, Pool!Pool!Spec

=============================================================================
