------------------------- MODULE GnssMempoolProofs -------------------------
(***************************************************************************)
(* Proofs about GnssMempool, for any number of nodes and any threads: the  *)
(* free list stays sound and the linked pool implements NodePool.          *)
(***************************************************************************)
EXTENDS GnssMempool, TLAPS, FiniteSetTheorems, FunctionTheorems

(* A node has one holder, and a thread returns what it holds. *)
HoldsInv ==
  /\ \A c, d \in Clients : c # d => holds[c] \cap holds[d] = {}
  /\ \A c \in Clients : returning[c] # NULL => returning[c] \in holds[c]

IInv == TypeOK /\ HoldsInv /\ FreeListSound

(* At the start every node is in the list, in the order of the indices. *)
LEMMA InitIInv == ASSUME MempoolAssumption, Init PROVE IInv
<1> USE DEF MempoolAssumption, Init, Memnodes
<1>1. TypeOK /\ HoldsInv
  BY DEF TypeOK, HoldsInv
<1>2. FreeNodes = Memnodes
  BY DEF FreeNodes
<1>3. FreeListSound
  <2> DEFINE f == [k \in 1 .. PoolSize |-> PoolSize + 1 - k]
  <2>1. f \in [1 .. free_memnode_number -> FreeNodes]
    BY <1>2
  <2>2. \A n \in FreeNodes : \E k \in 1 .. free_memnode_number : f[k] = n
    <3> SUFFICES ASSUME NEW n \in FreeNodes
                 PROVE  \E k \in 1 .. free_memnode_number : f[k] = n
      OBVIOUS
    <3>1. PoolSize + 1 - n \in 1 .. free_memnode_number /\ f[PoolSize + 1 - n] = n
      BY <1>2
    <3> QED BY <3>1
  <2>3. \A j, k \in 1 .. free_memnode_number : f[j] = f[k] => j = k
    OBVIOUS
  <2>4. \A k \in 1 .. free_memnode_number :
          next[f[k]] = IF k = 1 THEN NULL ELSE f[k - 1]
    OBVIOUS
  <2>5. current_free_memnode = f[free_memnode_number] /\ free_memnode_number # 0
    OBVIOUS
  <2>6. IsFreeList(f)
    BY <2>2, <2>3, <2>4, <2>5 DEF IsFreeList
  <2>7. max_used >= PoolSize - free_memnode_number
    OBVIOUS
  <2> QED
    BY <2>1, <2>6, <2>7 DEF FreeListSound
<1> QED
  BY <1>1, <1>3 DEF IInv

(* While some node is out the pool counts fewer free nodes than it has:    *)
(* the list maps its places one to one to nodes other than that one.       *)
LEMMA RoomForReturned ==
  ASSUME MempoolAssumption, IInv, NEW n \in Memnodes, n \notin FreeNodes
  PROVE  free_memnode_number < PoolSize
<1> DEFINE k == free_memnode_number
<1>1. PICK f \in [1 .. k -> FreeNodes] : IsFreeList(f)
  BY DEF IInv, FreeListSound
<1>2. f \in Injection(1 .. k, FreeNodes)
  BY <1>1, Fun_IsInj DEF IsFreeList
<1>3. FreeNodes \subseteq Memnodes \ {n}
  BY DEF FreeNodes
<1>4. IsFiniteSet(Memnodes) /\ Cardinality(Memnodes) = PoolSize
  BY FS_Interval DEF MempoolAssumption, Memnodes
<1>5. IsFiniteSet(1 .. k) /\ Cardinality(1 .. k) = k
  BY FS_Interval DEF IInv, TypeOK
<1>6. IsFiniteSet(Memnodes \ {n}) /\ Cardinality(Memnodes \ {n}) = PoolSize - 1
  BY <1>4, FS_RemoveElement
<1>7. IsFiniteSet(FreeNodes) /\ Cardinality(FreeNodes) <= PoolSize - 1
  BY <1>3, <1>6, FS_Subset
<1>8. Cardinality(1 .. k) <= Cardinality(FreeNodes)
  BY <1>2, <1>5, <1>7, FS_Injection
<1> QED
  BY <1>5, <1>7, <1>8, FS_CardinalityType DEF MempoolAssumption, IInv, TypeOK

(* What a get does to the set of free nodes and to the list. *)
LEMMA GetStep ==
  ASSUME MempoolAssumption, IInv, NEW c \in Clients, GetNode(c)
  PROVE  /\ IInv'
         /\ Pool!Next \/ UNCHANGED Pool!poolState
<1> USE DEF MempoolAssumption, IInv
<1> DEFINE k == free_memnode_number
           node == current_free_memnode
<1>1. PICK f \in [1 .. k -> FreeNodes] : IsFreeList(f)
  BY DEF FreeListSound
<1>2. CASE node = NULL
  <2>1. k = 0
    <3> SUFFICES ASSUME k # 0 PROVE FALSE
      OBVIOUS
    <3>1. f[k] \in Memnodes /\ node = f[k]
      BY <1>1 DEF IsFreeList, TypeOK, FreeNodes
    <3> QED BY <1>2, <3>1 DEF Memnodes
  <2>2. FreeNodes = {}
    BY <1>1, <2>1 DEF IsFreeList
  <2>3. TypeOK' /\ HoldsInv' /\ FreeNodes' = FreeNodes
    <3>1. /\ gotNull' = [gotNull EXCEPT ![c] = TRUE]
          /\ UNCHANGED <<in_use, next, current_free_memnode, max_used,
                         free_memnode_number, holds, returning>>
      BY <1>2 DEF GetNode
    <3> QED BY <3>1 DEF TypeOK, HoldsInv, FreeNodes
  <2>4. IsFreeList(f)'
    BY <1>1, <1>2, <2>3 DEF GetNode, IsFreeList
  <2>5. FreeListSound'
    <3>1. f \in [1 .. k' -> FreeNodes'] /\ k' = k /\ max_used' = max_used
      BY <1>2, <2>3 DEF GetNode
    <3> QED
      BY <2>4, <3>1 DEF FreeListSound
  <2>6. Pool!Refuse(c)
    BY <1>2, <2>2, <2>3 DEF Pool!Refuse, GetNode
  <2> QED
    BY <2>3, <2>5, <2>6 DEF Pool!Next
<1>3. CASE node # NULL
  <2>1. k \in 1 .. PoolSize /\ node = f[k] /\ node \in FreeNodes /\ node \in Memnodes
    BY <1>1, <1>3 DEF IsFreeList, TypeOK, FreeNodes
  <2>2. \A d \in Clients : node \notin holds[d]
    BY <2>1 DEF FreeNodes
  <2>3. /\ holds' = [holds EXCEPT ![c] = @ \cup {node}]
        /\ k' = k - 1 /\ next' = next /\ returning' = returning
        /\ current_free_memnode' = next[node]
        /\ gotNull' = [gotNull EXCEPT ![c] = FALSE]
        /\ returning[c] = NULL
    BY <1>3 DEF GetNode
  <2>4. FreeNodes' = FreeNodes \ {node}
    BY <2>3 DEF FreeNodes, TypeOK
  <2>5. TypeOK'
    <3>1. /\ in_use' = [in_use EXCEPT ![node] = TRUE]
          /\ max_used' \in {max_used, PoolSize - (k - 1)}
      BY <1>3 DEF GetNode
    <3>2. next[node] \in Memnodes \cup {NULL} /\ PoolSize - (k - 1) \in 0 .. PoolSize
      BY <2>1 DEF TypeOK
    <3> QED
      BY <2>1, <2>3, <3>1, <3>2 DEF TypeOK
  <2>6. HoldsInv'
    BY <2>2, <2>3 DEF HoldsInv, TypeOK
  <2>7. FreeListSound'
    <3>0. PICK g : g = [i \in 1 .. k - 1 |-> f[i]]
      OBVIOUS
    <3>1. g \in [1 .. k' -> FreeNodes']
      <4>1. \A i \in 1 .. k - 1 : f[i] \in FreeNodes /\ f[i] # f[k]
        BY <1>1, <2>1 DEF IsFreeList
      <4> QED BY <3>0, <4>1, <2>1, <2>3, <2>4
    <3>2. \A n \in FreeNodes' : \E i \in 1 .. k' : g[i] = n
      BY <3>0, <1>1, <2>1, <2>3, <2>4 DEF IsFreeList
    <3>3. \A i, j \in 1 .. k' : g[i] = g[j] => i = j
      BY <3>0, <1>1, <2>1, <2>3 DEF IsFreeList
    <3>4. \A i \in 1 .. k' : next'[g[i]] = IF i = 1 THEN NULL ELSE g[i - 1]
      BY <3>0, <1>1, <2>1, <2>3 DEF IsFreeList
    <3>5. current_free_memnode' = IF k' = 0 THEN NULL ELSE g[k']
      BY <3>0, <1>1, <2>1, <2>3 DEF IsFreeList
    <3>6. IsFreeList(g)'
      BY <3>2, <3>3, <3>4, <3>5 DEF IsFreeList
    <3>7. max_used' >= PoolSize - k'
      BY <1>3, <2>1 DEF GetNode, TypeOK
    <3> QED
      BY <3>1, <3>6, <3>7 DEF FreeListSound
  <2>8. Pool!Acquire(c)
    BY <2>1, <2>3, <2>4 DEF Pool!Acquire
  <2> QED
    BY <2>5, <2>6, <2>7, <2>8 DEF Pool!Next
<1> QED
  BY <1>2, <1>3

(* The free list is the same one as long as its length, its links, its     *)
(* head and the set of free nodes are.                                     *)
LEMMA SameList ==
  ASSUME FreeListSound, FreeNodes' = FreeNodes,
         UNCHANGED <<next, current_free_memnode, free_memnode_number, max_used>>
  PROVE  FreeListSound'
<1>1. PICK f \in [1 .. free_memnode_number -> FreeNodes] : IsFreeList(f)
  BY DEF FreeListSound
<1>2. IsFreeList(f)'
  BY <1>1 DEF IsFreeList
<1> QED
  BY <1>1, <1>2 DEF FreeListSound

(* Marking a node unused changes nothing a client of the pool can see. *)
LEMMA UnmarkStep ==
  ASSUME MempoolAssumption, IInv, NEW c \in Clients, NEW n \in holds[c],
         ReturnUnmark(c, n)
  PROVE  /\ IInv'
         /\ UNCHANGED Pool!poolState
<1> USE DEF MempoolAssumption, IInv
<1>1. TypeOK' /\ HoldsInv' /\ FreeNodes' = FreeNodes
  BY DEF ReturnUnmark, TypeOK, HoldsInv, FreeNodes
<1>2. FreeListSound'
  BY <1>1, SameList DEF ReturnUnmark
<1> QED
  BY <1>1, <1>2 DEF ReturnUnmark, Pool!poolState

(* A hand-over moves a node from one client to another. *)
LEMMA HandStep ==
  ASSUME MempoolAssumption, IInv, NEW c \in Clients, NEW d \in Clients \ {c},
         NEW n \in holds[c] \ {returning[c]}, Hand(c, d, n)
  PROVE  /\ IInv'
         /\ Pool!Next
<1> USE DEF MempoolAssumption, IInv
<1>1. holds' = [holds EXCEPT ![c] = @ \ {n}, ![d] = @ \cup {n}]
  BY DEF Hand
<1>2. TypeOK' /\ HoldsInv'
  BY <1>1 DEF Hand, TypeOK, HoldsInv
<1>3. FreeNodes' = FreeNodes
  <2>1. UNION {holds'[e] : e \in Clients} = UNION {holds[e] : e \in Clients}
    BY <1>1 DEF TypeOK
  <2> QED BY <2>1 DEF FreeNodes
<1>4. FreeListSound'
  BY <1>3, SameList DEF Hand
<1>5. Pool!Transfer(c, d)
  BY <1>1, <1>3 DEF Pool!Transfer, Hand
<1> QED
  BY <1>2, <1>4, <1>5 DEF Pool!Next

(* The returned node becomes the last one of the list, counted from its    *)
(* tail, and is free from then on.                                         *)
LEMMA LinkStep ==
  ASSUME MempoolAssumption, IInv, NEW c \in Clients, ReturnLink(c)
  PROVE  /\ IInv'
         /\ Pool!Next
<1> USE DEF MempoolAssumption, IInv
<1> DEFINE k == free_memnode_number
           node == returning[c]
<1>1. PICK f \in [1 .. k -> FreeNodes] : IsFreeList(f)
  BY DEF FreeListSound
<1>2. node \in holds[c] /\ node \in Memnodes /\ node \notin FreeNodes /\ k \in Nat
  BY DEF ReturnLink, HoldsInv, TypeOK, FreeNodes
<1>3. \A d \in Clients : node \in holds[d] => d = c
  BY <1>2 DEF HoldsInv
<1>4. /\ holds' = [holds EXCEPT ![c] = @ \ {node}]
      /\ k' = k + 1
      /\ next' = [next EXCEPT ![node] = current_free_memnode]
      /\ current_free_memnode' = node
      /\ returning' = [returning EXCEPT ![c] = NULL]
      /\ UNCHANGED <<in_use, max_used, gotNull>>
  BY DEF ReturnLink
<1>5. FreeNodes' = FreeNodes \cup {node}
  BY <1>2, <1>3, <1>4 DEF FreeNodes, TypeOK
<1>6. k < PoolSize
  BY <1>2, RoomForReturned
<1>7. TypeOK'
  BY <1>2, <1>4, <1>6 DEF TypeOK
<1>8. HoldsInv'
  BY <1>2, <1>3, <1>4 DEF HoldsInv, TypeOK
<1>9. FreeListSound'
  <2>0. PICK g : g = [i \in 1 .. k + 1 |-> IF i = k + 1 THEN node ELSE f[i]]
    OBVIOUS
  <2>1. g \in [1 .. k' -> FreeNodes']
    BY <2>0, <1>2, <1>4, <1>5
  <2>2. \A i \in 1 .. k : g[i] = f[i] /\ f[i] # node /\ f[i] \in Memnodes
    BY <2>0, <1>1, <1>2 DEF FreeNodes
  <2>3. g[k + 1] = node
    BY <2>0, <1>2
  <2>4. \A n \in FreeNodes' : \E i \in 1 .. k' : g[i] = n
    <3> SUFFICES ASSUME NEW n \in FreeNodes' PROVE \E i \in 1 .. k' : g[i] = n
      OBVIOUS
    <3>1. CASE n = node
      BY <3>1, <2>3, <1>2, <1>4
    <3>2. CASE n # node
      <4>1. PICK i \in 1 .. k : f[i] = n
        BY <3>2, <1>1, <1>5 DEF IsFreeList
      <4> QED BY <4>1, <2>2, <1>2, <1>4
    <3> QED BY <3>1, <3>2
  <2>5. \A i, j \in 1 .. k' : g[i] = g[j] => i = j
    <3>1. \A i, j \in 1 .. k : f[i] = f[j] => i = j
      BY <1>1 DEF IsFreeList
    <3>2. \A i \in 1 .. k' : i \in 1 .. k \/ i = k + 1
      BY <1>2, <1>4
    <3> QED BY <3>1, <3>2, <2>2, <2>3
  <2>6. \A i \in 1 .. k' : next'[g[i]] = IF i = 1 THEN NULL ELSE g[i - 1]
    <3> SUFFICES ASSUME NEW i \in 1 .. k'
                 PROVE  next'[g[i]] = IF i = 1 THEN NULL ELSE g[i - 1]
      OBVIOUS
    <3>1. CASE i = k + 1
      <4>1. next'[node] = current_free_memnode
        BY <1>2, <1>4 DEF TypeOK
      <4>2. current_free_memnode = IF k = 0 THEN NULL ELSE f[k]
        BY <1>1 DEF IsFreeList
      <4> QED BY <3>1, <4>1, <4>2, <2>2, <2>3, <1>2
    <3>2. CASE i # k + 1
      <4>1. i \in 1 .. k
        BY <3>2, <1>2, <1>4
      <4>2. next'[f[i]] = next[f[i]]
        BY <4>1, <2>2, <1>4 DEF TypeOK
      <4>3. next[f[i]] = IF i = 1 THEN NULL ELSE f[i - 1]
        BY <4>1, <1>1 DEF IsFreeList
      <4>4. i # 1 => g[i - 1] = f[i - 1]
        BY <4>1, <2>2, <1>2
      <4> QED BY <4>1, <4>2, <4>3, <4>4, <2>2
    <3> QED BY <3>1, <3>2
  <2>7. current_free_memnode' = IF k' = 0 THEN NULL ELSE g[k']
    BY <1>2, <1>4, <2>3
  <2>8. IsFreeList(g)'
    BY <2>4, <2>5, <2>6, <2>7 DEF IsFreeList
  <2>9. max_used' >= PoolSize - k'
    BY <1>2, <1>4 DEF FreeListSound, TypeOK
  <2> QED
    BY <2>1, <2>8, <2>9 DEF FreeListSound
<1>10. Pool!Release(c)
  BY <1>2, <1>4, <1>5 DEF Pool!Release
<1> QED
  BY <1>7, <1>8, <1>9, <1>10 DEF Pool!Next

(* Every step keeps the invariant and is a step of NodePool or a stutter. *)
LEMMA StepInv ==
  ASSUME MempoolAssumption, IInv, [Next]_vars
  PROVE  IInv' /\ [Pool!Next]_(Pool!poolState)
<1>1. CASE UNCHANGED vars
  <2>1. TypeOK' /\ HoldsInv' /\ FreeNodes' = FreeNodes
    BY <1>1 DEF IInv, TypeOK, HoldsInv, FreeNodes, vars
  <2>2. FreeListSound'
    BY <1>1, <2>1, SameList DEF IInv, vars
  <2> QED
    BY <1>1, <2>1, <2>2 DEF IInv, vars, Pool!poolState
<1>2. ASSUME NEW c \in Clients, GetNode(c)
      PROVE  IInv' /\ [Pool!Next]_(Pool!poolState)
  BY <1>2, GetStep
<1>3. ASSUME NEW c \in Clients, NEW n \in holds[c], ReturnUnmark(c, n)
      PROVE  IInv' /\ [Pool!Next]_(Pool!poolState)
  BY <1>3, UnmarkStep
<1>4. ASSUME NEW c \in Clients, ReturnLink(c)
      PROVE  IInv' /\ [Pool!Next]_(Pool!poolState)
  BY <1>4, LinkStep
<1>5. ASSUME NEW c \in Clients, NEW n \in holds[c] \ {returning[c]},
             NEW d \in Clients \ {c}, Hand(c, d, n)
      PROVE  IInv' /\ [Pool!Next]_(Pool!poolState)
  BY <1>5, HandStep
<1> QED
  BY <1>1, <1>2, <1>3, <1>4, <1>5 DEF Next

(* gnss_mempool_get_node and _return_node keep the list sound, however the *)
(* steps of the threads that call them come one after the other.           *)
THEOREM FreeListKept ==
  ASSUME MempoolAssumption PROVE Spec => [](TypeOK /\ FreeListSound)
<1>1. Init => IInv
  BY InitIInv
<1>2. IInv /\ [Next]_vars => IInv'
  BY StepInv
<1>3. IInv => TypeOK /\ FreeListSound
  BY DEF IInv
<1> QED
  BY <1>1, <1>2, <1>3, PTL DEF Spec

(* The pool of gnss_mempool.c keeps the promise of NodePool.               *)
THEOREM PoolImplemented ==
  ASSUME MempoolAssumption PROVE Spec => ImplementsPool
<1>1. Init => Pool!Init
  BY DEF Init, Pool!Init, FreeNodes
<1>2. Init => IInv
  BY InitIInv
<1>3. IInv /\ [Next]_vars => IInv' /\ [Pool!Next]_(Pool!poolState)
  BY StepInv
<1> QED
  BY <1>1, <1>2, <1>3, PTL DEF Spec, ImplementsPool, Pool!Spec

=============================================================================
