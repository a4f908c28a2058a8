---------------------------- MODULE GnssMempool ----------------------------
(***************************************************************************)
(* The relay's memory pool (transfer_server/src/gnss_mempool.c): a free    *)
(* list linked through the nodes, taken from and given back to at its head *)
(* under the pool mutex. A node is marked unused and cleared before the    *)
(* mutex is taken, so returning one is two steps. Who has a node is not    *)
(* in the pool: holds is the history of what its clients were given,       *)
(* passed on to each other and gave back.                                  *)
(***************************************************************************)
EXTENDS Naturals

CONSTANTS
  PoolSize,  (* memnode_number                                             *)
  Clients,   (* the threads that use the pool                              *)
  NULL       (* the null pointer                                           *)

(* A node is known by its index, which starts at 1. *)
Memnodes == 1 .. PoolSize

(* what the theorems assume *)
MempoolAssumption == PoolSize \in Nat \ {0} /\ NULL \notin Memnodes

VARIABLES
  in_use,                (* the flag in each node                          *)
  next,                  (* the link in each node                          *)
  current_free_memnode,  (* the head of the free list                      *)
  free_memnode_number,   (* the pool's count of free nodes                 *)
  max_used,              (* the most nodes ever out at once                *)
  holds,                 (* holds[c]: the nodes client c has               *)
  returning,             (* returning[c]: the node c is giving back        *)
  gotNull                (* gotNull[c]: c's last request returned NULL     *)

vars == <<in_use, next, current_free_memnode, free_memnode_number, max_used,
          holds, returning, gotNull>>

(* gnss_mempool_create links the nodes in the order of their indices. *)
Init ==
  /\ in_use = [n \in Memnodes |-> FALSE]
  /\ next = [n \in Memnodes |-> IF n < PoolSize THEN n + 1 ELSE NULL]
  /\ current_free_memnode = 1
  /\ free_memnode_number = PoolSize
  /\ max_used = 0
  /\ holds = [c \in Clients |-> {}]
  /\ returning = [c \in Clients |-> NULL]
  /\ gotNull = [c \in Clients |-> FALSE]

(* Mutation: the head of the free list is left as it is. *)
GetNodeKeepsHead(c) ==
  LET memnode == current_free_memnode
      used    == PoolSize - (free_memnode_number - 1)
  IN
  /\ returning[c] = NULL
  /\ memnode # NULL
  /\ free_memnode_number > 0
  /\ in_use' = [in_use EXCEPT ![memnode] = TRUE]
  /\ free_memnode_number' = free_memnode_number - 1
  /\ max_used' = IF used > max_used THEN used ELSE max_used
  /\ holds' = [holds EXCEPT ![c] = @ \cup {memnode}]
  /\ gotNull' = [gotNull EXCEPT ![c] = FALSE]
  /\ UNCHANGED <<next, current_free_memnode, returning>>

GetNode(c) ==
  LET memnode == current_free_memnode
      used    == PoolSize - (free_memnode_number - 1)
  IN
  /\ returning[c] = NULL
  /\ IF memnode = NULL
     THEN /\ gotNull' = [gotNull EXCEPT ![c] = TRUE]
          /\ UNCHANGED <<in_use, current_free_memnode, free_memnode_number,
                         max_used, holds>>
     ELSE /\ in_use' = [in_use EXCEPT ![memnode] = TRUE]
          /\ current_free_memnode' = next[memnode]
          /\ free_memnode_number' = free_memnode_number - 1
          /\ max_used' = IF used > max_used THEN used ELSE max_used
          /\ holds' = [holds EXCEPT ![c] = @ \cup {memnode}]
          /\ gotNull' = [gotNull EXCEPT ![c] = FALSE]
  /\ UNCHANGED <<next, returning>>

(* The pointer to a node goes from one client to another; the pool has no  *)
(* part in it.                                                             *)
Hand(c, d, n) ==
  /\ holds' = [holds EXCEPT ![c] = @ \ {n}, ![d] = @ \cup {n}]
  /\ UNCHANGED <<in_use, next, current_free_memnode, free_memnode_number,
                 max_used, returning, gotNull>>

(* gnss_mempool_return_node up to the lock *)
ReturnUnmark(c, n) ==
  /\ returning[c] = NULL
  /\ in_use' = [in_use EXCEPT ![n] = FALSE]
  /\ returning' = [returning EXCEPT ![c] = n]
  /\ UNCHANGED <<next, current_free_memnode, free_memnode_number, max_used,
                 holds, gotNull>>

(* Mutation: the link of the returned node is left as it was. *)
ReturnUnlinked(c) ==
  LET node == returning[c] IN
  /\ node # NULL
  /\ current_free_memnode' = node
  /\ free_memnode_number' = free_memnode_number + 1
  /\ holds' = [holds EXCEPT ![c] = @ \ {node}]
  /\ returning' = [returning EXCEPT ![c] = NULL]
  /\ UNCHANGED <<next, in_use, max_used, gotNull>>

(* gnss_mempool_return_node under the lock *)
ReturnLink(c) ==
  LET node == returning[c] IN
  /\ node # NULL
  /\ next' = [next EXCEPT ![node] = current_free_memnode]
  /\ current_free_memnode' = node
  /\ free_memnode_number' = free_memnode_number + 1
  /\ holds' = [holds EXCEPT ![c] = @ \ {node}]
  /\ returning' = [returning EXCEPT ![c] = NULL]
  /\ UNCHANGED <<in_use, max_used, gotNull>>

(* Clients return only what they have, and pass on only what they are not  *)
(* about to return.                                                        *)
Next == \E c \in Clients :
  \/ GetNode(c)
  \/ \E n \in holds[c] : ReturnUnmark(c, n)
  \/ ReturnLink(c)
  \/ \E n \in holds[c] \ {returning[c]}, d \in Clients \ {c} : Hand(c, d, n)

Spec == Init /\ [][Next]_vars

-----------------------------------------------------------------------------
FreeNodes == Memnodes \ UNION {holds[c] : c \in Clients}

TypeOK ==
  /\ in_use \in [Memnodes -> BOOLEAN]
  /\ next \in [Memnodes -> Memnodes \cup {NULL}]
  /\ current_free_memnode \in Memnodes \cup {NULL}
  /\ free_memnode_number \in 0 .. PoolSize
  /\ max_used \in 0 .. PoolSize
  /\ holds \in [Clients -> SUBSET Memnodes]
  /\ returning \in [Clients -> Memnodes \cup {NULL}]
  /\ gotNull \in [Clients -> BOOLEAN]

(* The k-th node of the free list, counted from its tail, is f[k]. *)
IsFreeList(f) ==
  /\ \A n \in FreeNodes : \E k \in 1 .. free_memnode_number : f[k] = n
  /\ \A j, k \in 1 .. free_memnode_number : f[j] = f[k] => j = k
  /\ \A k \in 1 .. free_memnode_number :
       next[f[k]] = IF k = 1 THEN NULL ELSE f[k - 1]
  /\ current_free_memnode =
       IF free_memnode_number = 0 THEN NULL ELSE f[free_memnode_number]

(* The free list runs through exactly the nodes nobody has, each once, and *)
(* ends; the count beside it is its length, and the high-water mark is at  *)
(* least what is out: no get, return or hand-over of two threads leaves a  *)
(* cycle or a lost tail behind.                                            *)
FreeListSound ==
  /\ \E f \in [1 .. free_memnode_number -> FreeNodes] : IsFreeList(f)
  /\ max_used >= PoolSize - free_memnode_number

(* The linked list implements the pool of nodes: concurrent gets and       *)
(* returns, each in its own steps, never hand one node to two clients, and *)
(* a request is refused only when every node is out.                       *)
Pool == INSTANCE NodePool WITH
  Nodes <- Memnodes, available <- FreeNodes, held <- holds, refused <- gotNull
ImplementsPool == Pool!Spec

=============================================================================
