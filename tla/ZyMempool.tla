----------------------------- MODULE ZyMempool -----------------------------
(***************************************************************************)
(* The pool of peer nodes of the channel server                            *)
(* (tcp_channel_server/zy_mempool.c): a circular list of free nodes and a  *)
(* circular list of used ones, doubly linked through last and next, each   *)
(* with a count beside it. A pool is a record with the fields of           *)
(* zy_mempool_t; the assignments of the code, made one after the other,    *)
(* are a LET definition each.                                              *)
(***************************************************************************)
EXTENDS Naturals, FiniteSets

CONSTANTS
  PoolSize,  (* maxclient, MAX_CLIENTS in the code                         *)
  NULL       (* the null pointer                                           *)

ASSUME ZyMempoolAssumption == PoolSize \in Nat \ {0} /\ NULL \notin Nat

PoolNodes == 1 .. PoolSize

(* zy_mempool_create: every new node goes to the end of the free list *)
NewPool ==
  [ freecount |-> PoolSize, usecount |-> 0, freelist |-> 1, uselist |-> NULL,
    next |-> [n \in PoolNodes |-> IF n = PoolSize THEN 1 ELSE n + 1],
    last |-> [n \in PoolNodes |-> IF n = 1 THEN PoolSize ELSE n - 1] ]

(* n's neighbours are linked to each other; n keeps its own links. *)
Unlink(p, n) ==
  [p EXCEPT !.next[p.last[n]] = p.next[n], !.last[p.next[n]] = p.last[n]]

(* n becomes a list of its own. *)
Alone(p, n) == [p EXCEPT !.next[n] = n, !.last[n] = n]

(* n goes in before node h of a list that n is not in. *)
InsertBefore(p, n, h) ==
  LET t == p.last[h]
  IN  [p EXCEPT !.next[t] = n, !.next[n] = h, !.last[h] = n, !.last[n] = t]

(* Mutation: the node stays the head of the free list. *)
GetNodeKeepsHead(p) ==
  LET memnode == p.freelist
      taken == [p EXCEPT !.freecount = @ - 1]
      placed == IF p.usecount = 0 THEN Alone(taken, memnode)
                                  ELSE InsertBefore(taken, memnode, p.uselist)
  IN  [placed EXCEPT !.uselist = memnode, !.usecount = @ + 1]

(* zy_mempool_get_node, when freecount is at least 1: the node is the head *)
(* of the free list and becomes the head of the use list.                  *)
GetNode(p) ==
  LET memnode == p.freelist
      taken == IF p.freecount = 1
               THEN [p EXCEPT !.freecount = 0, !.freelist = NULL]
               ELSE [Unlink(p, memnode) EXCEPT !.freecount = @ - 1,
                                               !.freelist = p.next[memnode]]
      placed == IF p.usecount = 0 THEN Alone(taken, memnode)
                                  ELSE InsertBefore(taken, memnode, p.uselist)
  IN  [placed EXCEPT !.uselist = memnode, !.usecount = @ + 1]

(* Mutation: the head of the use list is left where it is. *)
ReturnNodeKeepsHead(p, usenode) ==
  LET taken == IF p.usecount = 1
               THEN [p EXCEPT !.usecount = 0, !.uselist = NULL]
               ELSE [Unlink(p, usenode) EXCEPT !.usecount = @ - 1]
      placed == IF p.freecount = 0 THEN Alone(taken, usenode)
                ELSE InsertBefore(taken, usenode, p.freelist)
  IN  [placed EXCEPT !.freelist = usenode, !.freecount = @ + 1]

(* zy_mempool_return_node: the node becomes the head of the free list *)
ReturnNode(p, usenode) ==
  LET taken == IF p.usecount = 1
               THEN [p EXCEPT !.usecount = 0, !.uselist = NULL]
               ELSE [Unlink(p, usenode) EXCEPT
                       !.usecount = @ - 1,
                       !.uselist = IF @ = usenode THEN p.next[usenode] ELSE @]
      placed == IF p.freecount = 0 THEN Alone(taken, usenode)
                ELSE InsertBefore(taken, usenode, p.freelist)
  IN  [placed EXCEPT !.freelist = usenode, !.freecount = @ + 1]

-----------------------------------------------------------------------------
(* The nodes met on a walk of k steps along next from node h. *)
Walk(p, h, k) ==
  LET nth[i \in 0 .. PoolSize] == IF i = 0 THEN h ELSE p.next[nth[i - 1]]
  IN  {nth[i] : i \in 0 .. k - 1}

FreeNodes(p) == IF p.freecount = 0 THEN {} ELSE Walk(p, p.freelist, p.freecount)
UsedNodes(p) == IF p.usecount = 0 THEN {} ELSE Walk(p, p.uselist, p.usecount)

PoolType ==
  [ freecount : 0 .. PoolSize, usecount : 0 .. PoolSize,
    freelist : PoolNodes \cup {NULL}, uselist : PoolNodes \cup {NULL},
    next : [PoolNodes -> PoolNodes], last : [PoolNodes -> PoolNodes] ]

(* A walk of count steps meets count nodes and next and last are inverse   *)
(* to each other on them: the list is a circle of that length.             *)
Circle(p, h, k, members) ==
  /\ k = 0 <=> h = NULL
  /\ Cardinality(members) = k
  /\ \A n \in members : /\ p.next[n] \in members
                        /\ p.last[p.next[n]] = n

(* Both lists are circles of the lengths counted, and every node is in     *)
(* exactly one of them.                                                    *)
PoolSound(p) ==
  /\ Circle(p, p.freelist, p.freecount, FreeNodes(p))
  /\ Circle(p, p.uselist, p.usecount, UsedNodes(p))
  /\ FreeNodes(p) \cap UsedNodes(p) = {}
  /\ FreeNodes(p) \cup UsedNodes(p) = PoolNodes

=============================================================================
