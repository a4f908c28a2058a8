--------------------------- MODULE ChannelServer ---------------------------
(***************************************************************************)
(* A channel of the TCP channel server (tcp_channel_server): what comes    *)
(* from the peers of its receiving server is written to every peer of its  *)
(* sending server. One thread runs zy_epoll_run; it waits for a batch of   *)
(* edge-triggered events and handles them one by one. The network changes  *)
(* the connections at any time.                                            *)
(*                                                                         *)
(* A descriptor is the connection it stands for, and the data that waits   *)
(* in a connection is a flag. A batch is a set: epoll reports events in    *)
(* the order they came, and they may come in any order.                    *)
(***************************************************************************)
EXTENDS ZyMempool, Sequences

CONSTANTS
  MaxConns,     (* bound on the connections clients make                   *)
  AcceptMayFail (* whether accept may fail, for want of descriptors say    *)

ASSUME ChannelAssumption == MaxConns \in Nat /\ AcceptMayFail \in BOOLEAN

(* Connections are numbered in the order in which they are made. *)
Conns == 1 .. MaxConns

Servers == {"rcv", "send"}

VARIABLES
  at,        (* at[c]: "none", "backlog", "open" or "closed" by the server *)
  life,      (* life[c]: "up", ended by the client ("fin"), or "reset"     *)
  data,      (* data[c]: c has data nobody has read                        *)
  watched,   (* the connections epoll watches                              *)
  backlog,   (* backlog[s]: the connections server s has not accepted      *)
  ready,     (* the connections with an edge that was not reported yet     *)
  knocked,   (* the servers with an edge that was not reported yet         *)
  pool,      (* pool[s]: the pool of peer nodes of server s                *)
  socket_fd, (* socket_fd[s][n]: the connection of node n, NULL for -1     *)
  batch,     (* the events still to be handled                             *)
  left,      (* the broadcast's peers still to be written to               *)
  peer,      (* the node of the next one                                   *)
  unwritten, (* the connections the broadcast has not reached yet          *)
  wild,      (* wild[s]: accept of s has used an uninitialised pointer     *)
  ended      (* zy_epoll_run has returned                                  *)

netVars  == <<at, life, data, watched, backlog, ready, knocked>>
poolVars == <<pool, socket_fd>>
castVars == <<left, peer, unwritten>>
vars == <<netVars, poolVars, batch, castVars, wild, ended>>

(* An event names a server, or a peer's node, and whether the connection   *)
(* was reset when it was reported (EPOLLERR or EPOLLHUP).                  *)
Event(s, n, hup) == <<s, n, hup>>
Listener == 0

Running == ~ended /\ \A s \in Servers : ~wild[s]

Init ==
  /\ at = [c \in Conns |-> "none"]
  /\ life = [c \in Conns |-> "up"]
  /\ data = [c \in Conns |-> FALSE]
  /\ watched = {}
  /\ backlog = [s \in Servers |-> <<>>]
  /\ ready = {}
  /\ knocked = {}
  /\ pool = [s \in Servers |-> NewPool]
  /\ socket_fd = [s \in Servers |-> [n \in PoolNodes |-> NULL]]
  /\ batch = {}
  /\ left = 0
  /\ peer = NULL
  /\ unwritten = {}
  /\ wild = [s \in Servers |-> FALSE]
  /\ ended = FALSE

-----------------------------------------------------------------------------
(* The network.                                                            *)

Connect(c, s) ==
  /\ at[c] = "none"
  /\ \A d \in 1 .. c - 1 : at[d] # "none"
  /\ at' = [at EXCEPT ![c] = "backlog"]
  /\ backlog' = [backlog EXCEPT ![s] = Append(@, c)]
  /\ knocked' = knocked \cup {s}
  /\ UNCHANGED <<life, data, watched, ready, poolVars, batch, castVars, wild, ended>>

(* What happens to a watched connection is an edge. *)
Edge(c) == ready' = IF c \in watched THEN ready \cup {c} ELSE ready

Alive(c) == at[c] \in {"backlog", "open"} /\ life[c] = "up"

DataComes(c) ==
  /\ Alive(c)
  /\ data' = [data EXCEPT ![c] = TRUE]
  /\ Edge(c)
  /\ UNCHANGED <<at, life, watched, backlog, knocked, poolVars, batch, castVars, wild, ended>>

(* The client ends the connection, or it is reset, then or later. *)
ConnectionEnds(c, how) ==
  /\ at[c] \in {"backlog", "open"}
  /\ life[c] = "up" \/ (life[c] = "fin" /\ how = "reset")
  /\ life' = [life EXCEPT ![c] = how]
  /\ Edge(c)
  /\ UNCHANGED <<at, data, watched, backlog, knocked, poolVars, batch, castVars, wild, ended>>

(* What happens after the server has ended is left out. *)
Network == Running /\ \E c \in Conns :
  \/ \E s \in Servers : Connect(c, s)
  \/ DataComes(c)
  \/ \E how \in {"fin", "reset"} : ConnectionEnds(c, how)

-----------------------------------------------------------------------------
(* zy_epoll_run                                                            *)

Readable(c) == data[c] \/ life[c] # "up"

(* What epoll_wait reports: every edge that still means something. *)
Reported ==
  LET peers == {x \in Servers \X PoolNodes :
                  \E c \in ready : socket_fd[x[1]][x[2]] = c /\ Readable(c)}
  IN
  {Event(s, Listener, FALSE) : s \in {t \in knocked : backlog[t] # <<>>}}
    \cup {Event(x[1], x[2], life[socket_fd[x[1]][x[2]]] = "reset") : x \in peers}

EpollWait ==
  /\ Running /\ batch = {} /\ left = 0
  /\ batch' = Reported
  /\ batch' # {}
  /\ ready' = {}
  /\ knocked' = {}
  /\ UNCHANGED <<at, life, data, watched, backlog, poolVars, castVars, wild, ended>>

(* epoll_wait is interrupted while it has nothing to report: the loop      *)
(* ends, and the server with it.                                           *)
EpollFails ==
  /\ Running /\ batch = {} /\ left = 0
  /\ Reported = {}
  /\ ended' = TRUE
  /\ UNCHANGED <<netVars, poolVars, batch, castVars, wild>>

Handling(e) == Running /\ left = 0 /\ e \in batch /\ batch' = batch \ {e}

-----------------------------------------------------------------------------
(* zy_tcpserver_accept                                                     *)

(* accept itself fails: the connection stays where it is. *)
AcceptFails(s) ==
  /\ AcceptMayFail
  /\ Handling(Event(s, Listener, FALSE))
  /\ UNCHANGED <<netVars, poolVars, castVars, wild, ended>>

(* One connection gets a node and is watched, unless epoll_ctl fails; an   *)
(* edge is due at once when there is something to read.                    *)
Accept(s) ==
  LET c == Head(backlog[s])
      n == pool[s].freelist
  IN
  /\ Handling(Event(s, Listener, FALSE))
  /\ backlog[s] # <<>>
  /\ pool[s].freecount >= 1
  /\ backlog' = [backlog EXCEPT ![s] = Tail(@)]
  /\ at' = [at EXCEPT ![c] = "open"]
  /\ pool' = [pool EXCEPT ![s] = GetNode(@)]
  /\ socket_fd' = [socket_fd EXCEPT ![s][n] = c]
  /\ \/ /\ watched' = watched \cup {c}
        /\ ready' = IF Readable(c) THEN ready \cup {c} ELSE ready
     \/ UNCHANGED <<watched, ready>>
  /\ UNCHANGED <<life, data, knocked, castVars, wild, ended>>

(* The pool is empty and its answer is not looked at: client is an         *)
(* uninitialised pointer. Nothing is said of what follows.                 *)
AcceptWild(s) ==
  /\ Handling(Event(s, Listener, FALSE))
  /\ backlog[s] # <<>>
  /\ pool[s].freecount = 0
  /\ wild' = [wild EXCEPT ![s] = TRUE]
  /\ UNCHANGED <<netVars, poolVars, castVars, ended>>

-----------------------------------------------------------------------------
(* zy_tcpserver_msg_handle                                                 *)

(* Mutation: epoll goes on watching a descriptor that was closed. *)
CloseWatched(c) ==
  /\ at' = [at EXCEPT ![c] = "closed"]
  /\ watched' = watched \ {c}
  /\ data' = [data EXCEPT ![c] = FALSE]
  /\ UNCHANGED ready

Close(c) ==
  /\ at' = [at EXCEPT ![c] = "closed"]
  /\ watched' = watched \ {c}
  /\ ready' = ready \ {c}
  /\ data' = [data EXCEPT ![c] = FALSE]

(* An error event, or one for a node the broadcast has given back: reading *)
(* descriptor -1 fails, and so does taking it out of epoll.                *)
MsgIgnored(s, n, hup) ==
  /\ Handling(Event(s, n, hup))
  /\ n # Listener
  /\ hup \/ socket_fd[s][n] = NULL
  /\ UNCHANGED <<netVars, poolVars, castVars, wild, ended>>

(* Mutation: the node is kept.                                             *)
MsgEndKeepsNode(s, n, hup) ==
  LET c == socket_fd[s][n] IN
  /\ Handling(Event(s, n, hup))
  /\ n # Listener /\ ~hup /\ c # NULL
  /\ life[c] # "up"
  /\ IF c \in watched
     THEN Close(c)
     ELSE data' = [data EXCEPT ![c] = FALSE] /\ UNCHANGED <<at, watched, ready>>
  /\ UNCHANGED <<life, backlog, knocked, pool, socket_fd, castVars, wild, ended>>

(* The end of the stream or an error: what was read is thrown away and the *)
(* peer is closed, unless epoll does not know it.                          *)
MsgEnd(s, n, hup) ==
  LET c == socket_fd[s][n] IN
  /\ Handling(Event(s, n, hup))
  /\ n # Listener /\ ~hup /\ c # NULL
  /\ life[c] # "up"
  /\ IF c \in watched
     THEN Close(c) /\ pool' = [pool EXCEPT ![s] = ReturnNode(@, n)]
     ELSE data' = [data EXCEPT ![c] = FALSE] /\ UNCHANGED <<at, watched, ready, pool>>
  /\ UNCHANGED <<life, backlog, knocked, socket_fd, castVars, wild, ended>>

(* Mutation: what does not fit into the buffer is left in the connection.  *)
MsgDataInPart(s, n, hup) ==
  LET c    == socket_fd[s][n]
      send == pool["send"]
      cast == s = "rcv" /\ data[c] /\ send.usecount > 0
  IN
  /\ Handling(Event(s, n, hup))
  /\ n # Listener /\ ~hup /\ c # NULL
  /\ life[c] = "up"
  /\ left' = IF cast THEN send.usecount ELSE 0
  /\ peer' = IF cast THEN send.uselist ELSE NULL
  /\ unwritten' = IF cast THEN {socket_fd["send"][m] : m \in UsedNodes(send)} ELSE {}
  /\ UNCHANGED <<netVars, poolVars, wild, ended>>

(* All there is has been read. do_rcvserver0_protocol broadcasts it, and   *)
(* do_sendserver0_protocol ignores it.                                     *)
MsgData(s, n, hup) ==
  LET c    == socket_fd[s][n]
      send == pool["send"]
      cast == s = "rcv" /\ data[c] /\ send.usecount > 0
  IN
  /\ Handling(Event(s, n, hup))
  /\ n # Listener /\ ~hup /\ c # NULL
  /\ life[c] = "up"
  /\ data' = [data EXCEPT ![c] = FALSE]
  /\ left' = IF cast THEN send.usecount ELSE 0
  /\ peer' = IF cast THEN send.uselist ELSE NULL
  /\ unwritten' = IF cast THEN {socket_fd["send"][m] : m \in UsedNodes(send)} ELSE {}
  /\ UNCHANGED <<at, life, watched, backlog, ready, knocked, poolVars, wild, ended>>

-----------------------------------------------------------------------------
(* send_all_tcpclient_msg                                                  *)

(* Mutation: the walk stays where it is. *)
NextPeerSame ==
  /\ left' = left - 1
  /\ peer' = IF left = 1 THEN NULL ELSE peer
  /\ unwritten' = unwritten \ {socket_fd["send"][peer]}

(* The next peer along the use list, read before the node is given back. *)
NextPeer ==
  /\ left' = left - 1
  /\ peer' = IF left = 1 THEN NULL ELSE pool["send"].next[peer]
  /\ unwritten' = unwritten \ {socket_fd["send"][peer]}

CastWrite ==
  /\ Running /\ left > 0
  /\ life[socket_fd["send"][peer]] # "reset"
  /\ NextPeer
  /\ UNCHANGED <<netVars, poolVars, batch, wild, ended>>

(* The write fails, also because the client reads too slowly. *)
CastFails ==
  /\ Running /\ left > 0
  /\ Close(socket_fd["send"][peer])
  /\ socket_fd' = [socket_fd EXCEPT !["send"][peer] = NULL]
  /\ pool' = [pool EXCEPT !["send"] = ReturnNode(@, peer)]
  /\ NextPeer
  /\ UNCHANGED <<life, backlog, knocked, batch, wild, ended>>

-----------------------------------------------------------------------------
Handle(s, n, hup) == MsgIgnored(s, n, hup) \/ MsgEnd(s, n, hup) \/ MsgData(s, n, hup)

ServerStep ==
  \/ EpollWait
  \/ \E s \in Servers : AcceptFails(s) \/ Accept(s) \/ AcceptWild(s)
  \/ \E e \in batch : Handle(e[1], e[2], e[3])
  \/ CastWrite
  \/ CastFails

Next == Network \/ ServerStep \/ EpollFails

Spec == Init /\ [][Next]_vars

(* The thread is scheduled; the network owes nothing, and epoll_wait need  *)
(* not fail.                                                               *)
FairSpec == Spec /\ WF_vars(ServerStep)

-----------------------------------------------------------------------------
TypeOK ==
  /\ at \in [Conns -> {"none", "backlog", "open", "closed"}]
  /\ life \in [Conns -> {"up", "fin", "reset"}]
  /\ data \in [Conns -> BOOLEAN]
  /\ watched \subseteq Conns
  /\ backlog \in [Servers -> Seq(Conns)]
  /\ ready \subseteq watched
  /\ knocked \subseteq Servers
  /\ pool \in [Servers -> PoolType]
  /\ socket_fd \in [Servers -> [PoolNodes -> Conns \cup {NULL}]]
  /\ batch \subseteq Servers \X (PoolNodes \cup {Listener}) \X BOOLEAN
  /\ left \in 0 .. PoolSize
  /\ peer \in PoolNodes \cup {NULL}
  /\ unwritten \subseteq Conns
  /\ wild \in [Servers -> BOOLEAN]
  /\ ended \in BOOLEAN

(* Whatever the order in which peers come, end, and are thrown out by a    *)
(* broadcast, the free and the use list of each server stay circles of the *)
(* lengths counted beside them and share out the nodes between them.       *)
ListsSound == \A s \in Servers : PoolSound(pool[s])

(* The nodes in use and the connections the server has accepted and not    *)
(* closed are one to one: no node outlives its descriptor, none is given   *)
(* back while its descriptor is open, and events for a node that a         *)
(* broadcast has given back, or accept has already used again, do not part *)
(* them.                                                                   *)
NodePerConnection ==
  LET used == {x \in Servers \X PoolNodes : x[2] \in UsedNodes(pool[x[1]])}
  IN  /\ \A x \in used : /\ socket_fd[x[1]][x[2]] \in Conns
                         /\ at[socket_fd[x[1]][x[2]]] = "open"
      /\ \A c \in Conns : at[c] = "open" =>
           \E x \in used : /\ socket_fd[x[1]][x[2]] = c
                           /\ \A y \in used \ {x} : socket_fd[y[1]][y[2]] # c

(* A broadcast writes once to every peer that was there when it began,     *)
(* although it walks the list it takes the failed ones out of.             *)
BroadcastReachesAll ==
  /\ left = Cardinality(unwritten)
  /\ left > 0 => /\ peer \in UsedNodes(pool["send"])
                 /\ socket_fd["send"][peer] \in unwritten

(* No edge is lost: what a client sends is read and its end noticed, its   *)
(* node given back then, in whichever order the events of its data, of     *)
(* other connections and of earlier users of its node are handled, and     *)
(* although nothing tells the server a second time of what it leaves. A    *)
(* connection that is reset may stay (zy_tcpserver.c:173-175).             *)
EdgesHandled ==
  \A c \in Conns :
    (c \in watched /\ Readable(c))
      ~> (at[c] = "closed" \/ ~Readable(c) \/ life[c] = "reset" \/ ~Running)

(* Every connection that waits is accepted: accept_handle loops until      *)
(* there is none left (the comment at zy_tcpserver.c:123, all connections  *)
(* have been handled).                                                     *)
BacklogAccepted ==
  \A c \in Conns : at[c] = "backlog" ~> (at[c] # "backlog" \/ ~Running)

(* The linked lists of each server implement a pool of nodes: no broadcast  *)
(* and no event, stale or not, hands out or takes back a node twice.       *)
RcvPool == INSTANCE NodePool WITH
  Nodes     <- PoolNodes,
  Clients   <- {"rcv"},
  available <- FreeNodes(pool["rcv"]),
  held      <- [s \in {"rcv"} |-> UsedNodes(pool[s])],
  refused   <- [s \in {"rcv"} |-> wild[s]]
SendPool == INSTANCE NodePool WITH
  Nodes     <- PoolNodes,
  Clients   <- {"send"},
  available <- FreeNodes(pool["send"]),
  held      <- [s \in {"send"} |-> UsedNodes(pool[s])],
  refused   <- [s \in {"send"} |-> wild[s]]
ImplementsPools == RcvPool!Spec /\ SendPool!Spec

=============================================================================
