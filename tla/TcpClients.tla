----------------------------- MODULE TcpClients -----------------------------
(***************************************************************************)
(* The TCP clients of the on-board programs (tcpclient/zy_tcpclient.c and  *)
(* zy_tcp_worker.c). Each client belongs to one server, and                *)
(* zy_tcpclient_send connects it again when a write fails. Clients are     *)
(* used by several threads, a client by one of them, and no lock protects  *)
(* the table of descriptors they share in the kernel: between the close of *)
(* one thread and its next socket another one may get the same number.     *)
(***************************************************************************)
EXTENDS Sequences, FiniteSets, Functions

CONSTANTS
  Clients,  (* the clients, each named like its server                     *)
  Threads   (* the threads                                                 *)

ASSUME ClientAssumption == IsFiniteSet(Clients)

(* More descriptors than clients: one for each is all they should need. *)
Fds == 1 .. Cardinality(Clients) + 1

VARIABLES
  socket_fd,  (* socket_fd[c]: the descriptor of client c, 0 before start  *)
  conn,       (* conn[f]: closed, unconnected, connected or broken         *)
  server,     (* server[f]: the server f is or was connected to            *)
  up,         (* the servers that can be reached                           *)
  pc,         (* pc[t]: where thread t is                                  *)
  todo        (* todo[t]: the clients t has to send a frame on, in order   *)

netVars == <<socket_fd, conn, server, up>>

NoServer == "none"

Goto(t, l) == pc' = [pc EXCEPT ![t] = l]
At(t, l)   == pc[t] = l

(* The client thread t sends on, and its descriptor. *)
Sends(t, c) == todo[t] # <<>> /\ Head(todo[t]) = c
Fd(t) == socket_fd[Head(todo[t])]

(* The number a new socket gets: the lowest that is free, if any is. *)
Free == {f \in Fds : conn[f] = "closed"}
NewFds == {f \in Free : \A g \in Free : f <= g}

(* A frame is written or given up: the next client, or idle again. *)
SendDone(t) ==
  /\ todo' = [todo EXCEPT ![t] = Tail(@)]
  /\ Goto(t, IF Len(todo[t]) = 1 THEN "idle" ELSE "write")

NetInit ==
  /\ socket_fd = [c \in Clients |-> 0]
  /\ conn = [f \in Fds |-> "closed"]
  /\ server = [f \in Fds |-> NoServer]
  /\ up \in SUBSET Clients

-----------------------------------------------------------------------------
(* zy_tcpclient_start, when no other thread runs yet. *)
StartClient(t) ==
  /\ At(t, "start")
  /\ Head(todo[t]) \in up
  /\ \E f \in NewFds :
       /\ socket_fd' = [socket_fd EXCEPT ![Head(todo[t])] = f]
       /\ conn' = [conn EXCEPT ![f] = "connected"]
       /\ server' = [server EXCEPT ![f] = Head(todo[t])]
  /\ todo' = [todo EXCEPT ![t] = Tail(@)]
  /\ Goto(t, IF Len(todo[t]) = 1 THEN "started" ELSE "start")
  /\ UNCHANGED up

(* The program ends, and the kernel closes what it had open. *)
NetEnds ==
  /\ socket_fd' = [c \in Clients |-> 0]
  /\ conn' = [f \in Fds |-> "closed"]
  /\ server' = [f \in Fds |-> NoServer]
  /\ todo' = [t \in Threads |-> <<>>]
  /\ UNCHANGED up

StartFails(t) ==
  /\ At(t, "start")
  /\ Head(todo[t]) \notin up
  /\ Goto(t, "failed")
  /\ NetEnds

-----------------------------------------------------------------------------
(* zy_tcpclient_send                                                       *)

(* The frame is written, all of it or what fits: a short count is no error. *)
Write(t) ==
  /\ At(t, "write")
  /\ conn[Fd(t)] = "connected"
  /\ SendDone(t)
  /\ UNCHANGED netVars

(* Mutation: a failed write is given up without a new connection. *)
WriteFailsForGood(t) ==
  /\ At(t, "write")
  /\ SendDone(t)
  /\ UNCHANGED netVars

(* The connection is broken or was never made, or the server does not read *)
(* and the buffer of a descriptor that does not block is full.             *)
WriteFails(t) ==
  /\ At(t, "write")
  /\ Goto(t, "close")
  /\ UNCHANGED <<netVars, todo>>

(* Mutation: the old descriptor is not closed. *)
CloseNot(t) ==
  /\ At(t, "close")
  /\ Goto(t, "socket")
  /\ UNCHANGED <<netVars, todo>>

Close(t) ==
  /\ At(t, "close")
  /\ conn' = [conn EXCEPT ![Fd(t)] = "closed"]
  /\ server' = [server EXCEPT ![Fd(t)] = NoServer]
  /\ Goto(t, "socket")
  /\ UNCHANGED <<socket_fd, up, todo>>

Socket(t) ==
  /\ At(t, "socket")
  /\ \E f \in NewFds :
       /\ socket_fd' = [socket_fd EXCEPT ![Head(todo[t])] = f]
       /\ conn' = [conn EXCEPT ![f] = "unconnected"]
  /\ Goto(t, "connect")
  /\ UNCHANGED <<server, up, todo>>

Connect(t) ==
  /\ At(t, "connect")
  /\ Head(todo[t]) \in up
  /\ conn' = [conn EXCEPT ![Fd(t)] = "connected"]
  /\ server' = [server EXCEPT ![Fd(t)] = Head(todo[t])]
  /\ Goto(t, "rewrite")
  /\ UNCHANGED <<socket_fd, up, todo>>

(* Mutation: the new socket is closed when it cannot be connected, but     *)
(* its number is kept, and the next send closes it again.                  *)
ConnectFailsCloses(t) ==
  /\ At(t, "connect")
  /\ Head(todo[t]) \notin up
  /\ conn' = [conn EXCEPT ![Fd(t)] = "closed"]
  /\ server' = [server EXCEPT ![Fd(t)] = NoServer]
  /\ SendDone(t)
  /\ UNCHANGED <<socket_fd, up>>

(* The new socket stays open and unconnected: the next write on it fails,  *)
(* and it is closed then.                                                  *)
ConnectFails(t) ==
  /\ At(t, "connect")
  /\ Head(todo[t]) \notin up
  /\ SendDone(t)
  /\ UNCHANGED netVars

(* The second write; whether it fails or not, the caller goes on. *)
Rewrite(t) ==
  /\ At(t, "rewrite")
  /\ SendDone(t)
  /\ UNCHANGED netVars

NetStep(t) == StartClient(t) \/ StartFails(t) \/ Write(t) \/ WriteFails(t) \/ Close(t)
              \/ Socket(t) \/ Connect(t) \/ ConnectFails(t) \/ Rewrite(t)

-----------------------------------------------------------------------------
(* The network: servers come and go, and what is connected to a server     *)
(* that is gone breaks, at once, later or never.                           *)

ServerGoes ==
  /\ \E c \in up : up' = up \ {c}
  /\ UNCHANGED <<socket_fd, conn, server, pc, todo>>

ServerComes ==
  /\ \E c \in Clients \ up : up' = up \cup {c}
  /\ UNCHANGED <<socket_fd, conn, server, pc, todo>>

ConnectionBreaks ==
  /\ \E f \in Fds :
       /\ conn[f] = "connected"
       /\ server[f] \notin up
       /\ conn' = [conn EXCEPT ![f] = "broken"]
  /\ UNCHANGED <<socket_fd, server, up, pc, todo>>

NetChange == ServerGoes \/ ServerComes \/ ConnectionBreaks

-----------------------------------------------------------------------------
NetTypeOK ==
  /\ socket_fd \in [Clients -> Fds \cup {0}]
  /\ conn \in [Fds -> {"closed", "unconnected", "connected", "broken"}]
  /\ server \in [Fds -> Clients \cup {NoServer}]
  /\ up \subseteq Clients
  /\ todo \in [Threads -> Seq(Clients)]

(* The clients that have a descriptor: those that are started and not      *)
(* between the close and the socket of a new connection.                   *)
Renewing(c) == \E t \in Threads : At(t, "socket") /\ Sends(t, c)
Holders == {c \in Clients : socket_fd[c] # 0 /\ ~Renewing(c)}

(* What a client writes goes to its own server: its descriptor is open,    *)
(* it is no other client's, and if it is connected, then to that server,   *)
(* although descriptors are closed and their numbers given out again while *)
(* other threads send (data_parse.c:217, "send data to tcpserver"). The    *)
(* clients are alone here: what else in the process opens descriptors, and *)
(* the correction thread that closes one twice (iwise_net_xihe_module.c:86 *)
(* and :48) and so may close a client's, are left out.                     *)
OwnServer ==
  \A c \in Holders :
    /\ conn[socket_fd[c]] # "closed"
    /\ conn[socket_fd[c]] \in {"connected", "broken"} => server[socket_fd[c]] = c
    /\ \A d \in Holders \ {c} : socket_fd[d] # socket_fd[c]

(* No descriptor is lost over any number of failed writes and failed       *)
(* connections: every open one is a client's.                              *)
NoDescriptorLost ==
  \A f \in Fds : conn[f] # "closed" => \E c \in Holders : socket_fd[c] = f

=============================================================================
