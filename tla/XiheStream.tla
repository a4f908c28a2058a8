----------------------------- MODULE XiheStream -----------------------------
(***************************************************************************)
(* The stream of corrections as the network thread of the positioning      *)
(* driver reads it (xihe_handle in iwise_net_xihe_module.c, iwise_pool.c): *)
(* the connection, the receive buffer, and the loop that cuts RTCM frames  *)
(* out of it. The buffer is the thread's own, so a step is one recv or     *)
(* connect_server with the checks behind it, one turn of the parse loop,   *)
(* or the compaction; other threads change the status and the settings     *)
(* between steps. What becomes of a correction is in LocHandle.            *)
(***************************************************************************)
EXTENDS Integers, Sequences

CONSTANTS
  MaxBuffer,    (* MAX_BUFFER, the bytes of the buffer (4096)              *)
  PackageSize,  (* PACKAGE_SIZE, the most one recv asks for (512)          *)
  Frames,       (* the good frames the servers send: sequences of bytes    *)
  Junk,         (* whatever else they may send                             *)
  MaxTimes,     (* the timeouts a connection survives (9)                  *)
  MaxErrors,    (* the bad frames it survives, but for one (3)             *)
  Settings,     (* what the application may set: the main server's addr    *)
                (* and port, and the extension server's extPort            *)
  Fds,          (* descriptor numbers of the process                       *)
  MaxCalls,     (* bound on the calls of the application                   *)
  MaxSends,     (* bound on the frames and the junk that are sent          *)
  MaxConnects   (* bound on the connections that are made                  *)

Byte == 0 .. 255

(* (b1 << 8) | b2 + 6: the sum binds stronger than the or, so a carry out  *)
(* of the low byte is lost when the bit it falls on is already set.        *)
FrameLength(b1, b2) ==
  IF b2 + 6 < 256 THEN 256 * b1 + b2 + 6
                  ELSE 256 * (b1 + 1 - (b1 % 2)) + b2 + 6 - 256

ASSUME StreamAssumption ==
  /\ PackageSize \in Nat /\ PackageSize >= 6
  /\ MaxBuffer \in Nat /\ MaxBuffer >= 2 * PackageSize
  /\ \A f \in Frames : /\ f \in Seq(Byte)
                       /\ Len(f) \in 6 .. PackageSize
                       /\ f[1] = 211 /\ FrameLength(f[2], f[3]) = Len(f)
  /\ Junk \subseteq Seq(Byte)
  /\ {MaxCalls, MaxSends, MaxConnects, MaxTimes, MaxErrors} \subseteq Nat
  /\ Settings \subseteq [addr : STRING, port : Nat, extPort : Nat]
  /\ Fds \subseteq Nat \ {0}

VARIABLES
  status,      (* context->status: "start", "stop" or "destroy"            *)
  main,        (* the settings                                             *)
  calls,       (* calls of the application so far                          *)
  link,        (* the connection: "none", "up", or "ended" by the server   *)
  wire,        (* the bytes that arrived and were not received yet         *)
  sends,       (* frames and junk that arrived so far                      *)
  connects,    (* connections made so far                                  *)
  pc,          (* where the thread is                                      *)
  server,      (* its copy of the settings                                 *)
  times,       (* timeouts on this connection                              *)
  errors,      (* parse_error_time                                         *)
  net_socket,  (* the number of its socket, 0 for none                     *)
  open,        (* the sockets it has opened and not closed                 *)
  buffer,      (* the receive buffer                                       *)
  start,       (* index of the first byte that is not parsed               *)
  end,         (* index after the last byte received                       *)
  (* the history of a connection that began with an empty buffer, as long  *)
  (* as only good frames come over it                                      *)
  clean,       (* there is such a history                                  *)
  stream,      (* all the bytes that arrived                               *)
  ends,        (* where in the stream each frame ends                      *)
  got,         (* how many bytes of the stream have been received          *)
  parsed       (* the frames that were parsed                              *)

settings == <<status, main, calls>>
network  == <<link, wire, sends, connects>>
attempt  == <<server, times, errors>>
sockets  == <<net_socket, open>>
pool     == <<buffer, start, end>>
history  == <<clean, stream, ends, got, parsed>>
vars == <<settings, network, pc, attempt, sockets, pool, history>>

Init ==
  /\ status = "stop" /\ main \in Settings /\ calls = 0
  /\ link = "none" /\ wire = <<>> /\ sends = 0 /\ connects = 0
  /\ pc = "wait"
  /\ server = main /\ times = 0 /\ errors = 0
  /\ net_socket = 0 /\ open = {}
  /\ buffer = [i \in 0 .. MaxBuffer - 1 |-> 0] /\ start = 0 /\ end = 0
  /\ clean = FALSE /\ stream = <<>> /\ ends = <<>> /\ got = 0 /\ parsed = <<>>

-----------------------------------------------------------------------------
(* The application and the network.                                        *)

(* start, stop and destroy *)
SetStatus ==
  /\ status # "destroy"
  /\ calls < MaxCalls
  /\ calls' = calls + 1
  /\ status' \in {"start", "stop", "destroy"} \ {status}
  /\ UNCHANGED <<main, network, pc, attempt, sockets, pool, history>>

(* iwise_loc_pgps_set_pgps_main_server and _extension *)
SetServers ==
  /\ calls < MaxCalls
  /\ calls' = calls + 1
  /\ main' \in Settings \ {main}
  /\ UNCHANGED <<status, network, pc, attempt, sockets, pool, history>>

(* A history begins with nothing, and is forgotten so. *)
History(b) ==
  /\ clean' = b
  /\ stream' = <<>> /\ ends' = <<>> /\ got' = 0 /\ parsed' = <<>>

Arrive ==
  /\ link = "up"
  /\ sends < MaxSends
  /\ sends' = sends + 1
  /\ \E f \in Frames \cup Junk :
       /\ wire' = wire \o f
       /\ IF clean /\ f \in Frames
          THEN /\ stream' = stream \o f
               /\ ends' = Append(ends, Len(stream) + Len(f))
               /\ UNCHANGED <<clean, got, parsed>>
          ELSE History(FALSE)
  /\ UNCHANGED <<settings, link, connects, pc, attempt, sockets, pool>>

(* Of what the server sent last only the beginning may arrive. *)
PeerEnds ==
  /\ link = "up"
  /\ link' = "ended"
  /\ \E n \in 0 .. Len(wire) :
       /\ wire' = SubSeq(wire, 1, n)
       /\ stream' = IF clean THEN SubSeq(stream, 1, got + n) ELSE <<>>
  /\ UNCHANGED <<settings, sends, connects, pc, attempt, sockets, pool, clean,
                 ends, got, parsed>>

-----------------------------------------------------------------------------
(* The connection.                                                         *)

(* the sockets left open by close(net_socket) *)
Closed == open \ {net_socket}

(* the kernel gives the lowest number that is free *)
NewFd(n) == n \in Fds \ Closed /\ \A m \in Fds \ Closed : n <= m

(* Mutation: the old socket is not closed. *)
ConnectOkKeepsOld ==
  /\ connects < MaxConnects
  /\ connects' = connects + 1
  /\ \E n \in Fds \ open : net_socket' = n /\ open' = open \cup {n}
  /\ link' = "up" /\ wire' = <<>>
  /\ UNCHANGED sends

(* connect_server closes the socket whose number it has and opens another. *)
ConnectOk ==
  /\ connects < MaxConnects
  /\ connects' = connects + 1
  /\ \E n \in Fds : NewFd(n) /\ net_socket' = n /\ open' = Closed \cup {n}
  /\ link' = "up" /\ wire' = <<>>
  /\ UNCHANGED sends

NotConnected ==
  /\ link' = "none" /\ wire' = <<>>
  /\ UNCHANGED <<sends, connects>>
  /\ History(FALSE)

(* When connect_server fails there is no new socket, or one that is closed *)
(* while net_socket keeps its number, or one that is left open.            *)
Failures ==
  LET new == {n \in Fds : NewFd(n)}
  IN  {<<-1, Closed>>} \cup (new \X {Closed}) \cup {<<n, Closed \cup {n}>> : n \in new}

CloseSocket == open' = Closed /\ net_socket' = 0

(* connect_again *)
Again ==
  /\ pc' = "connect"
  /\ server' = main /\ times' = 0 /\ errors' = 0

(* network_wait: start takes the thread to connect_again, destroy ends it. *)
Wait ==
  /\ pc = "wait"
  /\ \/ status = "start" /\ Again
     \/ status = "destroy" /\ pc' = "ended" /\ UNCHANGED attempt
  /\ UNCHANGED <<settings, network, sockets, pool, history>>

Connect ==
  /\ pc = "connect"
  /\ ConnectOk
  /\ History(start = end)
  /\ pc' = "recv"
  /\ UNCHANGED <<settings, attempt, pool>>

(* A second later the status is looked at and the settings copied again.   *)
ConnectFails ==
  /\ pc = "connect"
  /\ NotConnected
  /\ \E f \in Failures :
       IF status = "stop" THEN net_socket' = 0 /\ open' = f[2] \ {f[1]}
                          ELSE net_socket' = f[1] /\ open' = f[2]
  /\ pc' = CASE status = "start"   -> "connect"
             [] status = "stop"    -> "wait"
             [] status = "destroy" -> "ended"
  /\ server' = IF status = "start" THEN main ELSE server
  /\ UNCHANGED <<settings, times, errors, pool>>

-----------------------------------------------------------------------------
(* One recv and the checks behind it.                                      *)

(* the test that is meant to find changed settings *)
SettingsDiffer ==
  /\ main.addr # ""
  /\ main.addr # server.addr \/ main.extPort # server.port

(* What was received is forgotten on stop, destroy and changed settings.   *)
RecvStopped ==
  /\ pc = "recv"
  /\ \/ status = "stop" /\ CloseSocket /\ pc' = "wait" /\ NotConnected
     \/ status = "destroy" /\ pc' = "ended" /\ UNCHANGED <<sockets, network, history>>
  /\ UNCHANGED <<settings, attempt, pool>>

RecvServerChanged ==
  /\ pc = "recv"
  /\ status = "start" /\ SettingsDiffer
  /\ CloseSocket /\ NotConnected /\ Again
  /\ UNCHANGED <<settings, pool>>

Received == pc = "recv" /\ status = "start" /\ ~SettingsDiffer

(* count bytes are put behind end. *)
RecvData ==
  /\ Received
  /\ \E count \in 1 .. PackageSize :
       /\ count <= Len(wire)
       /\ wire' = SubSeq(wire, count + 1, Len(wire))
       /\ got' = IF clean THEN got + count ELSE 0
       /\ end' = end + count
       /\ buffer' = [i \in DOMAIN buffer |->
                       IF i \in end .. end + count - 1 THEN wire[i - end + 1]
                                                       ELSE buffer[i]]
  /\ pc' = "parse"
  /\ UNCHANGED <<settings, link, sends, connects, attempt, sockets, start,
                 clean, stream, ends, parsed>>

(* The socket is closed and connect_again told to close its number again.  *)
Reconnect == open' = Closed /\ NotConnected /\ Again /\ UNCHANGED net_socket

(* Nothing came for two seconds. *)
RecvTimeout ==
  /\ Received
  /\ link = "up" /\ wire = <<>>
  /\ IF times + 1 > MaxTimes
     THEN Reconnect
     ELSE times' = times + 1 /\ UNCHANGED <<sockets, network, history, pc, server, errors>>
  /\ UNCHANGED <<settings, pool>>

(* The end of the stream, a reset, or a socket that is not connected.      *)
RecvEnds ==
  /\ Received
  /\ link # "up"
  /\ Reconnect
  /\ UNCHANGED <<settings, pool>>

-----------------------------------------------------------------------------
(* The parse loop.                                                         *)

Pending == end - start

(* where the scan for 0xD3 stops: it looks at buffer[end], too, which was  *)
(* not received yet, and goes past it. (The byte behind the buffer is the  *)
(* lowest one of the field start, 0 when it is looked at.)                 *)
Preamble ==
  LET found == {i \in start .. end : i < MaxBuffer /\ buffer[i] = 211}
  IN  IF found = {} THEN end + 1 ELSE CHOOSE i \in found : \A j \in found : i <= j

Length == FrameLength(buffer[Preamble + 1], buffer[Preamble + 2])

Slice == [k \in 1 .. Length |-> buffer[Preamble + k - 1]]

(* Less than three bytes are left, before the scan or after it. After it   *)
(* the length is one of bytes that were not received, and at least 6.      *)
ParseShort ==
  /\ pc = "parse"
  /\ \/ Pending < 3 /\ UNCHANGED start
     \/ Pending >= 3 /\ end - Preamble < 3 /\ start' = Preamble
  /\ pc' = "compress"
  /\ UNCHANGED <<settings, network, attempt, sockets, buffer, end, history>>

InFrame == pc = "parse" /\ Pending >= 3 /\ end - Preamble >= 3

(* The continue leaves start where it is: the loop never ends. *)
ParseOversize ==
  /\ InFrame
  /\ Length > PackageSize
  /\ start' = Preamble
  /\ UNCHANGED <<settings, network, pc, attempt, sockets, buffer, end, history>>

Whole == InFrame /\ Length <= PackageSize /\ Preamble + Length <= end

(* Mutation: the loop continues, as it does on an oversize frame. *)
ParseIncompleteContinues ==
  /\ InFrame
  /\ Length <= PackageSize /\ ~Whole
  /\ start' = Preamble
  /\ UNCHANGED <<settings, network, pc, attempt, sockets, buffer, end, history>>

ParseIncomplete ==
  /\ InFrame
  /\ Length <= PackageSize /\ ~Whole
  /\ start' = Preamble
  /\ pc' = "compress"
  /\ UNCHANGED <<settings, network, attempt, sockets, buffer, end, history>>

ParseOk ==
  /\ Whole
  /\ Slice \in Frames
  /\ start' = Preamble + Length
  /\ parsed' = IF clean THEN Append(parsed, Slice) ELSE <<>>
  /\ UNCHANGED <<settings, network, pc, attempt, sockets, buffer, end, clean,
                 stream, ends, got>>

(* GetClockOrbitBias finds the checksum wrong, or anything else.           *)
ParseError ==
  /\ Whole
  /\ Slice \notin Frames
  /\ errors <= MaxErrors
  /\ errors' = errors + 1
  /\ start' = Preamble + Length
  /\ UNCHANGED <<settings, network, pc, server, times, sockets, buffer, end, history>>

(* One too many: connect anew to the same server, with an empty buffer.    *)
(* That the connection may fail is not looked at.                          *)
ParseErrorReconnect ==
  /\ Whole
  /\ Slice \notin Frames
  /\ errors > MaxErrors
  /\ errors' = 0
  /\ start' = 0 /\ end' = 0
  /\ pc' = "compress"
  /\ \/ ConnectOk /\ History(TRUE)
     \/ NotConnected /\ \E f \in Failures : net_socket' = f[1] /\ open' = f[2]
  /\ UNCHANGED <<settings, server, times, buffer>>

(* the bytes of iwise_pool_compress's memmove *)
Moved == [i \in DOMAIN buffer |-> IF i < Pending THEN buffer[start + i] ELSE buffer[i]]

(* Mutations: the indices are reset and the bytes stay; only a buffer that *)
(* is full is compacted.                                                   *)
CompressInPlace ==
  /\ pc = "compress"
  /\ pc' = "recv"
  /\ IF MaxBuffer - end < PackageSize /\ start <= end
     THEN end' = Pending /\ start' = 0 ELSE UNCHANGED <<start, end>>
  /\ UNCHANGED <<settings, network, attempt, sockets, buffer, history>>

CompressFull ==
  /\ pc = "compress"
  /\ pc' = "recv"
  /\ IF end = MaxBuffer
     THEN buffer' = Moved /\ end' = Pending /\ start' = 0 ELSE UNCHANGED pool
  /\ UNCHANGED <<settings, network, attempt, sockets, history>>

(* iwise_pool_compress: without room for one more recv the unparsed bytes  *)
(* are moved to the front. With start behind end memmove gets a negative   *)
(* length, which it takes for nearly all memory there is.                  *)
Compress ==
  /\ pc = "compress"
  /\ IF MaxBuffer - end < PackageSize
     THEN IF start > end THEN pc' = "crashed" /\ UNCHANGED pool
          ELSE pc' = "recv" /\ buffer' = Moved /\ end' = Pending /\ start' = 0
     ELSE pc' = "recv" /\ UNCHANGED pool
  /\ UNCHANGED <<settings, network, attempt, sockets, history>>

-----------------------------------------------------------------------------
XiheStep ==
  \/ Wait \/ Connect \/ ConnectFails
  \/ RecvStopped \/ RecvServerChanged \/ RecvData \/ RecvTimeout \/ RecvEnds
  \/ ParseShort \/ ParseOversize \/ ParseIncomplete \/ ParseOk
  \/ ParseError \/ ParseErrorReconnect \/ Compress

Next == SetStatus \/ SetServers \/ Arrive \/ PeerEnds \/ XiheStep

Spec == Init /\ [][Next]_vars

(* The thread is scheduled and its calls return: connect within two        *)
(* seconds, recv within two. The network and the application owe nothing.  *)
FairSpec == Spec /\ WF_vars(XiheStep)

-----------------------------------------------------------------------------
TypeOK ==
  /\ status \in {"start", "stop", "destroy"}
  /\ main \in Settings /\ server \in Settings
  /\ calls \in 0 .. MaxCalls
  /\ link \in {"none", "up", "ended"}
  /\ wire \in Seq(Byte) /\ stream \in Seq(Byte)
  /\ sends \in 0 .. MaxSends
  /\ connects \in 0 .. MaxConnects
  /\ pc \in {"connect", "wait", "recv", "parse", "compress", "ended", "crashed"}
  /\ net_socket \in Fds \cup {-1, 0}
  /\ open \subseteq Fds
  /\ times \in 0 .. MaxTimes
  /\ errors \in 0 .. MaxErrors + 1
  /\ buffer \in [0 .. MaxBuffer - 1 -> Byte]
  /\ end \in 0 .. MaxBuffer
  /\ start \in 0 .. end + 1
  /\ clean \in BOOLEAN
  /\ ends \in Seq(Nat)
  /\ got \in Nat
  /\ parsed \in Seq(Frames)

(* iwise_pool_compress leaves room: a recv of PACKAGE_SIZE bytes behind    *)
(* end never leaves the buffer, however little each turn could parse.      *)
RoomToReceive == pc = "recv" => end + PackageSize <= MaxBuffer

(* where the k-th frame sent ends *)
Position(k) == IF k = 0 THEN 0 ELSE ends[k]

(* The parse loop loses no byte and no frame on a connection that began    *)
(* with an empty buffer and carries good frames, however recv cuts them:   *)
(* the frames parsed are the first ones sent, and in their order; what is  *)
(* left in the buffer is the stream from the next frame on; and before     *)
(* every recv each frame that has been received whole has been parsed.     *)
CleanStreamParsed ==
  clean =>
    /\ start <= end
    /\ Len(parsed) <= Len(ends)
    /\ \A k \in 1 .. Len(parsed) :
         parsed[k] = SubSeq(stream, Position(k - 1) + 1, Position(k))
    /\ got - Pending = Position(Len(parsed))
    /\ \A i \in start .. end - 1 : buffer[i] = stream[got - end + i + 1]
    /\ pc = "recv" => \A k \in 1 .. Len(ends) : ends[k] <= got => k <= Len(parsed)

(* Reconnections, with whatever failures of connect_server, lose no        *)
(* socket: the thread knows the number of every one that is open. On       *)
(* destroy it ends without closing the last one                            *)
(* (iwise_net_xihe_module.c:218-221), whose number it still has.           *)
SocketsKept == open \subseteq {net_socket}

(* iwise_pool.h:18-21 and :47: the parsed bytes are those before start,    *)
(* start is not behind end, and the compaction removes the parsed ones.    *)
CompactionSound == pc = "compress" /\ MaxBuffer - end < PackageSize => start <= end

(* As long as the connection lasts, the driver is not stopped and its      *)
(* settings are those of the connection, every good frame that arrives is  *)
(* parsed: the loop always comes back to recv, and recv to the loop.       *)
Serving == clean /\ link = "up" /\ status = "start" /\ ~SettingsDiffer
Delivered ==
  \A k \in 1 .. MaxSends :
    Serving /\ k <= Len(ends) ~> k <= Len(parsed) \/ ~Serving

=============================================================================
