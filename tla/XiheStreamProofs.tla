--------------------------- MODULE XiheStreamProofs --------------------------
(***************************************************************************)
(* Proofs about XiheStream, for every size of the buffer, of a recv and of *)
(* the frames, and whatever the servers send: types, room in the buffer,   *)
(* sockets, and that the parse loop loses nothing of a clean stream.       *)
(***************************************************************************)
EXTENDS XiheStream, TLAPS, SequenceTheorems, WellFoundedInduction

(* There is room for a recv wherever one may come next, and a turn of the  *)
(* loop that leads to the compaction leaves less than one recv unparsed.   *)
RoomInv ==
  /\ pc \in {"wait", "connect", "recv"} => end + PackageSize <= MaxBuffer
  /\ pc = "compress" => end - start < PackageSize

(* What was not received yet is the end of the stream. *)
WireInv == clean => Len(stream) = got + Len(wire)

SafeInv == TypeOK /\ RoomInv /\ WireInv /\ SocketsKept

(* The constants, one group at a time. *)
LEMMA Sizes ==
  /\ PackageSize \in Nat /\ PackageSize >= 6
  /\ MaxBuffer \in Nat /\ MaxBuffer >= 2 * PackageSize
BY StreamAssumption

LEMMA Bounds ==
  MaxCalls \in Nat /\ MaxSends \in Nat /\ MaxConnects \in Nat
  /\ MaxTimes \in Nat /\ MaxErrors \in Nat
BY StreamAssumption

(* Whatever a server sends is bytes. *)
LEMMA Sent ==
  ASSUME NEW f \in Frames \cup Junk PROVE f \in Seq(Byte)
BY StreamAssumption

-----------------------------------------------------------------------------
(* The length of a frame.                                                  *)

(* The length read from two bytes is that of the frame, the 16 bits and    *)
(* the 6 bytes around them, unless a carry out of the low byte meets an    *)
(* odd high byte: (b1 << 8) | b2 + 6.                                      *)
THEOREM FrameLengthExact ==
  ASSUME NEW b1 \in Byte, NEW b2 \in Byte
  PROVE  FrameLength(b1, b2) = 256 * b1 + b2 + 6 <=> b2 < 250 \/ b1 % 2 = 0
BY DEF FrameLength, Byte

(* A frame is never shorter than its header and checksum. *)
LEMMA FrameLengthType ==
  ASSUME NEW b1 \in Byte, NEW b2 \in Byte
  PROVE  FrameLength(b1, b2) \in Nat /\ FrameLength(b1, b2) >= 6
<1>1. b1 % 2 \in {0, 1}
  BY DEF Byte
<1> QED
  BY <1>1 DEF FrameLength, Byte

(* Every set of natural numbers with a member has a least one. *)
LEMMA LeastOf ==
  ASSUME NEW S \in SUBSET Nat, S # {}
  PROVE  \E m \in S : \A k \in S : m <= k
<1> DEFINE R == {ss \in Nat \X Nat : ss[1] < ss[2]}
<1>1. IsWellFoundedOn(R, Nat)
  BY NatLessThanWellFounded DEF OpToRel
<1>2. \E m \in S : \A k \in S : <<k, m>> \notin R
  <2> HIDE DEF R
  <2> QED BY <1>1, WFMin
<1>3. \A k, m \in Nat : <<k, m>> \in R <=> k < m
  OBVIOUS
<1> HIDE DEF R
<1>4. PICK m \in S : \A k \in S : <<k, m>> \notin R
  BY <1>2
<1>5. ASSUME NEW k \in S PROVE m <= k
  <2>1. k \in Nat /\ m \in Nat
    OBVIOUS
  <2>2. ~(k < m)
    BY <1>3, <1>4, <2>1
  <2> QED BY <2>1, <2>2
<1> QED
  BY <1>5

(* The scan stops at the first 0xD3 from start on, or behind end. *)
LEMMA PreambleRange ==
  ASSUME TypeOK
  PROVE  /\ Preamble \in Nat /\ start <= Preamble /\ Preamble <= end + 1
         /\ \A i \in start .. end : i < MaxBuffer /\ buffer[i] = 211 => Preamble <= i
<1> DEFINE found == {i \in start .. end : i < MaxBuffer /\ buffer[i] = 211}
<1>0. start \in Nat /\ end \in Nat /\ start <= end + 1
  BY Sizes DEF TypeOK
<1>1. start \in Nat /\ end \in Nat /\ start <= end + 1 /\ found \in SUBSET Nat
  BY <1>0
<1>2. CASE found = {}
  <2>1. Preamble = end + 1
    BY <1>2 DEF Preamble
  <2>2. \A i \in start .. end : ~(i < MaxBuffer /\ buffer[i] = 211)
    BY <1>2
  <2> QED BY <1>1, <2>1, <2>2
<1>3. CASE found # {}
  <2>1. \E i \in found : \A j \in found : i <= j
    <3> HIDE DEF found
    <3> QED BY <1>1, <1>3, LeastOf
  <2>2. Preamble = CHOOSE i \in found : \A j \in found : i <= j
    BY <1>3 DEF Preamble
  <2>3. Preamble \in found /\ \A j \in found : Preamble <= j
    <3> HIDE DEF found
    <3> QED BY <2>1, <2>2
  <2> QED BY <1>1, <2>3
<1> QED
  BY <1>2, <1>3

(* In a frame the length is one of bytes that are in the buffer. *)
LEMMA LengthType ==
  ASSUME TypeOK, InFrame
  PROVE  /\ Length \in Nat /\ Length >= 6
         /\ Preamble \in Nat /\ start <= Preamble /\ Preamble + 2 < end
<1>1. /\ Preamble \in Nat /\ start <= Preamble /\ Preamble + 2 < end
      /\ end \in Nat /\ end <= MaxBuffer /\ MaxBuffer \in Nat
  <2>1. start \in Nat /\ end \in Nat /\ end <= MaxBuffer /\ MaxBuffer \in Nat
    BY Sizes DEF TypeOK
  <2> QED BY <2>1, PreambleRange DEF InFrame
<1>2. buffer[Preamble + 1] \in Byte /\ buffer[Preamble + 2] \in Byte
  BY <1>1 DEF TypeOK
<1> QED
  BY <1>1, <1>2, FrameLengthType DEF Length

LEMMA EmptyTypes == <<>> \in Seq(Byte) /\ <<>> \in Seq(Nat) /\ <<>> \in Seq(Frames) /\ Len(<<>>) = 0
BY EmptySeq

(* A history that begins has the types of one. *)
LEMMA HistoryType ==
  ASSUME NEW b \in BOOLEAN, History(b)
  PROVE  /\ clean' = b /\ clean' \in BOOLEAN /\ got' \in Nat
         /\ stream' \in Seq(Byte) /\ ends' \in Seq(Nat) /\ parsed' \in Seq(Frames)
         /\ Len(stream') = 0 /\ got' = 0
BY EmptyTypes DEF History

LEMMA NewFdType == ASSUME NEW n, NewFd(n) PROVE n \in Fds
BY DEF NewFd

-----------------------------------------------------------------------------
(* The steps keep SafeInv.                                                 *)

LEMMA InitSafe == Init => SafeInv
<1> SUFFICES ASSUME Init PROVE SafeInv
  OBVIOUS
<1>1. <<>> \in Seq(Byte) /\ <<>> \in Seq(Nat) /\ <<>> \in Seq(Frames)
  BY EmptySeq
<1>2. TypeOK
  <2>1. 0 \in Byte /\ buffer \in [0 .. MaxBuffer - 1 -> Byte]
    BY Sizes DEF Init, Byte
  <2>2. /\ 0 \in 0 .. MaxCalls /\ 0 \in 0 .. MaxSends /\ 0 \in 0 .. MaxConnects
        /\ 0 \in 0 .. MaxTimes /\ 0 \in 0 .. MaxErrors + 1 /\ 0 \in 0 .. MaxBuffer
        /\ 0 \in 0 .. 0 + 1
    BY Sizes, Bounds
  <2> QED
    BY <1>1, <2>1, <2>2 DEF Init, TypeOK
<1> QED
  BY <1>2, Sizes DEF Init, SafeInv, RoomInv, WireInv, SocketsKept

(* What the application and the servers do. *)
LEMMA OutsideSafe ==
  ASSUME SafeInv, SetStatus \/ SetServers \/ Arrive \/ PeerEnds
  PROVE  SafeInv'
<1> USE Bounds DEF SafeInv, TypeOK, RoomInv, WireInv, SocketsKept, settings, network,
        attempt, sockets, pool, history
<1>1. CASE SetStatus
  BY <1>1 DEF SetStatus
<1>2. CASE SetServers
  BY <1>2 DEF SetServers
<1>3. CASE Arrive
  <2>1. PICK f \in Frames \cup Junk :
          /\ wire' = wire \o f
          /\ IF clean /\ f \in Frames
             THEN /\ stream' = stream \o f
                  /\ ends' = Append(ends, Len(stream) + Len(f))
                  /\ UNCHANGED <<clean, got, parsed>>
             ELSE History(FALSE)
    BY <1>3 DEF Arrive
  <2>2. f \in Seq(Byte)
    BY Sent
  <2>3. /\ wire' \in Seq(Byte) /\ Len(wire') = Len(wire) + Len(f)
        /\ stream \o f \in Seq(Byte) /\ Len(stream \o f) = Len(stream) + Len(f)
    BY <2>1, <2>2, ConcatProperties
  <2>4. Append(ends, Len(stream) + Len(f)) \in Seq(Nat)
    BY <2>2, LenProperties, AppendProperties
  <2>5. CASE clean /\ f \in Frames
    <3>1. Len(wire) \in Nat /\ Len(stream) \in Nat /\ Len(f) \in Nat
      BY <2>2, LenProperties
    <3>2. /\ stream' = stream \o f /\ ends' = Append(ends, Len(stream) + Len(f))
          /\ UNCHANGED <<clean, got, parsed>>
      BY <2>1, <2>5
    <3>3. /\ stream' \in Seq(Byte) /\ ends' \in Seq(Nat) /\ got' \in Nat
          /\ parsed' \in Seq(Frames)
      BY <2>3, <2>4, <3>2
    <3>4. Len(stream) = got + Len(wire)
      BY <2>5
    <3>5. Len(stream') = got' + Len(wire')
      BY <2>3, <3>1, <3>2, <3>4
    <3> QED
      BY <1>3, <2>3, <3>2, <3>3, <3>5 DEF Arrive
  <2>6. CASE ~(clean /\ f \in Frames)
    <3>1. History(FALSE)
      BY <2>1, <2>6
    <3>2. ~clean' /\ clean' \in BOOLEAN
      BY <3>1 DEF History
    <3>3. /\ stream' \in Seq(Byte) /\ ends' \in Seq(Nat) /\ got' \in Nat
          /\ parsed' \in Seq(Frames)
      BY <3>1, HistoryType
    <3> QED
      BY <1>3, <2>3, <3>2, <3>3 DEF Arrive
  <2> QED
    BY <2>5, <2>6
<1>4. CASE PeerEnds
  <2>1. PICK n \in 0 .. Len(wire) :
          /\ wire' = SubSeq(wire, 1, n)
          /\ stream' = IF clean THEN SubSeq(stream, 1, got + n) ELSE <<>>
    BY <1>4 DEF PeerEnds
  <2>2. /\ Len(wire) \in Nat /\ \A i \in 1 .. Len(wire) : wire[i] \in Byte
        /\ Len(stream) \in Nat /\ \A i \in 1 .. Len(stream) : stream[i] \in Byte
    BY LenProperties, ElementOfSeq
  <2>3. n \in Nat /\ n <= Len(wire) /\ got \in Nat
    BY <2>2
  <2>4. wire' \in Seq(Byte) /\ Len(wire') = n
    BY <2>1, <2>2, <2>3, SubSeqProperties
  <2>5. CASE clean
    <3>1. stream' = SubSeq(stream, 1, got + n) /\ got + n \in Int /\ got + n <= Len(stream)
      BY <2>1, <2>2, <2>3, <2>5
    <3>2. stream' \in Seq(Byte) /\ Len(stream') = got + n
      BY <2>2, <2>3, <3>1, SubSeqProperties
    <3> QED
      BY <1>4, <2>4, <3>2 DEF PeerEnds
  <2>6. CASE ~clean
    BY <1>4, <2>1, <2>4, <2>6, EmptySeq DEF PeerEnds
  <2> QED
    BY <2>5, <2>6
<1> QED
  BY <1>1, <1>2, <1>3, <1>4

(* What comes of the calls that make a connection. *)
LEMMA ConnectOkType ==
  ASSUME TypeOK, ConnectOk
  PROVE  /\ connects' \in 0 .. MaxConnects /\ net_socket' \in Fds /\ open' \subseteq Fds
         /\ link' = "up" /\ wire' = <<>> /\ sends' = sends
         /\ SocketsKept => SocketsKept'
BY Bounds, NewFdType DEF ConnectOk, Closed, TypeOK, SocketsKept

(* A failed connect_server loses no socket: those it leaves open are the   *)
(* one it keeps the number of.                                             *)
LEMMA FailuresType ==
  ASSUME TypeOK, NEW f \in Failures
  PROVE  /\ f[1] \in Fds \cup {-1} /\ f[2] \subseteq Fds
         /\ SocketsKept => f[2] \subseteq {f[1]}
<1>1. Closed \subseteq Fds /\ (SocketsKept => Closed = {})
  BY DEF Closed, TypeOK, SocketsKept
<1>2. CASE f = <<-1, Closed>>
  BY <1>1, <1>2
<1>3. CASE f \in {n \in Fds : NewFd(n)} \X {Closed}
  BY <1>1, <1>3
<1>4. CASE f \in {<<n, Closed \cup {n}>> : n \in {m \in Fds : NewFd(m)}}
  BY <1>1, <1>4
<1> QED
  BY <1>2, <1>3, <1>4 DEF Failures

(* The history of a connection that could not be made. *)
LEMMA NotConnectedType ==
  ASSUME TypeOK, NotConnected
  PROVE  /\ link' = "none" /\ wire' = <<>> /\ UNCHANGED <<sends, connects>>
         /\ ~clean' /\ clean' \in BOOLEAN /\ got' \in Nat
         /\ stream' \in Seq(Byte) /\ ends' \in Seq(Nat) /\ parsed' \in Seq(Frames)
<1>1. History(FALSE)
  BY DEF NotConnected
<1>2. ~clean' /\ clean' \in BOOLEAN
  BY <1>1 DEF History
<1> QED
  BY <1>1, <1>2, HistoryType DEF NotConnected

(* Waiting and connecting. *)
LEMMA ConnectSafe ==
  ASSUME SafeInv, Wait \/ Connect \/ ConnectFails
  PROVE  SafeInv'
<1> USE Sizes, Bounds, EmptyTypes DEF SafeInv, TypeOK, RoomInv, WireInv, SocketsKept,
        settings, network, attempt, sockets, pool, history
<1>1. CASE Wait
  BY <1>1 DEF Wait, Again
<1>2. CASE Connect
  <2>1. History(start = end) /\ (start = end) \in BOOLEAN
    BY <1>2 DEF Connect
  <2>2. /\ stream' \in Seq(Byte) /\ ends' \in Seq(Nat) /\ got' \in Nat
        /\ parsed' \in Seq(Frames) /\ Len(stream') = 0 /\ got' = 0
    BY <2>1, HistoryType
  <2>3. clean' \in BOOLEAN
    BY <2>1, HistoryType
  <2>4. /\ connects' \in 0 .. MaxConnects /\ net_socket' \in Fds /\ open' \subseteq Fds
        /\ link' = "up" /\ wire' = <<>> /\ sends' = sends /\ SocketsKept'
    BY <1>2, ConnectOkType DEF Connect
  <2> QED
    BY <1>2, <2>2, <2>3, <2>4 DEF Connect
<1>3. CASE ConnectFails
  <2>1. /\ link' = "none" /\ wire' = <<>> /\ UNCHANGED <<sends, connects>>
        /\ ~clean' /\ clean' \in BOOLEAN /\ got' \in Nat
        /\ stream' \in Seq(Byte) /\ ends' \in Seq(Nat) /\ parsed' \in Seq(Frames)
    BY <1>3, NotConnectedType DEF ConnectFails
  <2>2. PICK f \in Failures :
          IF status = "stop" THEN net_socket' = 0 /\ open' = f[2] \ {f[1]}
                             ELSE net_socket' = f[1] /\ open' = f[2]
    BY <1>3 DEF ConnectFails
  <2>3. /\ f[1] \in Fds \cup {-1} /\ f[2] \subseteq Fds
        /\ f[2] \subseteq {f[1]}
    BY FailuresType
  <2>4. /\ net_socket' \in Fds \cup {-1, 0} /\ open' \subseteq Fds
        /\ open' \subseteq {net_socket'}
    BY <2>2, <2>3
  <2>5. pc' \in {"connect", "wait", "ended"}
    BY <1>3 DEF ConnectFails
  <2> QED
    BY <1>3, <2>1, <2>4, <2>5 DEF ConnectFails
<1> QED
  BY <1>1, <1>2, <1>3

(* What is left when the first bytes were received. *)
LEMMA SuffixType ==
  ASSUME NEW s \in Seq(Byte), NEW n \in Nat, n <= Len(s)
  PROVE  /\ SubSeq(s, n + 1, Len(s)) \in Seq(Byte)
         /\ Len(SubSeq(s, n + 1, Len(s))) = Len(s) - n
         /\ \A i \in 1 .. Len(s) - n : SubSeq(s, n + 1, Len(s))[i] = s[n + i]
<1>1. Len(s) \in Nat /\ \A i \in 1 .. Len(s) : s[i] \in Byte
  BY LenProperties, ElementOfSeq
<1>2. \A i \in n + 1 .. Len(s) : s[i] \in Byte
  BY <1>1
<1> DEFINE l == Len(s)
<1>3. l \in Int /\ n + 1 \in Int
  BY <1>1
<1>4. /\ SubSeq(s, n + 1, l) \in Seq(Byte)
      /\ Len(SubSeq(s, n + 1, l)) = IF n + 1 <= l THEN l - (n + 1) + 1 ELSE 0
      /\ \A i \in 1 .. l - (n + 1) + 1 : SubSeq(s, n + 1, l)[i] = s[n + 1 + i - 1]
  <2> HIDE DEF l
  <2> DEFINE m == n + 1
  <2>1. m \in Int /\ \A i \in m .. l : s[i] \in Byte
    BY <1>2, <1>3 DEF l
  <2> HIDE DEF m
  <2>2. /\ SubSeq(s, m, l) \in Seq(Byte)
        /\ Len(SubSeq(s, m, l)) = IF m <= l THEN l - m + 1 ELSE 0
        /\ \A i \in 1 .. l - m + 1 : SubSeq(s, m, l)[i] = s[m + i - 1]
    BY <1>3, <2>1, SubSeqProperties
  <2> QED BY <2>2 DEF m
<1>5. \A i \in 1 .. l - n : n + 1 + i - 1 = n + i
  BY <1>1
<1>6. l - (n + 1) + 1 = l - n /\ (IF n + 1 <= l THEN l - n ELSE 0) = l - n
  BY <1>1
<1> QED
  BY <1>4, <1>5, <1>6

(* One recv. *)
LEMMA RecvSafe ==
  ASSUME SafeInv,
         RecvStopped \/ RecvServerChanged \/ RecvData \/ RecvTimeout \/ RecvEnds
  PROVE  SafeInv'
<1> USE Sizes, Bounds, EmptyTypes DEF SafeInv, TypeOK, RoomInv, WireInv, SocketsKept,
        settings, network, attempt, sockets, pool, history
<1>1. CASE RecvStopped
  <2>1. CASE pc' = "ended"
    BY <1>1, <2>1 DEF RecvStopped
  <2>2. CASE pc' # "ended"
    <3>1. NotConnected /\ CloseSocket /\ pc' = "wait" /\ pc = "recv"
          /\ UNCHANGED <<settings, attempt, pool>>
      BY <1>1, <2>2 DEF RecvStopped
    <3> QED
      BY <3>1, NotConnectedType DEF CloseSocket, Closed
  <2> QED BY <2>1, <2>2
<1>2. ASSUME NotConnected, Again, pc = "recv", UNCHANGED <<settings, pool>>,
             open' = Closed, net_socket' \in {net_socket, 0}
      PROVE  SafeInv'
  <2>1. /\ link' = "none" /\ wire' = <<>> /\ UNCHANGED <<sends, connects>>
        /\ ~clean' /\ clean' \in BOOLEAN /\ got' \in Nat
        /\ stream' \in Seq(Byte) /\ ends' \in Seq(Nat) /\ parsed' \in Seq(Frames)
    BY <1>2, NotConnectedType
  <2>2. open' = {}
    BY <1>2 DEF Closed
  <2>3. pc' = "connect" /\ server' = main /\ times' = 0 /\ errors' = 0
    BY <1>2 DEF Again
  <2>4. times' \in 0 .. MaxTimes /\ errors' \in 0 .. MaxErrors + 1
    BY <2>3
  <2> QED
    BY <1>2, <2>1, <2>2, <2>3, <2>4
<1>3. CASE RecvServerChanged
  BY <1>2, <1>3 DEF RecvServerChanged, CloseSocket
<1>7. ASSUME Reconnect, pc = "recv", UNCHANGED <<settings, pool>> PROVE SafeInv'
  BY <1>2, <1>7 DEF Reconnect
<1>4. CASE RecvTimeout
  <2>1. pc = "recv" /\ UNCHANGED <<settings, pool>>
    BY <1>4 DEF RecvTimeout, Received
  <2>2. CASE times + 1 > MaxTimes
    <3>1. Reconnect
      BY <1>4, <2>2 DEF RecvTimeout
    <3> QED BY <1>7, <2>1, <3>1
  <2>3. CASE ~(times + 1 > MaxTimes)
    <3>1. /\ times' = times + 1
          /\ UNCHANGED <<sockets, network, history, pc, server, errors, settings, pool>>
      BY <1>4, <2>3 DEF RecvTimeout
    <3>2. times' \in 0 .. MaxTimes
      BY <2>3, <3>1
    <3> QED BY <3>1, <3>2
  <2> QED BY <2>2, <2>3
<1>5. CASE RecvEnds
  <2>1. Reconnect /\ pc = "recv" /\ UNCHANGED <<settings, pool>>
    BY <1>5 DEF RecvEnds, Received
  <2> QED BY <1>7, <2>1
<1>6. CASE RecvData
  <2>1. PICK count \in 1 .. PackageSize :
          /\ count <= Len(wire)
          /\ wire' = SubSeq(wire, count + 1, Len(wire))
          /\ got' = IF clean THEN got + count ELSE 0
          /\ end' = end + count
          /\ buffer' = [i \in DOMAIN buffer |->
                          IF i \in end .. end + count - 1 THEN wire[i - end + 1]
                                                          ELSE buffer[i]]
    BY <1>6 DEF RecvData
  <2>2. /\ Len(wire) \in Nat /\ \A i \in 1 .. Len(wire) : wire[i] \in Byte
        /\ count \in Nat
    BY LenProperties, ElementOfSeq
  <2>3. wire' \in Seq(Byte) /\ Len(wire') = Len(wire) - count
    BY <2>1, <2>2, SuffixType
  <2>4. buffer' \in [0 .. MaxBuffer - 1 -> Byte]
    BY <2>1, <2>2
  <2>5. end' \in 0 .. MaxBuffer /\ start' = start /\ start' \in 0 .. end' + 1
    BY <1>6, <2>1, <2>2 DEF RecvData, Received
  <2>6. got' \in Nat
    BY <2>1, <2>2
  <2>7. clean' = clean /\ stream' = stream
    BY <1>6 DEF RecvData
  <2>8. ASSUME clean PROVE Len(stream') = got' + Len(wire')
    <3>1. Len(stream) = got + Len(wire)
      BY <2>8
    <3>2. got' = got + count
      BY <2>1, <2>8
    <3> QED BY <2>2, <2>3, <2>7, <3>1, <3>2
  <2>9. /\ pc' = "parse"
        /\ UNCHANGED <<settings, link, sends, connects, attempt, sockets, ends, parsed>>
    BY <1>6 DEF RecvData
  <2>10. TypeOK'
    BY <2>3, <2>4, <2>5, <2>6, <2>7, <2>9
  <2>11. RoomInv' /\ SocketsKept'
    BY <2>9
  <2>12. WireInv'
    BY <2>7, <2>8
  <2> QED
    BY <2>10, <2>11, <2>12
<1> QED
  BY <1>1, <1>3, <1>4, <1>5, <1>6

(* One turn of the parse loop. *)
LEMMA ParseSafe ==
  ASSUME SafeInv,
         \/ ParseShort \/ ParseOversize \/ ParseIncomplete \/ ParseOk
         \/ ParseError \/ ParseErrorReconnect
  PROVE  SafeInv'
<1> USE Sizes, Bounds, EmptyTypes DEF SafeInv, TypeOK, RoomInv, WireInv, SocketsKept,
        settings, network, attempt, sockets, pool, history
<1>1. start \in Nat /\ end \in Nat /\ end <= MaxBuffer /\ start <= end + 1
  OBVIOUS
<1>2. Preamble \in Nat /\ start <= Preamble /\ Preamble <= end + 1
  BY PreambleRange
<1>3. ASSUME Whole PROVE /\ Length \in Nat /\ Length <= PackageSize
                         /\ Preamble + Length \in Nat /\ Preamble + Length <= end
  BY <1>1, <1>3, LengthType DEF Whole
<1>4. CASE ParseShort
  <2>1. CASE UNCHANGED start /\ Pending < 3
    BY <1>1, <1>4, <2>1 DEF ParseShort, Pending
  <2>2. CASE start' = Preamble /\ end - Preamble < 3
    BY <1>1, <1>2, <1>4, <2>2 DEF ParseShort
  <2> QED
    BY <1>4, <2>1, <2>2 DEF ParseShort
<1>5. CASE ParseOversize
  <2>1. /\ pc = "parse" /\ start' = Preamble
        /\ UNCHANGED <<settings, network, pc, attempt, sockets, buffer, end, history>>
    BY <1>5 DEF ParseOversize, InFrame
  <2> QED
    BY <1>1, <1>2, <2>1
<1>6. CASE ParseIncomplete
  <2>1. /\ pc = "parse" /\ start' = Preamble /\ pc' = "compress"
        /\ UNCHANGED <<settings, network, attempt, sockets, buffer, end, history>>
    BY <1>6 DEF ParseIncomplete, InFrame
  <2>2. end - Preamble < PackageSize
    BY <1>1, <1>2, <1>6, LengthType DEF ParseIncomplete, Whole
  <2> QED
    BY <1>1, <1>2, <2>1, <2>2
<1>7. CASE ParseOk
  <2>1. /\ pc = "parse" /\ start' = Preamble + Length /\ Whole /\ Slice \in Frames
        /\ parsed' = IF clean THEN Append(parsed, Slice) ELSE <<>>
        /\ UNCHANGED <<settings, network, pc, attempt, sockets, buffer, end, clean,
                       stream, ends, got>>
    BY <1>7 DEF ParseOk, Whole, InFrame
  <2>2. parsed' \in Seq(Frames)
    BY <2>1, AppendProperties
  <2> QED
    BY <1>1, <1>3, <2>1, <2>2
<1>8. CASE ParseError
  <2>1. /\ pc = "parse" /\ start' = Preamble + Length /\ Whole
        /\ errors' = errors + 1 /\ errors <= MaxErrors
        /\ UNCHANGED <<settings, network, pc, server, times, sockets, buffer, end, history>>
    BY <1>8 DEF ParseError, Whole, InFrame
  <2> QED
    BY <1>1, <1>3, <2>1
<1>9. CASE ParseErrorReconnect
  <2>1. /\ start' = 0 /\ end' = 0 /\ pc' = "compress" /\ errors' = 0
        /\ UNCHANGED <<settings, server, times, buffer>>
    BY <1>9 DEF ParseErrorReconnect
  <2>2. CASE ConnectOk /\ History(TRUE)
    <3>1. /\ stream' \in Seq(Byte) /\ ends' \in Seq(Nat) /\ got' \in Nat
          /\ parsed' \in Seq(Frames) /\ Len(stream') = 0 /\ got' = 0
          /\ clean' \in BOOLEAN
      BY <2>2, HistoryType
    <3>2. /\ connects' \in 0 .. MaxConnects /\ net_socket' \in Fds /\ open' \subseteq Fds
          /\ link' = "up" /\ wire' = <<>> /\ sends' = sends /\ SocketsKept'
      BY <2>2, ConnectOkType
    <3>3. start' \in 0 .. end' + 1 /\ end' \in 0 .. MaxBuffer /\ end' - start' < PackageSize
          /\ errors' \in 0 .. MaxErrors + 1
      BY <2>1
    <3>4. TypeOK'
      BY <2>1, <3>1, <3>2, <3>3
    <3>5. RoomInv' /\ WireInv'
      BY <2>1, <3>1, <3>2, <3>3
    <3> QED
      BY <3>2, <3>4, <3>5
  <2>3. CASE NotConnected /\ \E f \in Failures : net_socket' = f[1] /\ open' = f[2]
    <3>1. /\ link' = "none" /\ wire' = <<>> /\ UNCHANGED <<sends, connects>>
          /\ ~clean' /\ clean' \in BOOLEAN /\ got' \in Nat
          /\ stream' \in Seq(Byte) /\ ends' \in Seq(Nat) /\ parsed' \in Seq(Frames)
      BY <2>3, NotConnectedType
    <3>2. PICK f \in Failures : net_socket' = f[1] /\ open' = f[2]
      BY <2>3
    <3>3. /\ net_socket' \in Fds \cup {-1, 0} /\ open' \subseteq Fds
          /\ open' \subseteq {net_socket'}
      BY <3>2, FailuresType
    <3>4. start' \in 0 .. end' + 1 /\ end' \in 0 .. MaxBuffer /\ end' - start' < PackageSize
          /\ errors' \in 0 .. MaxErrors + 1
      BY <2>1
    <3> QED
      BY <2>1, <3>1, <3>3, <3>4
  <2> QED
    BY <1>9, <2>2, <2>3 DEF ParseErrorReconnect
<1> QED
  BY <1>4, <1>5, <1>6, <1>7, <1>8, <1>9

(* The compaction: the unparsed bytes are less than half of the buffer. *)
LEMMA CompressSafe ==
  ASSUME SafeInv, Compress PROVE SafeInv'
<1> USE Sizes, Bounds DEF SafeInv, TypeOK, RoomInv, WireInv, SocketsKept,
        settings, network, attempt, sockets, pool, history
<1>1. /\ pc = "compress" /\ end - start < PackageSize
      /\ UNCHANGED <<settings, network, attempt, sockets, history>>
  BY DEF Compress
<1>2. start \in Nat /\ end \in Nat /\ end <= MaxBuffer /\ start <= end + 1
  OBVIOUS
<1>3. CASE UNCHANGED pool /\ pc' = "crashed"
  BY <1>1, <1>2, <1>3
<1>4. CASE UNCHANGED pool /\ pc' = "recv" /\ ~(MaxBuffer - end < PackageSize)
  BY <1>1, <1>2, <1>4
<1>5. CASE start <= end /\ pc' = "recv" /\ buffer' = Moved /\ end' = Pending /\ start' = 0
  <2>1. \A i \in DOMAIN buffer : i < Pending => start + i \in DOMAIN buffer
    BY <1>2, <1>5 DEF Pending
  <2>2. buffer' \in [0 .. MaxBuffer - 1 -> Byte]
    BY <1>5, <2>1 DEF Moved
  <2>3. end' \in Nat /\ end' < PackageSize
    BY <1>1, <1>2, <1>5 DEF Pending
  <2> QED
    BY <1>1, <1>5, <2>2, <2>3
<1> QED
  BY <1>3, <1>4, <1>5 DEF Compress

LEMMA StepSafe == SafeInv /\ [Next]_vars => SafeInv'
<1> SUFFICES ASSUME SafeInv, [Next]_vars PROVE SafeInv'
  OBVIOUS
<1>1. CASE Next
  BY <1>1, OutsideSafe, ConnectSafe, RecvSafe, ParseSafe, CompressSafe DEF Next, XiheStep
<1>2. CASE UNCHANGED vars
  BY <1>2 DEF vars, settings, network, attempt, sockets, pool, history, SafeInv, TypeOK,
              RoomInv, WireInv, SocketsKept
<1> QED
  BY <1>1, <1>2

LEMMA Safe == Spec => []SafeInv
BY InitSafe, StepSafe, PTL DEF Spec

(* The driver's receive buffer, its indices and its socket keep their      *)
(* types: end never leaves the buffer and start is at most one behind it.  *)
THEOREM TypeCorrect == Spec => []TypeOK
<1>1. SafeInv => TypeOK
  BY DEF SafeInv
<1> QED
  BY Safe, <1>1, PTL

(* Whatever is sent and however recv cuts it, xihe_handle never receives   *)
(* past its buffer: a buffer of two packages is enough.                    *)
THEOREM RoomKept == Spec => []RoomToReceive
<1>1. SafeInv => RoomToReceive
  BY DEF SafeInv, RoomInv, RoomToReceive
<1> QED
  BY Safe, <1>1, PTL

(* Reconnections and failures of connect_server lose no socket; that the   *)
(* last one stays open on destroy is not excluded.                         *)
THEOREM SocketsSafe == Spec => []SocketsKept
<1>1. SafeInv => SocketsKept
  BY DEF SafeInv
<1> QED
  BY Safe, <1>1, PTL

-----------------------------------------------------------------------------
(* The parse loop on a clean stream.                                       *)

(* The k-th frame is a good one, of which the stream has what arrived. *)
FrameAt(k) ==
  \E f \in Frames :
    /\ ends[k] = Position(k - 1) + Len(f)
    /\ \A i \in 1 .. Len(f) :
         Position(k - 1) + i <= Len(stream) => stream[Position(k - 1) + i] = f[i]

(* The k-th frame parsed is the k-th of the stream. *)
ParsedAt(k) ==
  /\ Position(k) <= got
  /\ Len(parsed[k]) = Position(k) - Position(k - 1)
  /\ \A i \in 1 .. Len(parsed[k]) : parsed[k][i] = stream[Position(k - 1) + i]

(* The good frames lie in the stream one behind the other, and wire holds  *)
(* what was not received of it. The last ones may be cut off.              *)
FrameInv ==
  clean =>
    /\ Len(stream) <= Position(Len(ends))
    /\ link = "up" => Len(stream) = Position(Len(ends))
    /\ \A j, k \in 1 .. Len(ends) : j < k => ends[j] < ends[k]
    /\ \A k \in 1 .. Len(ends) : FrameAt(k)
    /\ \A i \in 1 .. Len(wire) : wire[i] = stream[got + i]

(* The parsed frames are the first ones, the buffer goes on behind them,   *)
(* and when the loop is left the next frame has not been received whole.   *)
ParsedInv ==
  clean =>
    /\ start <= end
    /\ Len(parsed) <= Len(ends)
    /\ Position(Len(parsed)) = got - Pending
    /\ \A k \in 1 .. Len(parsed) : ParsedAt(k)
    /\ \A i \in start .. end - 1 : buffer[i] = stream[got - end + i + 1]
    /\ pc \in {"compress", "recv"} /\ Len(parsed) < Len(ends)
         => got < ends[Len(parsed) + 1]

IInv == SafeInv /\ FrameInv /\ ParsedInv

(* A good frame begins with 0xD3 and has the length xihe_handle computes. *)
LEMMA GoodFrame ==
  ASSUME NEW f \in Frames
  PROVE  /\ f \in Seq(Byte) /\ Len(f) \in Nat /\ Len(f) >= 6 /\ Len(f) <= PackageSize
         /\ f[1] = 211 /\ FrameLength(f[2], f[3]) = Len(f)
BY StreamAssumption

(* Frames end at positions of the stream. *)
LEMMA PositionType ==
  ASSUME TypeOK, NEW k \in 0 .. Len(ends)
  PROVE  Position(k) \in Nat
<1>1. ends \in Seq(Nat) /\ Len(ends) \in Nat
  BY LenProperties DEF TypeOK
<1>2. k = 0 \/ k \in 1 .. Len(ends)
  BY <1>1
<1> QED
  BY <1>1, <1>2, ElementOfSeq DEF Position

(* What was parsed lies in what has been received. *)
LEMMA ParsedBytes ==
  ASSUME NEW k, ParsedAt(k), Position(k) \in Nat, Position(k - 1) \in Nat,
         got \in Nat, NEW i \in 1 .. Len(parsed[k])
  PROVE  /\ Position(k - 1) + i \in 1 .. got
         /\ parsed[k][i] = stream[Position(k - 1) + i]
<1>1. Position(k) <= got /\ Len(parsed[k]) = Position(k) - Position(k - 1)
  BY DEF ParsedAt
<1>2. parsed[k][i] = stream[Position(k - 1) + i]
  BY DEF ParsedAt
<1> QED
  BY <1>1, <1>2

(* Nothing is asked of a history that was forgotten. *)
LEMMA Forgotten == ~clean' => FrameInv' /\ ParsedInv'
BY DEF FrameInv, ParsedInv

(* A connection that begins, or begins again, with an empty buffer has     *)
(* received nothing.                                                       *)
LEMMA Begun ==
  ASSUME TypeOK, NEW b \in BOOLEAN, History(b), wire' = <<>>,
         b => \E n \in Nat : start' = n /\ end' = n
  PROVE  FrameInv' /\ ParsedInv'
<1>1. CASE ~b
  BY <1>1, Forgotten DEF History
<1>2. CASE b
  <2>1. /\ stream' = <<>> /\ ends' = <<>> /\ got' = 0 /\ parsed' = <<>> /\ wire' = <<>>
    BY <1>2 DEF History
  <2>2. Len(<<>>) = 0
    BY EmptyTypes
  <2>3. Len(ends') = 0 /\ Len(parsed') = 0 /\ Len(stream') = 0 /\ Len(wire') = 0
    BY <2>1, <2>2
  <2>4. Position(0)' = 0
    BY DEF Position
  <2>5. FrameInv'
    BY <2>1, <2>3, <2>4 DEF FrameInv
  <2>6. PICK n \in Nat : start' = n /\ end' = n
    BY <1>2
  <2>7. Position(Len(parsed))' = 0
    BY <2>3 DEF Position
  <2>8. ParsedInv'
    <3>1. n <= n /\ n .. n - 1 = {} /\ 0 - (n - n) = 0 /\ 1 .. 0 = {} /\ ~(0 < 0) /\ 0 <= 0
      OBVIOUS
    <3> QED
      BY <2>1, <2>3, <2>6, <2>7, <3>1 DEF ParsedInv, Pending
  <2> QED BY <2>5, <2>8
<1> QED
  BY <1>1, <1>2

(* A step that leaves the stream and the buffer alone. *)
LEMMA Kept ==
  ASSUME FrameInv, ParsedInv, UNCHANGED <<history, wire, link, pool>>,
         pc' \in {"compress", "recv"} => pc \in {"compress", "recv"}
  PROVE  FrameInv' /\ ParsedInv'
<1>1. /\ clean' = clean /\ stream' = stream /\ ends' = ends /\ got' = got /\ parsed' = parsed
      /\ wire' = wire /\ link' = link /\ buffer' = buffer /\ start' = start /\ end' = end
  BY DEF history, pool
<1>2. FrameInv'
  BY <1>1 DEF FrameInv, FrameAt, Position
<1>3. ParsedInv'
  BY <1>1 DEF ParsedInv, ParsedAt, Position, Pending
<1> QED
  BY <1>2, <1>3

(* Another good frame arrives. *)
LEMMA ArriveClean ==
  ASSUME IInv, Arrive PROVE FrameInv' /\ ParsedInv'
<1>0. TypeOK /\ WireInv /\ FrameInv /\ ParsedInv /\ link = "up"
  BY DEF IInv, SafeInv, Arrive
<1>1. PICK f \in Frames \cup Junk :
        /\ wire' = wire \o f
        /\ IF clean /\ f \in Frames
           THEN /\ stream' = stream \o f
                /\ ends' = Append(ends, Len(stream) + Len(f))
                /\ UNCHANGED <<clean, got, parsed>>
           ELSE History(FALSE)
  BY DEF Arrive
<1>2. CASE ~(clean /\ f \in Frames)
  BY <1>1, <1>2, Forgotten DEF History
<1>3. CASE clean /\ f \in Frames
  <2> DEFINE l == Len(stream)
             n == Len(ends)
             w == Len(wire)
  <2>1. f \in Seq(Byte) /\ Len(f) \in Nat /\ Len(f) >= 6
    BY <1>3, GoodFrame
  <2>2. stream \in Seq(Byte) /\ ends \in Seq(Nat) /\ wire \in Seq(Byte) /\ got \in Nat
    BY <1>0 DEF TypeOK
  <2>3. l \in Nat /\ n \in Nat /\ w \in Nat /\ l = got + w
    BY <1>0, <1>3, <2>2, LenProperties DEF WireInv
  <2>0. /\ stream' = stream \o f /\ ends' = Append(ends, l + Len(f))
         /\ UNCHANGED <<clean, got, parsed>>
    BY <1>1, <1>3
  <2>4. /\ Len(stream') = l + Len(f)
        /\ \A i \in 1 .. l : stream'[i] = stream[i]
        /\ \A i \in 1 .. Len(f) : stream'[l + i] = f[i]
    <3>1. /\ Len(stream \o f) = l + Len(f)
          /\ \A i \in 1 .. l + Len(f) :
               (stream \o f)[i] = IF i <= l THEN stream[i] ELSE f[i - l]
      BY <2>1, <2>2, ConcatProperties
    <3> HIDE DEF l
    <3>2. ASSUME NEW i \in 1 .. l PROVE (stream \o f)[i] = stream[i]
      BY <2>1, <2>3, <3>1
    <3>3. ASSUME NEW i \in 1 .. Len(f) PROVE (stream \o f)[l + i] = f[i]
      <4> DEFINE j == l + i
      <4>1. j \in 1 .. l + Len(f) /\ ~(j <= l) /\ j - l = i
        BY <2>1, <2>3
      <4> HIDE DEF j
      <4>2. (stream \o f)[j] = f[i]
        BY <3>1, <4>1
      <4> QED BY <4>2 DEF j
    <3> QED BY <2>0, <3>1, <3>2, <3>3
  <2>5. /\ Len(wire') = w + Len(f)
        /\ \A i \in 1 .. w : wire'[i] = wire[i]
        /\ \A i \in 1 .. Len(f) : wire'[w + i] = f[i]
    BY <1>1, <2>1, <2>2, <2>3
  <2>6. /\ Len(ends') = n + 1
        /\ \A k \in 1 .. n : ends'[k] = ends[k]
        /\ ends'[n + 1] = l + Len(f)
    <3>1. l + Len(f) \in Nat
      BY <2>1, <2>3
    <3> HIDE DEF l
    <3> QED BY <2>2, <2>0, <3>1, AppendProperties
  <2>7. /\ l = Position(n)
        /\ \A j, k \in 1 .. n : j < k => ends[j] < ends[k]
        /\ \A k \in 1 .. n : FrameAt(k)
        /\ \A i \in 1 .. w : wire[i] = stream[got + i]
    BY <1>0, <1>3 DEF FrameInv
  <2>8. clean' = clean /\ got' = got /\ parsed' = parsed
        /\ UNCHANGED <<link, pc, start, end, buffer>>
    BY <1>1, <1>3 DEF Arrive, pool
  <2>9. ASSUME NEW k \in 0 .. n PROVE Position(k)' = Position(k) /\ Position(k) \in Nat
    BY <1>0, <2>3, <2>6, PositionType DEF Position
  <2>10. \A k \in 1 .. n : ends[k] <= l
    <3>1. ASSUME NEW k \in 1 .. n PROVE ends[k] <= l
      <4>1. n # 0 /\ n \in 1 .. n /\ ends[k] \in Nat /\ ends[n] \in Nat /\ l = ends[n]
        BY <2>2, <2>3, <2>7, ElementOfSeq DEF Position
      <4>2. k = n \/ ends[k] < ends[n]
        BY <2>3, <2>7, <4>1
      <4> QED BY <4>1, <4>2
    <3> QED BY <3>1
  <2> HIDE DEF l, n, w
  <2>11. Position(Len(ends))' = l + Len(f)
    BY <2>3, <2>6 DEF Position
  <2>12. \A j, k \in 1 .. n + 1 : j < k => ends'[j] < ends'[k]
    <3>1. ASSUME NEW j \in 1 .. n + 1, NEW k \in 1 .. n + 1, j < k PROVE ends'[j] < ends'[k]
      <4>1. CASE k = n + 1
        <5>1. j \in 1 .. n
          BY <2>3, <3>1, <4>1
        <5>2. ends[j] \in Nat /\ ends[j] <= l
          BY <2>2, <2>10, <5>1, ElementOfSeq DEF n
        <5> QED BY <2>1, <2>3, <2>6, <4>1, <5>1, <5>2
      <4>2. CASE k # n + 1
        BY <2>3, <2>6, <2>7, <3>1, <4>2
      <4> QED BY <4>1, <4>2
    <3> QED BY <3>1
  <2>13. ASSUME NEW k \in 1 .. n + 1 PROVE FrameAt(k)'
    <3>1. CASE k = n + 1
      <4>1. Position(k - 1)' = l
        BY <2>3, <2>7, <2>9, <3>1
      <4>2. \A i \in 1 .. Len(f) : l + i <= Len(stream') => stream'[l + i] = f[i]
        BY <2>4
      <4> QED BY <1>3, <2>6, <3>1, <4>1, <4>2 DEF FrameAt
    <3>2. CASE k # n + 1
      <4>1. k \in 1 .. n /\ k - 1 \in 0 .. n
        BY <2>3, <3>2
      <4>2. PICK g \in Frames :
              /\ ends[k] = Position(k - 1) + Len(g)
              /\ \A i \in 1 .. Len(g) :
                   Position(k - 1) + i <= l => stream[Position(k - 1) + i] = g[i]
        BY <2>7, <4>1 DEF FrameAt, l
      <4>3. Position(k - 1)' = Position(k - 1) /\ Position(k - 1) \in Nat
        BY <2>9, <4>1
      <4>4. ends'[k] = Position(k - 1) + Len(g) /\ ends[k] <= l /\ Len(g) \in Nat
        BY <2>6, <2>10, <4>1, <4>2, GoodFrame
      <4>5. \A i \in 1 .. Len(g) : stream'[Position(k - 1) + i] = g[i]
        <5> DEFINE p == Position(k - 1)
        <5>1. p \in Nat /\ Len(g) \in Nat /\ l \in Nat /\ p + Len(g) <= l
          BY <2>3, <2>6, <4>1, <4>3, <4>4
        <5>2. \A i \in 1 .. Len(g) : p + i <= l => stream[p + i] = g[i]
          BY <4>2
        <5> HIDE DEF p
        <5>3. \A i \in 1 .. Len(g) : p + i \in 1 .. l /\ p + i <= l
          BY <5>1
        <5>4. \A i \in 1 .. Len(g) : stream'[p + i] = g[i]
          BY <2>4, <5>2, <5>3
        <5> QED BY <5>4 DEF p
      <4> QED BY <4>3, <4>4, <4>5 DEF FrameAt
    <3> QED BY <3>1, <3>2
  <2>14. \A i \in 1 .. w + Len(f) : wire'[i] = stream'[got + i]
    <3>1. ASSUME NEW i \in 1 .. w + Len(f) PROVE wire'[i] = stream'[got + i]
      <4>1. CASE i <= w
        <5>1. i \in 1 .. w /\ got + i \in 1 .. l
          BY <2>1, <2>2, <2>3, <4>1
        <5> QED BY <2>4, <2>5, <2>7, <5>1
      <4>2. CASE i > w
        <5>1. i - w \in 1 .. Len(f) /\ w + (i - w) = i /\ l + (i - w) = got + i
          BY <2>1, <2>2, <2>3, <4>2
        <5> QED BY <2>4, <2>5, <5>1
      <4> QED BY <2>3, <4>1, <4>2
    <3> QED BY <3>1
  <2>15. FrameInv'
    BY <2>1, <2>3, <2>4, <2>5, <2>6, <2>8, <2>11, <2>12, <2>13, <2>14 DEF FrameInv
  <2>16. ParsedInv'
    <3>1. /\ start <= end /\ Len(parsed) <= n
          /\ Position(Len(parsed)) = got - Pending
          /\ \A k \in 1 .. Len(parsed) : ParsedAt(k)
          /\ \A i \in start .. end - 1 : buffer[i] = stream[got - end + i + 1]
          /\ pc \in {"compress", "recv"} /\ Len(parsed) < n => got < ends[Len(parsed) + 1]
      BY <1>0, <1>3 DEF ParsedInv, n
    <3>2. Len(parsed) \in Nat /\ start \in Nat /\ end \in Nat
      BY <1>0, LenProperties DEF TypeOK
    <3>3. Len(parsed) \in 0 .. n /\ Position(Len(parsed)) \in Nat
      BY <2>3, <2>9, <3>1, <3>2
    <3>4. Position(Len(parsed))' = got - Pending
      BY <2>8, <2>9, <3>1, <3>3
    <3>5. ASSUME NEW k \in 1 .. Len(parsed) PROVE ParsedAt(k)'
      <4>1. k \in 0 .. n /\ k - 1 \in 0 .. n
        BY <2>3, <3>1, <3>2
      <4>2. ParsedAt(k) /\ Position(k)' = Position(k) /\ Position(k - 1)' = Position(k - 1)
            /\ Position(k) \in Nat /\ Position(k - 1) \in Nat
        BY <2>9, <3>1, <4>1
      <4>3. \A i \in 1 .. Len(parsed[k]) :
              Position(k - 1) + i \in 1 .. got /\ parsed[k][i] = stream[Position(k - 1) + i]
        BY <2>2, <4>2, ParsedBytes
      <4>4. \A j \in 1 .. got : j \in 1 .. l
        BY <2>2, <2>3
      <4> QED BY <2>4, <2>8, <4>2, <4>3, <4>4 DEF ParsedAt
    <3>6. \A i \in start .. end - 1 : buffer[i] = stream'[got - end + i + 1]
      <4>1. ASSUME NEW i \in start .. end - 1 PROVE got - end + i + 1 \in 1 .. l
        <5>1. 0 <= got - end + start
          BY <2>2, <3>1, <3>2, <3>3 DEF Pending
        <5>2. i \in Int /\ start <= i /\ i + 1 <= end
          BY <3>2, <4>1
        <5> QED BY <2>2, <2>3, <3>2, <5>1, <5>2
      <4> QED BY <2>4, <3>1, <4>1
    <3>7. pc \in {"compress", "recv"} => got < ends'[Len(parsed) + 1]
      <4>1. CASE Len(parsed) < n
        BY <2>3, <2>6, <3>1, <3>2, <4>1
      <4>2. CASE Len(parsed) = n
        BY <2>1, <2>2, <2>3, <2>6, <4>2
      <4> QED BY <2>3, <3>1, <3>2, <4>1, <4>2
    <3> QED
      BY <2>3, <2>6, <2>8, <3>1, <3>2, <3>4, <3>5, <3>6, <3>7 DEF ParsedInv, Pending
  <2> QED
    BY <2>15, <2>16
<1> QED
  BY <1>2, <1>3

(* A prefix of a sequence of bytes. *)
LEMMA PrefixType ==
  ASSUME NEW s \in Seq(Byte), NEW n \in Nat, n <= Len(s)
  PROVE  /\ SubSeq(s, 1, n) \in Seq(Byte)
         /\ Len(SubSeq(s, 1, n)) = n
         /\ \A i \in 1 .. n : SubSeq(s, 1, n)[i] = s[i]
<1>1. Len(s) \in Nat /\ \A i \in 1 .. Len(s) : s[i] \in Byte
  BY LenProperties, ElementOfSeq
<1>2. \A i \in 1 .. n : s[i] \in Byte
  BY <1>1
<1>3. /\ SubSeq(s, 1, n) \in Seq(Byte)
      /\ Len(SubSeq(s, 1, n)) = IF 1 <= n THEN n - 1 + 1 ELSE 0
      /\ \A i \in 1 .. n - 1 + 1 : SubSeq(s, 1, n)[i] = s[1 + i - 1]
  BY <1>2, SubSeqProperties
<1>4. n - 1 + 1 = n /\ (IF 1 <= n THEN n ELSE 0) = n /\ \A i \in 1 .. n : 1 + i - 1 = i
  OBVIOUS
<1> QED
  BY <1>3, <1>4

(* The end of a connection cuts off what was not received. *)
LEMMA PeerEndsClean ==
  ASSUME IInv, PeerEnds PROVE FrameInv' /\ ParsedInv'
<1>0. TypeOK /\ WireInv /\ FrameInv /\ ParsedInv
  BY DEF IInv, SafeInv
<1>1. PICK n \in 0 .. Len(wire) :
        /\ wire' = SubSeq(wire, 1, n)
        /\ stream' = IF clean THEN SubSeq(stream, 1, got + n) ELSE <<>>
  BY DEF PeerEnds
<1>2. link' = "ended" /\ UNCHANGED <<pc, pool, clean, ends, got, parsed>>
  BY DEF PeerEnds
<1>3. CASE ~clean
  BY <1>2, <1>3, Forgotten
<1>4. CASE clean
  <2> DEFINE l == got + n
  <2>1. /\ stream \in Seq(Byte) /\ wire \in Seq(Byte) /\ got \in Nat
        /\ Len(wire) \in Nat /\ Len(stream) \in Nat
    BY <1>0, LenProperties DEF TypeOK
  <2>2. Len(stream) = got + Len(wire)
    BY <1>0, <1>4 DEF WireInv
  <2>3. n \in Nat /\ n <= Len(wire) /\ l \in Nat /\ l <= Len(stream) /\ got <= l
    BY <2>1, <2>2
  <2>4. stream' = SubSeq(stream, 1, l)
    BY <1>1, <1>4
  <2> HIDE DEF l
  <2>5. Len(stream') = l /\ \A i \in 1 .. l : stream'[i] = stream[i]
    BY <2>1, <2>3, <2>4, PrefixType
  <2>6. Len(wire') = n /\ \A i \in 1 .. n : wire'[i] = wire[i]
    BY <1>1, <2>1, <2>3, PrefixType
  <2>7. /\ clean' = clean /\ ends' = ends /\ got' = got /\ parsed' = parsed
        /\ buffer' = buffer /\ start' = start /\ end' = end /\ pc' = pc
    BY <1>2 DEF pool
  <2>8. /\ Len(stream) <= Position(Len(ends))
        /\ \A j, k \in 1 .. Len(ends) : j < k => ends[j] < ends[k]
        /\ \A k \in 1 .. Len(ends) : FrameAt(k)
        /\ \A i \in 1 .. Len(wire) : wire[i] = stream[got + i]
    BY <1>0, <1>4 DEF FrameInv
  <2>9. /\ start <= end /\ Len(parsed) <= Len(ends)
        /\ Position(Len(parsed)) = got - Pending
        /\ \A k \in 1 .. Len(parsed) : ParsedAt(k)
        /\ \A i \in start .. end - 1 : buffer[i] = stream[got - end + i + 1]
        /\ pc \in {"compress", "recv"} /\ Len(parsed) < Len(ends)
             => got < ends[Len(parsed) + 1]
    BY <1>0, <1>4 DEF ParsedInv
  <2>10. /\ Len(ends) \in Nat /\ Len(parsed) \in Nat /\ start \in Nat /\ end \in Nat
         /\ \A k \in 0 .. Len(ends) : Position(k) \in Nat
    BY <1>0, LenProperties, PositionType DEF TypeOK
  <2>11. \A k : Position(k)' = Position(k)
    BY <2>7 DEF Position
  <2>12. ASSUME NEW k \in 1 .. Len(ends) PROVE FrameAt(k)'
    <3>1. PICK f \in Frames :
            /\ ends[k] = Position(k - 1) + Len(f)
            /\ \A i \in 1 .. Len(f) :
                 Position(k - 1) + i <= Len(stream) => stream[Position(k - 1) + i] = f[i]
      BY <2>8 DEF FrameAt
    <3>2. Position(k - 1) \in Nat /\ Len(f) \in Nat
      BY <2>10, GoodFrame
    <3>3. \A i \in 1 .. Len(f) : Position(k - 1) + i <= l => stream'[Position(k - 1) + i] = f[i]
      <4>1. ASSUME NEW i \in 1 .. Len(f), Position(k - 1) + i <= l
            PROVE  Position(k - 1) + i \in 1 .. l /\ Position(k - 1) + i <= Len(stream)
        BY <2>1, <2>3, <3>2, <4>1
      <4> QED BY <2>5, <3>1, <4>1
    <3> QED BY <2>5, <2>7, <2>11, <3>1, <3>3 DEF FrameAt
  <2>13. \A i \in 1 .. n : wire'[i] = stream'[got + i]
    <3>1. ASSUME NEW i \in 1 .. n PROVE got + i \in 1 .. l /\ i \in 1 .. Len(wire)
      BY <2>1, <2>3 DEF l
    <3> QED BY <2>5, <2>6, <2>8, <3>1
  <2>14. l <= Position(Len(ends))
    BY <2>1, <2>3, <2>8, <2>10
  <2>15. FrameInv'
    BY <1>2, <2>5, <2>6, <2>7, <2>8, <2>11, <2>12, <2>13, <2>14 DEF FrameInv
  <2>16. ASSUME NEW k \in 1 .. Len(parsed) PROVE ParsedAt(k)'
    <3>1. ParsedAt(k) /\ Position(k) \in Nat /\ Position(k - 1) \in Nat
      BY <2>9, <2>10
    <3>2. \A i \in 1 .. Len(parsed[k]) :
            Position(k - 1) + i \in 1 .. got /\ parsed[k][i] = stream[Position(k - 1) + i]
      BY <2>1, <3>1, ParsedBytes
    <3>3. \A j \in 1 .. got : j \in 1 .. l
      BY <2>1, <2>3
    <3> QED BY <2>5, <2>7, <2>11, <3>1, <3>2, <3>3 DEF ParsedAt
  <2>17. \A i \in start .. end - 1 : buffer[i] = stream'[got - end + i + 1]
    <3>1. Len(parsed) \in 0 .. Len(ends)
      BY <2>9, <2>10
    <3>2. ASSUME NEW i \in start .. end - 1 PROVE got - end + i + 1 \in 1 .. l
      BY <2>1, <2>3, <2>9, <2>10, <3>1 DEF Pending
    <3> QED BY <2>5, <2>9, <3>2
  <2>18. Pending' = Pending
    BY <2>7 DEF Pending
  <2>19. ParsedInv'
    BY <2>7, <2>9, <2>11, <2>16, <2>17, <2>18 DEF ParsedInv
  <2> QED
    BY <2>15, <2>19
<1> QED
  BY <1>3, <1>4

(* A recv moves the border between the buffer and wire. *)
LEMMA RecvDataClean ==
  ASSUME IInv, RecvData PROVE FrameInv' /\ ParsedInv'
<1>0. TypeOK /\ WireInv /\ FrameInv /\ ParsedInv /\ end + PackageSize <= MaxBuffer
  BY DEF IInv, SafeInv, RecvData, Received, RoomInv
<1>1. PICK count \in 1 .. PackageSize :
        /\ count <= Len(wire)
        /\ wire' = SubSeq(wire, count + 1, Len(wire))
        /\ got' = IF clean THEN got + count ELSE 0
        /\ end' = end + count
        /\ buffer' = [i \in DOMAIN buffer |->
                        IF i \in end .. end + count - 1 THEN wire[i - end + 1]
                                                        ELSE buffer[i]]
  BY DEF RecvData
<1>2. pc' = "parse" /\ UNCHANGED <<link, start, clean, stream, ends, parsed>>
  BY DEF RecvData
<1>3. CASE ~clean
  BY <1>2, <1>3, Forgotten
<1>4. CASE clean
  <2>1. /\ wire \in Seq(Byte) /\ got \in Nat /\ start \in Nat /\ end \in Nat
        /\ Len(wire) \in Nat /\ Len(stream) \in Nat /\ count \in Nat
        /\ PackageSize \in Nat /\ MaxBuffer \in Nat
        /\ DOMAIN buffer = 0 .. MaxBuffer - 1
    BY <1>0, LenProperties, Sizes DEF TypeOK
  <2>2. got' = got + count /\ clean' = clean
    BY <1>1, <1>2, <1>4
  <2>3. Len(wire') = Len(wire) - count
        /\ \A i \in 1 .. Len(wire) - count : wire'[i] = wire[count + i]
    BY <1>1, <2>1, SuffixType
  <2>4. /\ start <= end /\ Len(parsed) <= Len(ends)
        /\ Position(Len(parsed)) = got - Pending
        /\ \A k \in 1 .. Len(parsed) : ParsedAt(k)
        /\ \A i \in start .. end - 1 : buffer[i] = stream[got - end + i + 1]
    BY <1>0, <1>4 DEF ParsedInv
  <2>5. /\ Len(stream) <= Position(Len(ends))
        /\ link = "up" => Len(stream) = Position(Len(ends))
        /\ \A j, k \in 1 .. Len(ends) : j < k => ends[j] < ends[k]
        /\ \A k \in 1 .. Len(ends) : FrameAt(k)
        /\ \A i \in 1 .. Len(wire) : wire[i] = stream[got + i]
    BY <1>0, <1>4 DEF FrameInv
  <2>6. \A k : Position(k)' = Position(k)
    BY <1>2 DEF Position
  <2>7. \A k : FrameAt(k)' <=> FrameAt(k)
    BY <1>2 DEF FrameAt, Position
  <2>8. ASSUME NEW i \in 1 .. Len(wire) - count
        PROVE  wire'[i] = stream[got + count + i]
    <3>1. count + i \in 1 .. Len(wire) /\ got + (count + i) = got + count + i
      BY <1>1, <2>1
    <3> QED BY <2>3, <2>5, <3>1
  <2>9. FrameInv'
    BY <1>2, <2>2, <2>3, <2>5, <2>6, <2>7, <2>8 DEF FrameInv
  <2>10. ASSUME NEW i \in start .. end + count - 1
         PROVE  buffer'[i] = stream[got - end + i + 1]
    <3>1. i \in DOMAIN buffer
      BY <1>0, <2>1
    <3>2. CASE i <= end - 1
      <4>1. i \in start .. end - 1 /\ ~(i \in end .. end + count - 1)
        BY <2>1, <3>2
      <4> QED BY <1>1, <2>4, <3>1, <4>1
    <3>3. CASE i >= end
      <4>1. i \in end .. end + count - 1 /\ i - end + 1 \in 1 .. Len(wire)
            /\ got + (i - end + 1) = got - end + i + 1
        BY <1>1, <2>1, <3>3
      <4>2. buffer'[i] = wire[i - end + 1]
        BY <1>1, <3>1, <4>1
      <4> QED BY <2>5, <4>1, <4>2
    <3> QED BY <2>1, <3>2, <3>3
  <2>11. ASSUME NEW k \in 1 .. Len(parsed) PROVE ParsedAt(k)'
    <3>1. /\ Position(k) <= got
          /\ Len(parsed[k]) = Position(k) - Position(k - 1)
          /\ \A i \in 1 .. Len(parsed[k]) : parsed[k][i] = stream[Position(k - 1) + i]
      BY <2>4 DEF ParsedAt
    <3>2. Position(k) \in Nat
      <4>1. k \in 0 .. Len(ends)
        BY <1>0, <2>4, LenProperties DEF TypeOK
      <4> QED BY <1>0, <4>1, PositionType
    <3>3. Position(k) <= got + count
      BY <2>1, <3>1, <3>2
    <3> QED BY <1>2, <2>2, <2>6, <3>1, <3>3 DEF ParsedAt
  <2>12. got + count - (end + count - start) = got - (end - start)
         /\ got + count - (end + count) = got - end /\ start <= end + count
    BY <2>1, <2>4
  <2>13. Position(Len(parsed))' = got' - Pending'
    <3>1. Position(Len(parsed))' = got - (end - start)
      BY <1>2, <2>4, <2>6 DEF Pending
    <3>2. got' - Pending' = got + count - (end + count - start)
      <4>1. got' = got + count /\ end' = end + count /\ start' = start
        BY <1>1, <1>2, <2>2
      <4>2. Pending' = end + count - start
        BY <2>1, <4>1 DEF Pending
      <4> QED BY <2>1, <4>1, <4>2
    <3> QED BY <2>12, <3>1, <3>2
  <2>14. ParsedInv'
    <3>1. start' <= end' /\ Len(parsed') <= Len(ends') /\ ~(pc' \in {"compress", "recv"})
      BY <1>1, <1>2, <2>4, <2>12
    <3>2. \A k \in 1 .. Len(parsed') : ParsedAt(k)'
      BY <1>2, <2>11
    <3>3. \A i \in start' .. end' - 1 : buffer'[i] = stream'[got' - end' + i + 1]
      <4>1. ASSUME NEW i \in start .. end + count - 1
            PROVE  buffer'[i] = stream[got + count - (end + count) + i + 1]
        BY <2>10, <2>12
      <4>2. /\ got' = got + count /\ end' = end + count /\ start' = start
            /\ stream' = stream
        BY <1>1, <1>2, <2>2
      <4> QED BY <2>1, <4>1, <4>2
    <3> QED BY <2>13, <3>1, <3>2, <3>3 DEF ParsedInv
  <2> QED
    BY <2>9, <2>14
<1> QED
  BY <1>3, <1>4

(* With a byte unparsed there is a frame that was not parsed. *)
LEMMA MoreFrames ==
  ASSUME IInv, clean, Pending >= 1 PROVE Len(parsed) < Len(ends)
<1>0. TypeOK /\ WireInv /\ FrameInv /\ ParsedInv
  BY DEF IInv, SafeInv
<1>1. /\ Len(parsed) \in Nat /\ Len(ends) \in Nat /\ Len(wire) \in Nat /\ got \in Nat
      /\ start \in Nat /\ end \in Nat
  BY <1>0, LenProperties DEF TypeOK
<1>2. Len(stream) = got + Len(wire) /\ Len(stream) <= Position(Len(ends))
  BY <1>0 DEF WireInv, FrameInv
<1>3. Len(parsed) <= Len(ends) /\ Position(Len(parsed)) = got - Pending
  BY <1>0 DEF ParsedInv
<1>4. Position(Len(ends)) \in Nat
  BY <1>0, <1>1, PositionType
<1>5. CASE Len(parsed) = Len(ends)
  <2>1. Position(Len(ends)) = got - Pending
    BY <1>3, <1>5
  <2>2. Pending \in Int
    BY <1>1 DEF Pending
  <2> QED BY <1>1, <1>2, <1>4, <2>1, <2>2
<1> QED
  BY <1>1, <1>3, <1>5

(* The unparsed bytes of the buffer are those of the next frame. *)
LEMMA NextFrame ==
  ASSUME IInv, clean, Len(parsed) < Len(ends)
  PROVE  \E f \in Frames : /\ ends[Len(parsed) + 1] = got - Pending + Len(f)
                           /\ \A i \in 1 .. Len(f) : i <= Pending => buffer[start + i - 1] = f[i]
<1>0. TypeOK /\ WireInv /\ FrameInv /\ ParsedInv
  BY DEF IInv, SafeInv
<1>1. /\ Len(parsed) \in Nat /\ Len(ends) \in Nat /\ Len(wire) \in Nat /\ got \in Nat
      /\ start \in Nat /\ end \in Nat /\ Pending \in Int
  BY <1>0, LenProperties DEF TypeOK, Pending
<1> DEFINE n == Len(parsed) + 1
<1>2. n \in 1 .. Len(ends) /\ n - 1 = Len(parsed)
  BY <1>1
<1>3. FrameAt(n)
  BY <1>0, <1>2 DEF FrameInv
<1>4. Position(n - 1) = got - Pending
  BY <1>0, <1>2 DEF ParsedInv
<1>5. Len(stream) = got + Len(wire)
  BY <1>0 DEF WireInv
<1>6. \A i \in start .. end - 1 : buffer[i] = stream[got - end + i + 1]
  BY <1>0 DEF ParsedInv
<1>7. PICK f \in Frames :
        /\ ends[n] = Position(n - 1) + Len(f)
        /\ \A i \in 1 .. Len(f) :
             Position(n - 1) + i <= Len(stream) => stream[Position(n - 1) + i] = f[i]
  BY <1>3 DEF FrameAt
<1>8. ASSUME NEW i \in 1 .. Len(f), i <= Pending PROVE buffer[start + i - 1] = f[i]
  <2>1. Len(f) \in Nat /\ i \in Nat /\ i >= 1
    BY GoodFrame
  <2>2. got - Pending + i <= Len(stream)
    BY <1>1, <1>5, <1>8, <2>1
  <2>3. stream[got - Pending + i] = f[i]
    BY <1>4, <1>7, <2>2
  <2>4. start + i - 1 \in start .. end - 1 /\ got - end + (start + i - 1) + 1 = got - Pending + i
    BY <1>1, <1>8, <2>1 DEF Pending
  <2>5. buffer[start + i - 1] = stream[got - end + (start + i - 1) + 1]
    BY <1>6, <2>4
  <2> QED BY <2>3, <2>4, <2>5
<1> QED
  BY <1>4, <1>7, <1>8

(* The scan stops where it begins. *)
LEMMA AtFrame ==
  ASSUME IInv, clean, Pending >= 3 PROVE Preamble = start
<1>0. TypeOK
  BY DEF IInv, SafeInv
<1>1. start \in Nat /\ end \in Nat /\ end <= MaxBuffer /\ MaxBuffer \in Nat
  BY <1>0, Sizes DEF TypeOK
<1>2. Pending \in Int /\ Pending >= 1
  BY <1>1 DEF Pending
<1>3. PICK f \in Frames :
        \A i \in 1 .. Len(f) : i <= Pending => buffer[start + i - 1] = f[i]
  BY <1>2, MoreFrames, NextFrame
<1>4. 1 \in 1 .. Len(f) /\ f[1] = 211 /\ start + 1 - 1 = start
  BY <1>1, GoodFrame
<1>5. buffer[start] = 211
  BY <1>2, <1>3, <1>4
<1>6. start \in start .. end /\ start < MaxBuffer
  BY <1>1 DEF Pending
<1>7. Preamble \in Nat /\ start <= Preamble /\ Preamble <= start
  BY <1>0, <1>5, <1>6, PreambleRange
<1> QED
  BY <1>1, <1>7

(* In the loop, the length is that of the next frame. *)
LEMMA CleanFrame ==
  ASSUME IInv, clean, InFrame
  PROVE  \E f \in Frames :
           /\ Len(parsed) < Len(ends) /\ ends[Len(parsed) + 1] = got - Pending + Len(f)
           /\ Length = Len(f) /\ Preamble = start
           /\ start + Length <= end => Slice = f
<1>0. TypeOK
  BY DEF IInv, SafeInv
<1>1. start \in Nat /\ end \in Nat /\ end <= MaxBuffer /\ Pending \in Int /\ Pending >= 3
  BY <1>0, Sizes DEF TypeOK, Pending, InFrame
<1>2. Len(parsed) < Len(ends) /\ Preamble = start
  BY <1>1, MoreFrames, AtFrame
<1>3. PICK f \in Frames : /\ ends[Len(parsed) + 1] = got - Pending + Len(f)
                          /\ \A i \in 1 .. Len(f) : i <= Pending => buffer[start + i - 1] = f[i]
  BY <1>2, NextFrame
<1>4. /\ f \in Seq(Byte) /\ Len(f) \in Nat /\ Len(f) >= 6
      /\ FrameLength(f[2], f[3]) = Len(f)
  BY GoodFrame
<1>5. buffer[start + 1] = f[2] /\ buffer[start + 2] = f[3]
  <2>1. 2 \in 1 .. Len(f) /\ 3 \in 1 .. Len(f) /\ start + 2 - 1 = start + 1
        /\ start + 3 - 1 = start + 2 /\ 2 <= Pending /\ 3 <= Pending
    BY <1>1, <1>4
  <2> QED BY <1>3, <2>1
<1>6. Length = Len(f)
  BY <1>2, <1>4, <1>5 DEF Length
<1>7. ASSUME start + Length <= end PROVE Slice = f
  <2>1. ASSUME NEW i \in 1 .. Len(f) PROVE buffer[start + i - 1] = f[i]
    BY <1>1, <1>3, <1>4, <1>6, <1>7 DEF Pending
  <2>2. Slice = [i \in 1 .. Len(f) |-> f[i]]
    BY <1>2, <1>6, <2>1 DEF Slice
  <2>3. f = [i \in 1 .. Len(f) |-> f[i]]
    BY <1>4, LenProperties
  <2> QED BY <2>2, <2>3
<1> QED
  BY <1>2, <1>3, <1>6, <1>7

(* A turn that ends the loop: less than a frame is left. *)
LEMMA LoopEnds ==
  ASSUME IInv, pc' = "compress", start' = start,
         UNCHANGED <<network, buffer, end, history>>,
         clean /\ Len(parsed) < Len(ends) => got < ends[Len(parsed) + 1]
  PROVE  FrameInv' /\ ParsedInv'
<1>1. /\ clean' = clean /\ stream' = stream /\ ends' = ends /\ got' = got /\ parsed' = parsed
      /\ wire' = wire /\ link' = link /\ buffer' = buffer /\ start' = start /\ end' = end
  BY DEF history, network
<1>2. FrameInv'
  BY <1>1 DEF IInv, FrameInv, FrameAt, Position
<1>3. ParsedInv'
  BY <1>1 DEF IInv, ParsedInv, ParsedAt, Position, Pending
<1> QED
  BY <1>2, <1>3

(* The turns of the parse loop that leave it: too few bytes, or not yet a  *)
(* whole frame.                                                            *)
LEMMA ParseShortClean ==
  ASSUME IInv, ParseShort PROVE FrameInv' /\ ParsedInv'
<1>0. TypeOK /\ start \in Nat /\ end \in Nat /\ got \in Nat
  BY Sizes DEF IInv, SafeInv, TypeOK
<1>1. pc' = "compress" /\ UNCHANGED <<network, buffer, end, history>>
  BY DEF ParseShort
<1>2. CASE ~clean
  BY <1>1, <1>2, Forgotten DEF history
<1>3. CASE clean
  <2>1. CASE Pending >= 3 /\ end - Preamble < 3
    BY <1>0, <1>3, <2>1, AtFrame DEF Pending
  <2>2. CASE Pending < 3 /\ start' = start
    <3>1. ASSUME Len(parsed) < Len(ends) PROVE got < ends[Len(parsed) + 1]
      <4>1. PICK f \in Frames : ends[Len(parsed) + 1] = got - Pending + Len(f)
        BY <1>3, <3>1, NextFrame
      <4>2. Len(f) \in Nat /\ Len(f) >= 6
        BY GoodFrame
      <4> QED BY <1>0, <2>2, <4>1, <4>2 DEF Pending
    <3> QED BY <1>1, <2>2, <3>1, LoopEnds
  <2> QED BY <2>1, <2>2 DEF ParseShort
<1> QED
  BY <1>2, <1>3

(* No good frame is longer than a package. *)
LEMMA ParseOversizeClean ==
  ASSUME IInv, ParseOversize PROVE FrameInv' /\ ParsedInv'
<1>1. CASE ~clean
  BY <1>1, Forgotten DEF ParseOversize, history
<1>2. CASE clean
  <2>1. PICK f \in Frames : Length = Len(f)
    BY <1>2, CleanFrame DEF ParseOversize
  <2>2. Len(f) \in Nat /\ Len(f) <= PackageSize /\ PackageSize \in Nat
    BY GoodFrame, Sizes
  <2> QED BY <2>1, <2>2 DEF ParseOversize
<1> QED
  BY <1>1, <1>2

LEMMA ParseIncompleteClean ==
  ASSUME IInv, ParseIncomplete PROVE FrameInv' /\ ParsedInv'
<1>0. TypeOK /\ start \in Nat /\ end \in Nat /\ got \in Nat
  BY Sizes DEF IInv, SafeInv, TypeOK
<1>1. /\ pc' = "compress" /\ start' = Preamble
      /\ UNCHANGED <<network, buffer, end, history>>
  BY DEF ParseIncomplete
<1>2. CASE ~clean
  BY <1>1, <1>2, Forgotten DEF history
<1>3. CASE clean
  <2>1. PICK f \in Frames :
          /\ ends[Len(parsed) + 1] = got - Pending + Len(f)
          /\ Length = Len(f) /\ Preamble = start
    BY <1>3, CleanFrame DEF ParseIncomplete
  <2>2. Len(f) \in Nat
    BY GoodFrame
  <2>3. start + Len(f) > end
    BY <1>0, <2>1, <2>2 DEF ParseIncomplete, Whole
  <2>4. got < ends[Len(parsed) + 1]
    BY <1>0, <2>1, <2>2, <2>3 DEF Pending
  <2> QED BY <1>1, <2>1, <2>4, LoopEnds
<1> QED
  BY <1>2, <1>3

(* No good frame is taken for a bad one. *)
LEMMA ParseErrorClean ==
  ASSUME IInv, ParseError PROVE FrameInv' /\ ParsedInv'
<1>0. TypeOK /\ start \in Nat /\ end \in Nat
  BY Sizes DEF IInv, SafeInv, TypeOK
<1>1. CASE ~clean
  BY <1>1, Forgotten DEF ParseError, history
<1>2. CASE clean
  <2>1. PICK f \in Frames : Preamble = start /\ (start + Length <= end => Slice = f)
    BY <1>2, CleanFrame DEF ParseError, Whole
  <2> QED BY <2>1 DEF ParseError, Whole
<1> QED
  BY <1>1, <1>2

(* Too many bad frames: the buffer is emptied, the connection made anew. *)
LEMMA ParseErrorReconnectClean ==
  ASSUME IInv, ParseErrorReconnect PROVE FrameInv' /\ ParsedInv'
<1>0. TypeOK /\ start' = 0 /\ end' = 0
  BY DEF IInv, SafeInv, ParseErrorReconnect
<1>1. CASE ConnectOk /\ History(TRUE)
  BY <1>0, <1>1, Begun DEF ConnectOk
<1>2. CASE NotConnected
  BY <1>2, Forgotten DEF NotConnected, History
<1> QED
  BY <1>1, <1>2 DEF ParseErrorReconnect

(* The next frame is parsed. *)
LEMMA ParseOkClean ==
  ASSUME IInv, ParseOk PROVE FrameInv' /\ ParsedInv'
<1>0. TypeOK /\ FrameInv /\ ParsedInv
  BY DEF IInv, SafeInv
<1>1. /\ start' = Preamble + Length
      /\ parsed' = IF clean THEN Append(parsed, Slice) ELSE <<>>
      /\ UNCHANGED <<network, pc, buffer, end, clean, stream, ends, got>>
      /\ pc = "parse" /\ InFrame /\ Preamble + Length <= end /\ Slice \in Frames
  BY DEF ParseOk, Whole, InFrame
<1>2. CASE ~clean
  BY <1>1, <1>2, Forgotten
<1>3. CASE clean
  <2> DEFINE n == Len(parsed)
  <2>1. PICK f \in Frames :
          /\ n < Len(ends) /\ ends[n + 1] = got - Pending + Len(f)
          /\ Length = Len(f) /\ Preamble = start
          /\ start + Length <= end => Slice = f
    BY <1>1, <1>3, CleanFrame
  <2>2. /\ n \in Nat /\ Len(ends) \in Nat /\ got \in Nat /\ start \in Nat /\ end \in Nat
        /\ Len(f) \in Nat /\ parsed \in Seq(Frames) /\ Pending \in Int
    BY <1>0, GoodFrame, LenProperties DEF TypeOK, Pending
  <2>3. /\ start <= end /\ Position(n) = got - Pending
        /\ \A k \in 1 .. n : ParsedAt(k)
        /\ \A i \in start .. end - 1 : buffer[i] = stream[got - end + i + 1]
    BY <1>0, <1>3 DEF ParsedInv
  <2>4. start' = start + Len(f) /\ start + Len(f) <= end /\ Slice = f
    BY <1>1, <2>1
  <2>5. parsed' = Append(parsed, f)
    BY <1>1, <1>3, <2>4
  <2>6. Len(parsed') = n + 1 /\ (\A k \in 1 .. n : parsed'[k] = parsed[k]) /\ parsed'[n + 1] = f
    BY <2>2, <2>5, AppendProperties
  <2> HIDE DEF n
  <2>7. /\ clean' = clean /\ stream' = stream /\ ends' = ends /\ got' = got /\ wire' = wire
        /\ link' = link /\ buffer' = buffer /\ end' = end /\ pc' = "parse"
    BY <1>1 DEF network
  <2>8. FrameInv'
    BY <1>0, <2>7 DEF FrameInv, FrameAt, Position
  <2>9. \A k : Position(k)' = Position(k)
    BY <2>7 DEF Position
  <2>10. Position(n + 1) = got - Pending + Len(f) /\ n + 1 - 1 = n
    BY <2>1, <2>2 DEF Position
  <2>11. Len(parsed') <= Len(ends)
    BY <2>1, <2>2, <2>6
  <2>12. Position(Len(parsed))' = got - (end - (start + Len(f)))
    <3>1. Position(Len(parsed))' = Position(n + 1)
      BY <2>6, <2>9
    <3>2. got - Pending + Len(f) = got - (end - (start + Len(f)))
      BY <2>2 DEF Pending
    <3> QED BY <2>10, <3>1, <3>2
  <2>13. ASSUME NEW k \in 1 .. n + 1 PROVE ParsedAt(k)'
    <3>1. CASE k = n + 1
      <4>1. Position(k) <= got /\ Len(f) = Position(k) - Position(k - 1)
        BY <2>2, <2>3, <2>4, <2>10, <3>1 DEF Pending
      <4>2. ASSUME NEW i \in 1 .. Len(f) PROVE f[i] = stream[Position(k - 1) + i]
        <5>1. start + i - 1 \in start .. end - 1
              /\ got - end + (start + i - 1) + 1 = got - Pending + i
          BY <2>2, <2>4 DEF Pending
        <5>2. f[i] = buffer[start + i - 1]
          <6>1. Slice = [j \in 1 .. Len(f) |-> buffer[start + j - 1]]
            BY <2>1 DEF Slice
          <6>2. Slice[i] = buffer[start + i - 1]
            BY <6>1
          <6> QED BY <2>4, <6>2
        <5>3. Position(k - 1) = got - Pending
          <6>1. k - 1 = n
            BY <2>2, <3>1
          <6> QED BY <2>3, <6>1
        <5>4. buffer[start + i - 1] = stream[got - end + (start + i - 1) + 1]
          BY <2>3, <5>1
        <5> QED BY <5>1, <5>2, <5>3, <5>4
      <4> QED BY <2>6, <2>7, <2>9, <3>1, <4>1, <4>2 DEF ParsedAt
    <3>2. CASE k # n + 1
      <4>1. k \in 1 .. n
        BY <2>2, <3>2
      <4> QED BY <2>3, <2>6, <2>7, <2>9, <4>1 DEF ParsedAt
    <3> QED BY <3>1, <3>2
  <2>14. \A i \in start + Len(f) .. end - 1 : buffer[i] = stream[got - end + i + 1]
    <3>1. \A i \in start + Len(f) .. end - 1 : i \in start .. end - 1
      BY <2>2
    <3> QED BY <2>3, <3>1
  <2>15. ParsedInv'
    <3>1. Pending' = end - (start + Len(f))
      BY <2>2, <2>4, <2>7 DEF Pending
    <3> QED
      BY <2>4, <2>6, <2>7, <2>11, <2>12, <2>13, <2>14, <3>1 DEF ParsedInv
  <2> QED
    BY <2>8, <2>15
<1> QED
  BY <1>2, <1>3

(* The compaction moves the unparsed bytes with their indices. *)
LEMMA CompressClean ==
  ASSUME IInv, Compress PROVE FrameInv' /\ ParsedInv'
<1>0. TypeOK /\ FrameInv /\ ParsedInv /\ pc = "compress"
  BY DEF IInv, SafeInv, Compress
<1>1. UNCHANGED <<wire, link, history>> /\ clean' = clean
  BY DEF Compress, network, history
<1>2. CASE ~clean
  BY <1>1, <1>2, Forgotten
<1>3. CASE UNCHANGED pool
  BY <1>0, <1>1, <1>3, Kept
<1>4. CASE clean /\ buffer' = Moved /\ end' = Pending /\ start' = 0
  <2>1. /\ start \in Nat /\ end \in Nat /\ end <= MaxBuffer /\ MaxBuffer \in Nat /\ got \in Nat
        /\ DOMAIN buffer = 0 .. MaxBuffer - 1
    BY <1>0, Sizes DEF TypeOK
  <2>2. /\ start <= end /\ Position(Len(parsed)) = got - Pending
        /\ \A i \in start .. end - 1 : buffer[i] = stream[got - end + i + 1]
        /\ Len(parsed) < Len(ends) => got < ends[Len(parsed) + 1]
    BY <1>0, <1>4 DEF ParsedInv
  <2>3. /\ stream' = stream /\ ends' = ends /\ got' = got /\ parsed' = parsed
        /\ wire' = wire /\ link' = link
    BY <1>1 DEF history
  <2>4. FrameInv'
    BY <1>0, <1>1, <2>3 DEF FrameInv, FrameAt, Position
  <2>5. Pending \in Nat /\ Pending - 0 = Pending /\ Pending' = Pending
    BY <1>4, <2>1, <2>2 DEF Pending
  <2>6. ASSUME NEW i \in 0 .. Pending - 1 PROVE buffer'[i] = stream[got - Pending + i + 1]
    <3>1. i \in DOMAIN buffer /\ i < Pending /\ start + i \in start .. end - 1
          /\ got - end + (start + i) + 1 = got - Pending + i + 1
      BY <2>1, <2>2 DEF Pending
    <3>2. buffer'[i] = buffer[start + i]
      BY <1>4, <3>1 DEF Moved
    <3> QED BY <2>2, <3>1, <3>2
  <2>7. \A k : Position(k)' = Position(k)
    BY <2>3 DEF Position
  <2>8. ParsedInv'
    <3>1. /\ Len(parsed) <= Len(ends) /\ \A k \in 1 .. Len(parsed) : ParsedAt(k)
      BY <1>0, <1>4 DEF ParsedInv
    <3>2. \A k : ParsedAt(k)' <=> ParsedAt(k)
      BY <2>3 DEF ParsedAt, Position
    <3>3. start' <= end'
      BY <1>4, <2>5
    <3>4. \A i \in start' .. end' - 1 : buffer'[i] = stream'[got' - end' + i + 1]
      BY <1>4, <2>3, <2>6
    <3> QED
      BY <2>2, <2>3, <2>5, <2>7, <3>1, <3>2, <3>3, <3>4 DEF ParsedInv
  <2> QED
    BY <2>4, <2>8
<1> QED
  BY <1>2, <1>3, <1>4 DEF Compress

(* Every step keeps FrameInv and ParsedInv. *)
LEMMA StepClean ==
  ASSUME IInv, [Next]_vars PROVE FrameInv' /\ ParsedInv'
<1>0. TypeOK /\ FrameInv /\ ParsedInv
  BY DEF IInv, SafeInv
<1> USE DEF settings, network, attempt, sockets, pool, history
<1>1. CASE SetStatus \/ SetServers
  BY <1>0, <1>1, Kept DEF SetStatus, SetServers
<1>2. CASE Arrive \/ PeerEnds
  BY <1>2, ArriveClean, PeerEndsClean
<1>3. CASE Wait
  BY <1>0, <1>3, Kept DEF Wait, Again
<1>4. CASE Connect
  <2>1. History(start = end) /\ wire' = <<>> /\ start' = start /\ end' = end
    BY <1>4 DEF Connect, ConnectOk
  <2>2. (start = end) \in BOOLEAN /\ start \in Nat
    BY <1>0, Sizes DEF TypeOK
  <2> QED BY <1>0, <2>1, <2>2, Begun
<1>5. CASE ConnectFails
  BY <1>5, Forgotten DEF ConnectFails, NotConnected, History
<1>6. CASE RecvStopped
  <2>1. CASE NotConnected
    BY <2>1, Forgotten DEF NotConnected, History
  <2>2. CASE pc' = "ended" /\ UNCHANGED <<network, history, pool>>
    BY <1>0, <2>2, Kept
  <2> QED BY <1>6, <2>1, <2>2 DEF RecvStopped
<1>7. CASE RecvServerChanged
  BY <1>7, Forgotten DEF RecvServerChanged, NotConnected, History
<1>8. CASE RecvTimeout
  <2>1. CASE Reconnect
    BY <2>1, Forgotten DEF Reconnect, NotConnected, History
  <2>2. CASE UNCHANGED <<network, history, pc, pool>>
    BY <1>0, <2>2, Kept
  <2> QED BY <1>8, <2>1, <2>2 DEF RecvTimeout
<1>9. CASE RecvEnds
  BY <1>9, Forgotten DEF RecvEnds, Reconnect, NotConnected, History
<1>10. CASE UNCHANGED vars
  BY <1>0, <1>10, Kept DEF vars
<1> QED
  BY <1>1, <1>2, <1>3, <1>4, <1>5, <1>6, <1>7, <1>8, <1>9, <1>10, RecvDataClean,
     ParseShortClean, ParseOversizeClean, ParseIncompleteClean, ParseOkClean,
     ParseErrorClean, ParseErrorReconnectClean, CompressClean DEF Next, XiheStep

LEMMA Inductive == Spec => []IInv
<1>1. Init => IInv
  <2>1. Init => ~clean
    BY DEF Init
  <2> QED BY <2>1, InitSafe DEF IInv, FrameInv, ParsedInv
<1>2. IInv /\ [Next]_vars => IInv'
  BY StepSafe, StepClean DEF IInv
<1> QED
  BY <1>1, <1>2, PTL DEF Spec

(* A parsed frame is the slice of the stream between two ends. *)
LEMMA ParsedSlice ==
  ASSUME IInv, clean, NEW k \in 1 .. Len(parsed)
  PROVE  parsed[k] = SubSeq(stream, Position(k - 1) + 1, Position(k))
<1>0. TypeOK /\ WireInv /\ ParsedInv
  BY DEF IInv, SafeInv
<1>1. /\ Len(parsed) \in Nat /\ Len(ends) \in Nat /\ Len(wire) \in Nat /\ got \in Nat
      /\ stream \in Seq(Byte) /\ parsed[k] \in Seq(Byte) /\ Len(stream) = got + Len(wire)
  BY <1>0, LenProperties, ElementOfSeq, GoodFrame DEF TypeOK, WireInv
<1>2. ParsedAt(k) /\ Len(parsed) <= Len(ends)
  BY <1>0 DEF ParsedInv
<1> DEFINE m == Position(k - 1)
           t == Position(k)
<1>3. m \in Nat /\ t \in Nat
  BY <1>0, <1>1, <1>2, PositionType
<1>4. /\ t <= got /\ Len(parsed[k]) = t - m
      /\ \A i \in 1 .. t - m : parsed[k][i] = stream[m + i]
  BY <1>2 DEF ParsedAt
<1> HIDE DEF m, t
<1>5. Len(parsed[k]) \in Nat /\ t - m \in Nat /\ t <= Len(stream)
  BY <1>1, <1>3, <1>4, LenProperties
<1>6. \A i \in m + 1 .. t : stream[i] \in Byte
  <2>1. ASSUME NEW i \in m + 1 .. t PROVE i \in 1 .. Len(stream)
    BY <1>1, <1>3, <1>5
  <2> QED BY <1>1, <2>1, ElementOfSeq
<1> DEFINE s == SubSeq(stream, m + 1, t)
<1>7. /\ s \in Seq(Byte) /\ Len(s) = t - m
      /\ \A i \in 1 .. t - m : s[i] = stream[m + i]
  <2> DEFINE a == m + 1
  <2>1. a \in Int /\ t \in Int /\ \A i \in a .. t : stream[i] \in Byte
    BY <1>3, <1>6
  <2>2. t - a + 1 = t - m /\ (IF a <= t THEN t - a + 1 ELSE 0) = t - m
        /\ \A i \in 1 .. t - m : a + i - 1 = m + i
    BY <1>3, <1>5
  <2> HIDE DEF a
  <2>3. /\ SubSeq(stream, a, t) \in Seq(Byte)
        /\ Len(SubSeq(stream, a, t)) = IF a <= t THEN t - a + 1 ELSE 0
        /\ \A i \in 1 .. t - a + 1 : SubSeq(stream, a, t)[i] = stream[a + i - 1]
    BY <2>1, SubSeqProperties
  <2> QED BY <2>2, <2>3 DEF a
<1>8. parsed[k] = s
  <2> HIDE DEF s
  <2> QED BY <1>1, <1>4, <1>7, SeqEqual
<1> QED
  BY <1>8 DEF s, m, t

(* Whatever the frames are and however recv cuts them, the parse loop of   *)
(* xihe_handle loses no byte and no frame on a connection that began with  *)
(* an empty buffer and carries good frames.                                *)
THEOREM NothingLost == Spec => []CleanStreamParsed
<1>1. IInv => CleanStreamParsed
  <2> SUFFICES ASSUME IInv, clean PROVE
        /\ start <= end
        /\ Len(parsed) <= Len(ends)
        /\ \A k \in 1 .. Len(parsed) :
             parsed[k] = SubSeq(stream, Position(k - 1) + 1, Position(k))
        /\ got - Pending = Position(Len(parsed))
        /\ \A i \in start .. end - 1 : buffer[i] = stream[got - end + i + 1]
        /\ pc = "recv" => \A k \in 1 .. Len(ends) : ends[k] <= got => k <= Len(parsed)
    BY DEF CleanStreamParsed
  <2>1. /\ start <= end /\ Len(parsed) <= Len(ends)
        /\ Position(Len(parsed)) = got - Pending
        /\ \A i \in start .. end - 1 : buffer[i] = stream[got - end + i + 1]
        /\ pc = "recv" /\ Len(parsed) < Len(ends) => got < ends[Len(parsed) + 1]
    BY DEF IInv, ParsedInv
  <2>2. \A k \in 1 .. Len(parsed) :
          parsed[k] = SubSeq(stream, Position(k - 1) + 1, Position(k))
    BY ParsedSlice
  <2>3. ASSUME pc = "recv", NEW k \in 1 .. Len(ends), ends[k] <= got, ~(k <= Len(parsed))
        PROVE  FALSE
    <3>1. /\ Len(parsed) \in Nat /\ Len(ends) \in Nat /\ got \in Nat
          /\ \A j \in 1 .. Len(ends) : ends[j] \in Nat
      BY LenProperties, ElementOfSeq DEF IInv, SafeInv, TypeOK
    <3> DEFINE n == Len(parsed) + 1
    <3>2. n \in 1 .. Len(ends) /\ n <= k /\ Len(parsed) < Len(ends)
      BY <2>3, <3>1
    <3>3. got < ends[n]
      BY <2>1, <2>3, <3>2
    <3>4. n = k \/ ends[n] < ends[k]
      <4>1. \A j, l \in 1 .. Len(ends) : j < l => ends[j] < ends[l]
        BY DEF IInv, FrameInv
      <4>2. n = k \/ n < k
        BY <3>1, <3>2
      <4> HIDE DEF n
      <4> QED BY <3>2, <4>1, <4>2
    <3> HIDE DEF n
    <3> QED BY <2>3, <3>1, <3>2, <3>3, <3>4
  <2> QED BY <2>1, <2>2, <2>3
<1> QED
  BY Inductive, <1>1, PTL

=============================================================================
