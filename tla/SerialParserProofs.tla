------------------------ MODULE SerialParserProofs -------------------------
(***************************************************************************)
(* Proofs about SerialParser, for every length of a line, a message, a     *)
(* read and the port.                                                      *)
(*                                                                         *)
(* What is said but not yet heard is a sequence of bytes, which FixesHeard *)
(* cannot be shown of byte by byte. The invariant therefore splits it into *)
(* messages: Told has n of them, with the mode of the parser and the       *)
(* positions reported up to each, and Hearing says how far the parser is   *)
(* in them, that what is unread goes on from there, and that what is due   *)
(* are the positions in those that are left.                               *)
(***************************************************************************)
EXTENDS SerialParser, TLAPS, SequenceTheorems

-----------------------------------------------------------------------------
(* Messages and their kinds.                                               *)

(* A message is a line of three bytes with or without a position, or four  *)
(* that begin with sync and whose second says whether it yields something. *)
LEMMA Kinds ==
  ASSUME NEW m \in Messages
  PROVE  /\ m \notin RawMessages =>
              /\ m = <<m[1], m[2], m[3]>>
              /\ m[1] = Dollar /\ m[2] \in {"fix", "nofix"} /\ m[3] = NewLine
         /\ m \in RawMessages =>
              /\ m = <<m[1], m[2], m[3], m[4]>>
              /\ m[1] = Sync /\ m[2] \in {"obs", "frame"} /\ m[3] \in Bytes /\ m[4] = "other"
         /\ m = FixLine <=> m \notin RawMessages /\ m[2] = "fix"
         /\ m \in ObsMessages <=> m \in RawMessages /\ m[2] = "obs"
<1> USE DEF Dollar, NewLine, Sync
<1>1. ASSUME NEW y \in {"obs", "frame"}, NEW x \in Raw(y)
      PROVE  /\ x = <<x[1], x[2], x[3], x[4]>>
             /\ x[1] = "sync" /\ x[2] = y /\ x[3] \in Bytes /\ x[4] = "other"
  <2>1. PICK d \in {"other", "$", "newline", "sync"} : x = <<"sync", y, d, "other">>
    BY DEF Raw
  <2> QED BY <2>1 DEF Bytes
<1>2. \A x \in RawMessages : x[1] = "sync"
  BY <1>1 DEF RawMessages, ObsMessages
<1>3. CASE m \in {FixLine, Line("nofix")}
  <2>1. m \in {<<"$", "fix", "newline">>, <<"$", "nofix", "newline">>}
    BY <1>3 DEF FixLine, Line
  <2>2. m[1] = "$" /\ m[2] \in {"fix", "nofix"} /\ m[3] = "newline" /\ m = <<m[1], m[2], m[3]>>
    BY <2>1
  <2>3. m \notin RawMessages /\ m \notin ObsMessages
    BY <1>2, <2>2 DEF RawMessages
  <2>4. m = FixLine <=> m[2] = "fix"
    BY <2>1 DEF FixLine, Line
  <2> QED BY <2>2, <2>3, <2>4
<1>4. ASSUME NEW y \in {"obs", "frame"}, m \in Raw(y)
      PROVE  /\ m = <<m[1], m[2], m[3], m[4]>> /\ m \in RawMessages
             /\ m[1] = "sync" /\ m[2] = y /\ m[3] \in Bytes /\ m[4] = "other"
             /\ m # FixLine
             /\ m \in ObsMessages <=> y = "obs"
  <2>1. /\ m = <<m[1], m[2], m[3], m[4]>>
        /\ m[1] = "sync" /\ m[2] = y /\ m[3] \in Bytes /\ m[4] = "other"
    BY <1>1, <1>4
  <2>2. FixLine[1] = "$"
    BY DEF FixLine, Line
  <2>3. m \in ObsMessages => m[2] = "obs"
    BY <1>1 DEF ObsMessages
  <2>4. m \in RawMessages /\ (y = "obs" => m \in ObsMessages)
    BY <1>4 DEF RawMessages, ObsMessages
  <2> QED BY <2>1, <2>2, <2>3, <2>4
<1>5. m \in {FixLine, Line("nofix")} \/ m \in Raw("obs") \/ m \in Raw("frame")
  BY DEF Messages, RawMessages, ObsMessages
<1> QED BY <1>3, <1>4, <1>5

(* The length of a message. *)
LEMMA MessageType ==
  ASSUME NEW m \in Messages
  PROVE  m \in Seq(Bytes) /\ Len(m) = IF m \in RawMessages THEN 4 ELSE 3
<1>1. CASE m \in RawMessages
  <2>1. m = <<m[1], m[2], m[3], m[4]>> /\ {m[1], m[2], m[3], m[4]} \subseteq Bytes
    BY <1>1, Kinds DEF Bytes, Sync
  <2> DEFINE t == <<m[1], m[2], m[3], m[4]>>
  <2>2. t \in Seq(Bytes) /\ Len(t) = 4
    BY <2>1
  <2> HIDE DEF t
  <2> QED BY <1>1, <2>1, <2>2 DEF t
<1>2. CASE m \notin RawMessages
  <2>1. m = <<m[1], m[2], m[3]>> /\ {m[1], m[2], m[3]} \subseteq Bytes
    BY <1>2, Kinds DEF Bytes, Dollar, NewLine
  <2> DEFINE t == <<m[1], m[2], m[3]>>
  <2>2. t \in Seq(Bytes) /\ Len(t) = 3
    BY <2>1
  <2> HIDE DEF t
  <2> QED BY <1>2, <2>1, <2>2 DEF t
<1> QED BY <1>1, <1>2

LEMMA MessageSays ==
  ASSUME NEW m \in Messages PROVE 0 < Len(m)
BY MessageType

(* A start of a sequence of three or four. *)
LEMMA Starts ==
  ASSUME NEW m \in Seq(Bytes), Len(m) \in {3, 4}, NEW k \in 0 .. Len(m)
  PROVE  /\ SubSeq(m, 1, k) \in Seq(Bytes) /\ Len(SubSeq(m, 1, k)) = k
         /\ k = 1 => SubSeq(m, 1, k) = <<m[1]>>
         /\ k = 2 => SubSeq(m, 1, k) = <<m[1], m[2]>>
         /\ k = 3 => SubSeq(m, 1, k) = <<m[1], m[2], m[3]>>
<1>1. /\ SubSeq(m, 1, k) \in Seq(Bytes) /\ Len(SubSeq(m, 1, k)) = k
      /\ \A i \in 1 .. k : SubSeq(m, 1, k)[i] = m[i]
  <2>1. \A i \in 1 .. k : m[i] \in Bytes
    OBVIOUS
  <2>2. /\ SubSeq(m, 1, k) \in Seq(Bytes)
        /\ Len(SubSeq(m, 1, k)) = IF 1 <= k THEN k - 1 + 1 ELSE 0
        /\ \A i \in 1 .. k - 1 + 1 : SubSeq(m, 1, k)[i] = m[1 + i - 1]
    BY <2>1, SubSeqProperties
  <2> QED BY <2>2
<1>2. m[1] \in Bytes /\ m[2] \in Bytes /\ m[3] \in Bytes
  OBVIOUS
<1> DEFINE t == SubSeq(m, 1, k)
<1> HIDE DEF t
<1>3. t \in Seq(Bytes) /\ Len(t) = k /\ \A i \in 1 .. k : t[i] = m[i]
  BY <1>1 DEF t
<1>4. k = 1 => t = <<m[1]>>
  BY <1>2, <1>3, SeqEqual
<1>5. k = 2 => t = <<m[1], m[2]>>
  BY <1>2, <1>3, SeqEqual
<1>6. k = 3 => t = <<m[1], m[2], m[3]>>
  BY <1>2, <1>3, SeqEqual
<1> QED BY <1>3, <1>4, <1>5, <1>6 DEF t

(* What the line buffer keeps of a line that is there in part. *)
LEMMA KeptLine ==
  /\ Kept(<<Dollar>>, {FixLine}) = <<Dollar>>
  /\ Kept(<<Dollar, "fix">>, {FixLine}) = <<Dollar, "fix">>
  /\ Kept(<<Dollar, "nofix">>, {FixLine}) = <<"other", "other">>
<1>1. /\ FixLine \in Seq(Bytes) /\ Len(FixLine) = 3
      /\ FixLine[1] = Dollar /\ FixLine[2] = "fix"
  BY DEF FixLine, Line, Bytes, Dollar, NewLine
<1>2. Begins(<<Dollar>>, {FixLine}) /\ Begins(<<Dollar, "fix">>, {FixLine})
  <2>1. 1 \in 0 .. Len(FixLine) /\ 2 \in 0 .. Len(FixLine)
    BY <1>1
  <2>2. SubSeq(FixLine, 1, 1) = <<Dollar>> /\ SubSeq(FixLine, 1, 2) = <<Dollar, "fix">>
    BY <1>1, <2>1, Starts
  <2> QED BY <2>1, <2>2 DEF Begins
<1>3. ~Begins(<<Dollar, "nofix">>, {FixLine})
  <2>1. ASSUME NEW k \in 0 .. Len(FixLine) PROVE <<Dollar, "nofix">> # SubSeq(FixLine, 1, k)
    <3> DEFINE t == SubSeq(FixLine, 1, k)
    <3>1. Len(t) = k /\ (k = 2 => t = <<Dollar, "fix">>)
      BY <1>1, Starts
    <3> HIDE DEF t
    <3>2. t # <<Dollar, "nofix">>
      BY <3>1
    <3> QED BY <3>2 DEF t
  <2> QED BY <2>1 DEF Begins
<1>4. [k \in 1 .. Len(<<Dollar, "nofix">>) |-> "other"] = <<"other", "other">>
  OBVIOUS
<1> QED BY <1>2, <1>3, <1>4 DEF Kept

(* What the message buffer keeps of a message that is there in part. *)
LEMMA KeptRaw ==
  ASSUME NEW m \in RawMessages
  PROVE  /\ Begins(<<Sync, m[2]>>, RawMessages)
         /\ Kept(<<Sync, m[2]>>, RawMessages) = <<Sync, m[2]>>
         /\ Kept(<<Sync, m[2], m[3]>>, RawMessages) = <<Sync, m[2], m[3]>>
<1>1. m \in Seq(Bytes) /\ Len(m) = 4 /\ m[1] = Sync
  <2>1. m \in Messages
    BY DEF Messages
  <2> QED BY <2>1, Kinds, MessageType
<1>2. SubSeq(m, 1, 2) = <<Sync, m[2]>> /\ SubSeq(m, 1, 3) = <<Sync, m[2], m[3]>>
      /\ 2 \in 0 .. Len(m) /\ 3 \in 0 .. Len(m)
  BY <1>1, Starts
<1>3. Begins(<<Sync, m[2]>>, RawMessages) /\ Begins(<<Sync, m[2], m[3]>>, RawMessages)
  BY <1>2 DEF Begins
<1> QED BY <1>3 DEF Kept

-----------------------------------------------------------------------------
(* Types.                                                                  *)

(* Forgetting what a buffer holds does not change how much it is. *)
LEMMA KeptType ==
  ASSUME NEW m \in Seq(Bytes), NEW whole
  PROVE  Kept(m, whole) \in Seq(Bytes) /\ Len(Kept(m, whole)) = Len(m)
<1> DEFINE t == [k \in 1 .. Len(m) |-> "other"]
<1>1. Len(m) \in Nat
  OBVIOUS
<1>2. t \in Seq(Bytes) /\ Len(t) = Len(m)
  BY <1>1 DEF Bytes
<1> QED BY <1>2 DEF Kept

(* The next byte, and what is left when it has been parsed. *)
LEMMA NextByte ==
  ASSUME TypeOK, read_buf # <<>>
  PROVE  /\ Head(read_buf) \in Bytes /\ Head(read_buf) = Unread[1]
         /\ Unread \in Seq(Bytes) /\ Len(Unread) \in Nat /\ Len(Unread) > 0
         /\ Tail(read_buf) \in Seq(Bytes) /\ Len(Tail(read_buf)) = Len(read_buf) - 1
         /\ Tail(read_buf) \o wire = Tail(Unread)
<1>1. read_buf \in Seq(Bytes) /\ wire \in Seq(Bytes) /\ Len(read_buf) \in Nat /\ Len(wire) \in Nat
  BY DEF TypeOK
<1>2. Len(read_buf) > 0
  BY <1>1, EmptySeq
<1>3. /\ Unread \in Seq(Bytes) /\ Len(Unread) = Len(read_buf) + Len(wire)
      /\ \A i \in 1 .. Len(read_buf) + Len(wire) :
           Unread[i] = IF i <= Len(read_buf) THEN read_buf[i] ELSE wire[i - Len(read_buf)]
  BY <1>1, ConcatProperties DEF Unread
<1>4. /\ Head(read_buf) \in Bytes /\ Head(read_buf) = read_buf[1]
      /\ Tail(read_buf) \in Seq(Bytes) /\ Len(Tail(read_buf)) = Len(read_buf) - 1
      /\ \A i \in 1 .. Len(Tail(read_buf)) : Tail(read_buf)[i] = read_buf[i + 1]
  BY <1>1, HeadTailProperties
<1>5. Unread # <<>>
  BY <1>1, <1>2, <1>3
<1>6. /\ Tail(Unread) \in Seq(Bytes) /\ Len(Tail(Unread)) = Len(Unread) - 1
      /\ \A i \in 1 .. Len(Tail(Unread)) : Tail(Unread)[i] = Unread[i + 1]
  BY <1>3, <1>5, HeadTailProperties
<1>7. /\ Tail(read_buf) \o wire \in Seq(Bytes)
      /\ Len(Tail(read_buf) \o wire) = Len(Tail(read_buf)) + Len(wire)
      /\ \A i \in 1 .. Len(Tail(read_buf)) + Len(wire) : (Tail(read_buf) \o wire)[i] =
           IF i <= Len(Tail(read_buf)) THEN Tail(read_buf)[i] ELSE wire[i - Len(Tail(read_buf))]
  BY <1>1, <1>4, ConcatProperties
<1> DEFINE t == Tail(read_buf) \o wire
           u == Tail(Unread)
<1>8. Len(t) = Len(u)
  BY <1>1, <1>3, <1>4, <1>6, <1>7
<1>9. ASSUME NEW i \in 1 .. Len(t) PROVE t[i] = u[i]
  <2>1. /\ i \in 1 .. Len(read_buf) - 1 + Len(wire) /\ i \in 1 .. Len(u)
        /\ i + 1 \in 1 .. Len(read_buf) + Len(wire)
        /\ Len(Tail(read_buf)) = Len(read_buf) - 1
    BY <1>1, <1>4, <1>7, <1>8
  <2>2. /\ u[i] = Unread[i + 1]
        /\ t[i] = IF i <= Len(read_buf) - 1 THEN Tail(read_buf)[i]
                                           ELSE wire[i - (Len(read_buf) - 1)]
    BY <1>6, <1>7, <2>1
  <2>3. Unread[i + 1] = IF i + 1 <= Len(read_buf) THEN read_buf[i + 1]
                                                  ELSE wire[i + 1 - Len(read_buf)]
    BY <1>3, <2>1
  <2> HIDE DEF t, u
  <2>4. CASE i <= Len(read_buf) - 1
    <3>1. i \in 1 .. Len(Tail(read_buf)) /\ i + 1 <= Len(read_buf)
      BY <1>1, <2>1, <2>4
    <3>2. t[i] = read_buf[i + 1]
      BY <1>4, <2>2, <2>4, <3>1
    <3> QED BY <2>2, <2>3, <3>1, <3>2
  <2>5. CASE ~(i <= Len(read_buf) - 1)
    <3>1. ~(i + 1 <= Len(read_buf)) /\ i - (Len(read_buf) - 1) = i + 1 - Len(read_buf)
      BY <1>1, <2>1, <2>5
    <3>2. t[i] = wire[i + 1 - Len(read_buf)]
      BY <2>2, <2>5, <3>1
    <3> QED BY <2>2, <2>3, <3>1, <3>2
  <2> QED BY <2>4, <2>5
<1>10. t = u
  <2> HIDE DEF t, u
  <2>1. t \in Seq(Bytes) /\ u \in Seq(Bytes)
    BY <1>6, <1>7 DEF t, u
  <2> QED BY <1>8, <1>9, <2>1, SeqEqual
<1>11. 1 \in 1 .. Len(read_buf) + Len(wire) /\ 1 <= Len(read_buf)
  BY <1>1, <1>2
<1> QED BY <1>1, <1>2, <1>3, <1>4, <1>10, <1>11

(* A byte that is parsed leaves the parser with variables of their types. *)
LEMMA ParserType ==
  ASSUME TypeOK, NEW b \in Bytes, StartLine(b) \/ ParseLine(b) \/ ParseRaw(b)
  PROVE  /\ is_nmea' \in BOOLEAN /\ is_raw' \in BOOLEAN
         /\ nmea_length' \in 0 .. MaxLine - 1
         /\ nmea_msg' \in Seq(Bytes) /\ Len(nmea_msg') <= MsgRoom
         /\ buff' \in Seq(Bytes) /\ Len(buff') < MaxRaw
         /\ len' \in 0 .. MaxRaw
<1>1. /\ nmea_msg \in Seq(Bytes) /\ Len(nmea_msg) \in Nat /\ Len(nmea_msg) <= MsgRoom
      /\ buff \in Seq(Bytes) /\ Len(buff) \in Nat /\ Len(buff) < MaxRaw
      /\ is_nmea \in BOOLEAN /\ is_raw \in BOOLEAN /\ len \in 0 .. MaxRaw
      /\ nmea_length \in 0 .. MaxLine - 1
      /\ MaxLine \in Nat /\ MsgRoom \in Nat /\ MaxRaw \in Nat /\ 3 < MaxLine
      /\ MaxLine < MsgRoom /\ 4 <= MaxRaw
  BY SerialAssumption DEF TypeOK
<1>2. /\ Append(nmea_msg, b) \in Seq(Bytes) /\ Len(Append(nmea_msg, b)) = Len(nmea_msg) + 1
      /\ Append(buff, b) \in Seq(Bytes) /\ Len(Append(buff, b)) = Len(buff) + 1
  BY <1>1, AppendProperties
<1>3. /\ Kept(Append(nmea_msg, b), {FixLine}) \in Seq(Bytes)
      /\ Len(Kept(Append(nmea_msg, b), {FixLine})) = Len(nmea_msg) + 1
      /\ Kept(Append(buff, b), RawMessages) \in Seq(Bytes)
      /\ Len(Kept(Append(buff, b), RawMessages)) = Len(buff) + 1
  BY <1>2, KeptType
<1>4. <<>> \in Seq(Bytes) /\ Len(<<>>) = 0 /\ <<b>> \in Seq(Bytes) /\ Len(<<b>>) = 1
  OBVIOUS
<1>5. ASSUME LineFits(b), FeedLine(b)
      PROVE  nmea_msg' \in Seq(Bytes) /\ Len(nmea_msg') <= MsgRoom
  BY <1>1, <1>3, <1>4, <1>5 DEF LineFits, FeedLine
<1>6. CASE StartLine(b)
  BY <1>1, <1>5, <1>6 DEF StartLine
<1>7. CASE ParseLine(b)
  <2>1. LineEnds(b) \in BOOLEAN /\ (~LineEnds(b) => nmea_length + 1 < MaxLine)
    BY <1>1 DEF LineEnds
  <2>2. nmea_length' \in 0 .. MaxLine - 1 /\ is_nmea' \in BOOLEAN
    BY <1>1, <1>7, <2>1 DEF ParseLine
  <2> QED BY <1>1, <1>5, <1>7, <2>2 DEF ParseLine
<1>8. CASE ParseRaw(b)
  <2>1. UNCHANGED <<is_nmea, nmea_length, nmea_msg>> /\ FeedRaw(b)
    BY <1>8 DEF ParseRaw
  <2>2. CASE AwaitSync(b)
    BY <1>1, <1>4, <2>1, <2>2 DEF AwaitSync
  <2>3. CASE TakeLength(b)
    <3>1. is_raw' \in BOOLEAN /\ is_nmea' \in BOOLEAN
      BY <1>1, <2>1, <2>3, Zenon DEF TakeLength
    <3>2. \/ buff' = Kept(Append(buff, b), RawMessages) /\ len' \in 3 .. MaxRaw
          \/ buff' = <<>> /\ len' = 0
      BY <1>1, <2>3 DEF TakeLength
    <3>3. Len(buff) = 1
      BY <2>3 DEF TakeLength
    <3>4. Len(buff) + 1 = 2 /\ 2 < MaxRaw /\ 0 < MaxRaw
      BY <1>1, <3>3
    <3>5. buff' \in Seq(Bytes) /\ Len(buff') < MaxRaw
      BY <1>3, <1>4, <3>2, <3>4
    <3>6. len' \in 0 .. MaxRaw
      BY <1>1, <3>2
    <3> QED BY <1>1, <2>1, <3>1, <3>5, <3>6
  <2>4. CASE TakeData(b)
    <3>1. buff' = Kept(Append(buff, b), RawMessages) /\ is_raw' = is_raw /\ len' = len
      BY <2>4 DEF TakeData
    <3>2. Len(buff) + 1 < MaxRaw
      BY <1>1, <2>4 DEF TakeData
    <3>3. is_raw' \in BOOLEAN /\ is_nmea' \in BOOLEAN
      BY <1>1, <2>1, <3>1, Zenon
    <3> QED BY <1>1, <1>3, <2>1, <3>1, <3>2, <3>3
  <2>5. CASE TakeLast(b)
    <3>1. is_raw' \in BOOLEAN
      BY <2>5 DEF TakeLast
    <3>2. buff' = <<>> /\ len' = 0
      BY <2>5 DEF TakeLast
    <3>3. is_nmea' \in BOOLEAN
      BY <1>1, <2>1, Zenon
    <3> QED BY <1>1, <1>4, <2>1, <3>1, <3>2, <3>3
  <2> QED BY <2>1, <2>2, <2>3, <2>4, <2>5 DEF FeedRaw
<1> QED BY <1>6, <1>7, <1>8

(* What the receiver says is appended to what has not been parsed. *)
LEMMA SaidType ==
  ASSUME TypeOK, NEW m \in Seq(Bytes), Say(m)
  PROVE  /\ port = "open" /\ UNCHANGED <<port, read_buf, parserVars>>
         /\ wire' \in Seq(Bytes) /\ Len(wire') <= WireMax
         /\ Unread \in Seq(Bytes) /\ Unread' = Unread \o m
<1>1. wire \in Seq(Bytes) /\ read_buf \in Seq(Bytes)
  BY DEF TypeOK
<1>2. wire' = wire \o m /\ Len(wire \o m) <= WireMax /\ port = "open"
      /\ UNCHANGED <<port, read_buf, parserVars>>
  BY DEF Say
<1>3. wire \o m \in Seq(Bytes) /\ read_buf \o wire \in Seq(Bytes)
  BY <1>1, ConcatProperties
<1>4. read_buf \o (wire \o m) = (read_buf \o wire) \o m
  BY <1>1, ConcatAssociative
<1> QED BY <1>2, <1>3, <1>4 DEF Unread

(* Whatever the receiver says, the variables keep their types. *)
LEMMA ReceiverType ==
  ASSUME TypeOK, Receiver PROVE TypeOK'
<1> DEFINE Booleans == noisy' \in BOOLEAN /\ framed' \in BOOLEAN /\ quiet' \in BOOLEAN
<1>1. ASSUME NEW m \in Seq(Bytes), Say(m), Booleans, due' \in Int PROVE TypeOK'
  BY <1>1, SaidType DEF TypeOK, parserVars
<1>2. noisy \in BOOLEAN /\ framed \in BOOLEAN /\ quiet \in BOOLEAN /\ due \in Int
  BY DEF TypeOK
<1>3. FixLine \in Messages /\ Line("nofix") \in Messages
      /\ ObsMessages \subseteq Messages /\ RawMessages \subseteq Messages
  BY DEF Messages, RawMessages
<1>4. ASSUME NEW m \in Messages, NEW owed \in Int, SayLine(m, owed) PROVE TypeOK'
  <2>1. Booleans
    BY <1>2, <1>4, Zenon DEF SayLine, SayMessage
  <2>2. Say(m) /\ due' \in Int
    BY <1>2, <1>4 DEF SayLine, SayMessage
  <2> HIDE DEF Booleans
  <2> QED BY <1>1, <2>1, <2>2, MessageType
<1>5. ASSUME NEW m \in Messages, SayMessage(m), framed' \in BOOLEAN, due' = due PROVE TypeOK'
  <2>1. Booleans
    BY <1>2, <1>5, Zenon DEF SayMessage
  <2>2. Say(m) /\ due' \in Int
    BY <1>2, <1>5 DEF SayMessage
  <2> HIDE DEF Booleans
  <2> QED BY <1>1, <2>1, <2>2, MessageType
<1>6. CASE SayFix
  <2>1. (IF Heeded THEN 1 ELSE 0) \in Int
    OBVIOUS
  <2> QED BY <1>3, <1>4, <1>6, <2>1 DEF SayFix
<1>7. CASE SayNoFix
  BY <1>3, <1>4, <1>7 DEF SayNoFix
<1>8. CASE SayObs
  BY <1>3, <1>5, <1>8 DEF SayObs
<1>9. CASE SayFrame
  BY <1>3, <1>5, <1>9 DEF SayFrame
<1>10. CASE SayNoise
  <2>1. PICK b \in {Dollar, NewLine, Sync, "other"} : Say(<<b>>)
    BY <1>10 DEF SayNoise
  <2>2. <<b>> \in Seq(Bytes)
    BY DEF Bytes
  <2>3. Booleans /\ due' \in Int
    BY <1>2, <1>10, Zenon DEF SayNoise
  <2> QED BY <1>1, <2>1, <2>2, <2>3
<1>11. CASE FallQuiet
  BY <1>11 DEF FallQuiet, TypeOK, parserVars
<1> QED BY <1>6, <1>7, <1>8, <1>9, <1>10, <1>11 DEF Receiver

(* The start of the thread, in the middle of a message. *)
LEMMA OpenType ==
  ASSUME TypeOK, OpenPort
  PROVE  wire' \in Seq(Bytes) /\ Len(wire') <= WireMax
<1>1. PICK m \in Messages : \E k \in 1 .. Len(m) + 1 : wire' = SubSeq(m, k, Len(m))
  BY DEF OpenPort
<1>2. m \in Seq(Bytes) /\ Len(m) \in {3, 4}
  BY MessageType
<1>3. PICK k \in 1 .. Len(m) + 1 : wire' = SubSeq(m, k, Len(m))
  BY <1>1
<1>4. \A i \in k .. Len(m) : m[i] \in Bytes
  BY <1>2
<1>5. /\ SubSeq(m, k, Len(m)) \in Seq(Bytes)
      /\ Len(SubSeq(m, k, Len(m))) = IF k <= Len(m) THEN Len(m) - k + 1 ELSE 0
  BY <1>2, <1>4, SubSeqProperties
<1>6. 4 <= WireMax /\ WireMax \in Nat
  BY SerialAssumption
<1> DEFINE w == SubSeq(m, k, Len(m))
<1>7. w \in Seq(Bytes) /\ Len(w) <= WireMax
  <2>1. Len(w) <= 4
    BY <1>2, <1>5
  <2>2. w \in Seq(Bytes) /\ Len(w) \in Nat
    BY <1>5
  <2> HIDE DEF w
  <2> QED BY <1>6, <2>1, <2>2
<1> QED BY <1>3, <1>7

(* A read takes a part of what waits, and parses nothing yet. *)
LEMMA ReadType ==
  ASSUME TypeOK, ReadPort
  PROVE  /\ wire' \in Seq(Bytes) /\ Len(wire') <= WireMax
         /\ read_buf' \in Seq(Bytes) /\ Len(read_buf') <= ReadMax
         /\ Unread' = Unread
<1>1. PICK n \in 1 .. Len(wire) : /\ n <= ReadMax
                                 /\ read_buf' = SubSeq(wire, 1, n)
                                 /\ wire' = SubSeq(wire, n + 1, Len(wire))
  BY DEF ReadPort
<1>2. wire \in Seq(Bytes) /\ Len(wire) \in Nat /\ Len(wire) <= WireMax /\ WireMax \in Nat
      /\ n \in Nat
  BY SerialAssumption DEF TypeOK
<1>3. \A i \in 1 .. Len(wire) : wire[i] \in Bytes
  BY <1>2
<1>4. /\ SubSeq(wire, 1, n) \in Seq(Bytes)
      /\ Len(SubSeq(wire, 1, n)) = IF 1 <= n THEN n - 1 + 1 ELSE 0
  <2>1. \A i \in 1 .. n : wire[i] \in Bytes
    BY <1>3
  <2> QED BY <2>1, SubSeqProperties
<1>5. /\ SubSeq(wire, n + 1, Len(wire)) \in Seq(Bytes)
      /\ Len(SubSeq(wire, n + 1, Len(wire))) =
           IF n + 1 <= Len(wire) THEN Len(wire) - (n + 1) + 1 ELSE 0
  <2>1. \A i \in n + 1 .. Len(wire) : wire[i] \in Bytes
    BY <1>3
  <2> QED BY <1>2, <2>1, SubSeqProperties
<1>6. SubSeq(wire, 1, n) \o SubSeq(wire, n + 1, Len(wire)) = wire
  <2>1. 1 \in 1 .. Len(wire) + 1 /\ n \in 1 - 1 .. Len(wire) /\ Len(wire) \in n .. Len(wire)
    BY <1>2
  <2>2. SubSeq(wire, 1, n) \o SubSeq(wire, n + 1, Len(wire)) = SubSeq(wire, 1, Len(wire))
    BY <1>2, <2>1, ConcatAdjacentSubSeq
  <2> QED BY <1>2, <2>2, SubSeqFull
<1>7. <<>> \o wire = wire
  BY <1>2, ConcatEmptySeq
<1>8. Unread' = Unread
  BY <1>1, <1>6, <1>7 DEF ReadPort, Unread
<1> QED BY <1>1, <1>2, <1>4, <1>5, <1>8

(* The types are kept by every step. *)
LEMMA StepType ==
  ASSUME TypeOK, [Next]_vars PROVE TypeOK'
<1> USE SerialAssumption
<1>1. CASE Receiver
  BY <1>1, ReceiverType
<1>2. CASE OpenPort
  <2>1. wire' \in Seq(Bytes) /\ Len(wire') <= WireMax
    BY <1>2, OpenType
  <2> QED BY <1>2, <2>1 DEF OpenPort, TypeOK, parserVars
<1>3. CASE ClosePort
  BY <1>3 DEF ClosePort, TypeOK, parserVars
<1>4. CASE PortFails
  BY <1>4 DEF PortFails, TypeOK, parserVars, saidVars
<1>5. CASE ReadPort
  <2>1. /\ wire' \in Seq(Bytes) /\ Len(wire') <= WireMax
        /\ read_buf' \in Seq(Bytes) /\ Len(read_buf') <= ReadMax
    BY <1>5, ReadType
  <2> QED BY <1>5, <2>1 DEF ReadPort, TypeOK, parserVars, saidVars
<1>6. CASE ParseByte
  <2> DEFINE b == Head(read_buf)
  <2>1. /\ port = "open" /\ read_buf # <<>> /\ read_buf' = Tail(read_buf)
        /\ StartLine(b) \/ ParseLine(b) \/ ParseRaw(b)
        /\ due' = IF Fix(b) /\ (due > 0 \/ ~noisy) THEN due - 1 ELSE due
        /\ UNCHANGED <<port, wire, saidVars>>
    BY <1>6 DEF ParseByte
  <2>2. b \in Bytes /\ Tail(read_buf) \in Seq(Bytes) /\ Len(Tail(read_buf)) = Len(read_buf) - 1
    BY <2>1, NextByte
  <2> HIDE DEF b
  <2>3. due' \in Int
    BY <2>1 DEF TypeOK
  <2>4. read_buf' \in Seq(Bytes) /\ Len(read_buf') <= ReadMax
    BY <2>1, <2>2 DEF TypeOK
  <2> QED BY <2>1, <2>2, <2>3, <2>4, ParserType DEF TypeOK, saidVars
<1>7. CASE ParseWild
  BY <1>7 DEF ParseWild, TypeOK, parserVars, saidVars
<1>8. CASE UNCHANGED vars
  BY <1>8 DEF vars, TypeOK, parserVars, saidVars
<1> QED BY <1>1, <1>2, <1>3, <1>4, <1>5, <1>6, <1>7, <1>8 DEF Next, Thread

-----------------------------------------------------------------------------
(* What was said and is to be heard.                                       *)

(* Whether the parser is in raw mode behind m, and how many positions it   *)
(* reports with m, when it was in raw mode, or not, before.                *)
RawAfter(m, r) == m \notin ObsMessages /\ (m \in RawMessages \/ r)
Reports(m, r)  == IF m = FixLine /\ ~r THEN 1 ELSE 0

(* Of n messages, t tells the k-th, from 0 on, as t.said[k], the bytes     *)
(* before it, t.at[k], the mode before it, t.raw[k], and the positions     *)
(* reported by then, t.cnt[k].                                             *)
Told(t, n) ==
  /\ n \in Nat /\ t.said \in [0 .. n - 1 -> Messages]
  /\ t.at \in [0 .. n -> Nat] /\ t.raw \in [0 .. n -> BOOLEAN] /\ t.cnt \in [0 .. n -> Nat]
  /\ \A k \in 0 .. n - 1 : /\ t.at[k + 1] = t.at[k] + Len(t.said[k])
                           /\ t.raw[k + 1] = RawAfter(t.said[k], t.raw[k])
                           /\ t.cnt[k + 1] = t.cnt[k] + Reports(t.said[k], t.raw[k])
  /\ \A k, l \in 0 .. n : k <= l => t.at[k] <= t.at[l] /\ t.cnt[k] <= t.cnt[l]

(* The bytes behind the first i of them are those that come next, and with *)
(* no noise behind them all that comes.                                    *)
Ahead(t, n, i) ==
  /\ Len(Unread) >= t.at[n] - i
  /\ ~noisy => Len(Unread) = t.at[n] - i
  /\ \A k \in 0 .. n - 1 : \A x \in 1 .. Len(t.said[k]) :
       i < t.at[k] + x => Unread[t.at[k] + x - i] = t.said[k][x]

(* The parser when it has parsed j bytes of m, in raw mode or not. *)
ParserAt(m, r, j) ==
  /\ j = 0 => ~is_nmea /\ nmea_msg = <<>> /\ buff = <<>> /\ is_raw = r
  /\ j > 0 /\ m \in RawMessages =>
       /\ ~is_nmea /\ nmea_msg = <<>> /\ is_raw
       /\ j = 1 => buff = <<m[1]>>
       /\ j = 2 => buff = <<m[1], m[2]>> /\ len = 4
       /\ j = 3 => buff = <<m[1], m[2], m[3]>> /\ len = 4
  /\ j > 0 /\ m \notin RawMessages /\ r =>
       ~is_nmea /\ nmea_msg = <<>> /\ is_raw /\ buff = <<>>
  /\ j > 0 /\ m \notin RawMessages /\ ~r =>
       /\ is_nmea /\ ~is_raw /\ buff = <<>> /\ nmea_length = j
       /\ j = 1 => nmea_msg = <<m[1]>>
       /\ j = 2 => nmea_msg = IF m = FixLine THEN <<m[1], m[2]>> ELSE <<"other", "other">>

(* Up to four bytes, appended one after the other. *)
LEMMA Appended ==
  ASSUME NEW a, NEW b, NEW c, NEW d
  PROVE  /\ Append(<<>>, a) = <<a>> /\ Append(<<a>>, b) = <<a, b>>
         /\ Append(<<a, b>>, c) = <<a, b, c>>
         /\ Append(<<a, b, c>>, d) = <<a, b, c, d>>
<1> DEFINE S == {a, b, c, d}
<1>1. /\ <<>> \in Seq(S) /\ <<a>> \in Seq(S) /\ <<a, b>> \in Seq(S) /\ <<a, b, c>> \in Seq(S)
      /\ <<a, b, c, d>> \in Seq(S)
      /\ a \in S /\ b \in S /\ c \in S /\ d \in S
  OBVIOUS
<1>2. /\ Len(<<a>>) = 1 /\ Len(<<a, b>>) = 2 /\ Len(<<a, b, c>>) = 3 /\ Len(<<a, b, c, d>>) = 4
      /\ <<a>>[1] = a
      /\ <<a, b>>[1] = a /\ <<a, b>>[2] = b
      /\ <<a, b, c>>[1] = a /\ <<a, b, c>>[2] = b /\ <<a, b, c>>[3] = c
      /\ <<a, b, c, d>>[1] = a /\ <<a, b, c, d>>[2] = b
      /\ <<a, b, c, d>>[3] = c /\ <<a, b, c, d>>[4] = d
  OBVIOUS
<1>3. Append(<<>>, a) = <<a>>
  OBVIOUS
<1>4. ASSUME NEW s \in Seq(S), NEW t \in Seq(S), NEW e \in S, Len(t) = Len(s) + 1,
             \A i \in 1 .. Len(s) : t[i] = s[i], t[Len(s) + 1] = e
      PROVE  Append(s, e) = t
  <2>1. /\ Append(s, e) \in Seq(S) /\ Len(Append(s, e)) = Len(s) + 1
        /\ \A i \in 1 .. Len(s) : Append(s, e)[i] = s[i]
        /\ Append(s, e)[Len(s) + 1] = e
    BY AppendProperties
  <2> DEFINE u == Append(s, e)
  <2>2. \A i \in 1 .. Len(s) + 1 : u[i] = t[i]
    BY <1>4, <2>1
  <2> HIDE DEF u
  <2>3. u \in Seq(S) /\ Len(u) = Len(t) /\ \A i \in 1 .. Len(u) : u[i] = t[i]
    BY <1>4, <2>1, <2>2 DEF u
  <2>4. u = t
    BY <1>4, <2>3, SeqEqual
  <2> QED BY <2>4 DEF u
<1> HIDE DEF S
<1> DEFINE one == <<a>>  two == <<a, b>>  three == <<a, b, c>>  four == <<a, b, c, d>>
<1>5. /\ one \in Seq(S) /\ two \in Seq(S) /\ three \in Seq(S) /\ four \in Seq(S)
      /\ Len(one) = 1 /\ Len(two) = 2 /\ Len(three) = 3 /\ Len(four) = 4
      /\ one[1] = a /\ two[1] = a /\ three[1] = a /\ four[1] = a
      /\ two[2] = b /\ three[2] = b /\ four[2] = b
      /\ three[3] = c /\ four[3] = c /\ four[4] = d
  BY <1>1, <1>2
<1> HIDE DEF one, two, three, four
<1>6. Append(one, b) = two
  <2>1. Len(two) = Len(one) + 1 /\ two[Len(one) + 1] = b
    BY <1>5
  <2>2. \A i \in 1 .. Len(one) : two[i] = one[i]
    BY <1>5
  <2> QED BY <1>1, <1>4, <1>5, <2>1, <2>2, Zenon
<1>7. Append(two, c) = three
  <2>1. Len(three) = Len(two) + 1 /\ three[Len(two) + 1] = c
    BY <1>5
  <2>2. \A i \in 1 .. Len(two) : three[i] = two[i]
    BY <1>5
  <2> QED BY <1>1, <1>4, <1>5, <2>1, <2>2, Zenon
<1>8. Append(three, d) = four
  <2>1. Len(four) = Len(three) + 1 /\ four[Len(three) + 1] = d
    BY <1>5
  <2>2. \A i \in 1 .. Len(three) : four[i] = three[i]
    BY <1>5
  <2> QED BY <1>1, <1>4, <1>5, <2>1, <2>2, Zenon
<1> QED BY <1>3, <1>6, <1>7, <1>8 DEF one, two, three, four

(* A line outside raw mode is heard byte by byte. *)
LEMMA LineMoves ==
  ASSUME NEW m \in Messages \ RawMessages, NEW j \in 0 .. 2, ParserAt(m, FALSE, j),
         StartLine(m[j + 1]) \/ ParseLine(m[j + 1]) \/ ParseRaw(m[j + 1])
  PROVE  /\ j < 2 => ParserAt(m, FALSE, j + 1)'
         /\ j = 2 => ParserAt(m, FALSE, 0)'
         /\ Fix(m[j + 1]) <=> j = 2 /\ m = FixLine
<1> USE DEF Dollar, NewLine
<1> DEFINE Moved == /\ j < 2 => ParserAt(m, FALSE, j + 1)'
                    /\ j = 2 => ParserAt(m, FALSE, 0)'
                    /\ Fix(m[j + 1]) <=> j = 2 /\ m = FixLine
<1>1. /\ m[1] = "$" /\ m[2] \in {"fix", "nofix"} /\ m[3] = "newline"
      /\ m = FixLine <=> m[2] = "fix"
      /\ m = <<m[1], m[2], m[3]>>
  BY Kinds
<1>2. MaxLine \in Nat /\ 3 < MaxLine
  BY SerialAssumption
<1>3. ASSUME j = 0 PROVE Moved
  <2>1. ~is_nmea /\ nmea_msg = <<>> /\ buff = <<>> /\ ~is_raw /\ m[j + 1] = "$"
    BY <1>1, <1>3 DEF ParserAt
  <2>2. StartLine("$")
    BY <1>1, <2>1 DEF ParseLine, ParseRaw
  <2>3. nmea_msg' = <<"$">> /\ is_nmea' /\ nmea_length' = 1 /\ UNCHANGED <<is_raw, buff, len>>
    <3>1. Append(nmea_msg, "$") = <<"$">>
      BY <2>1
    <3> QED BY <2>2, <3>1, KeptLine DEF StartLine, FeedLine
  <2>4. ~Fix(m[j + 1])
    BY <2>1 DEF Fix
  <2> QED BY <1>1, <1>3, <2>1, <2>3, <2>4 DEF ParserAt
<1>4. ASSUME j = 1 PROVE Moved
  <2>1. /\ is_nmea /\ ~is_raw /\ buff = <<>> /\ nmea_length = 1 /\ nmea_msg = <<"$">>
        /\ m[j + 1] = m[2]
    BY <1>1, <1>4 DEF ParserAt
  <2>2. ParseLine(m[2])
    BY <2>1 DEF StartLine, ParseRaw
  <2>3. ~LineEnds(m[2])
    BY <1>1, <1>2, <2>1 DEF LineEnds
  <2>4. nmea_msg' = Kept(<<"$", m[2]>>, {FixLine})
    <3>1. Append(nmea_msg, m[2]) = <<"$", m[2]>>
      BY <2>1, Appended
    <3> QED BY <1>1, <2>2, <3>1 DEF ParseLine, FeedLine
  <2>5. nmea_msg' = IF m = FixLine THEN <<m[1], m[2]>> ELSE <<"other", "other">>
    BY <1>1, <2>4, KeptLine
  <2>6. is_nmea' /\ nmea_length' = 2 /\ UNCHANGED <<is_raw, buff, len>>
    <3>1. is_nmea' /\ nmea_length' = nmea_length + 1 /\ UNCHANGED <<is_raw, buff, len>>
      BY <2>2, <2>3, Zenon DEF ParseLine
    <3> QED BY <2>1, <3>1
  <2>7. ~Fix(m[j + 1])
    <3>1. Len(Append(nmea_msg, m[2])) = 2 /\ Len(FixLine) = 3
      BY <2>1 DEF FixLine, Line
    <3> QED BY <2>1, <3>1 DEF Fix
  <2> QED BY <1>1, <1>4, <2>1, <2>5, <2>6, <2>7 DEF ParserAt
<1>5. ASSUME j = 2 PROVE Moved
  <2>1. /\ is_nmea /\ ~is_raw /\ buff = <<>> /\ m[j + 1] = "newline"
        /\ nmea_msg = IF m = FixLine THEN <<m[1], m[2]>> ELSE <<"other", "other">>
    BY <1>1, <1>5 DEF ParserAt
  <2>2. ParseLine("newline")
    BY <2>1 DEF StartLine, ParseRaw
  <2>3. LineEnds("newline")
    BY DEF LineEnds
  <2>4. nmea_msg' = <<>> /\ ~is_nmea' /\ UNCHANGED <<is_raw, buff, len>>
    BY <2>2, <2>3 DEF ParseLine, FeedLine
  <2>5. Fix("newline") <=> m = FixLine
    <3>1. FixLine = <<"$", "fix", "newline">>
      BY DEF FixLine, Line
    <3>2. CASE m = FixLine
      <4>1. m[1] = "$" /\ m[2] = "fix"
        BY <1>1, <3>2
      <4>2. Append(nmea_msg, "newline") = FixLine
        <5>1. nmea_msg = <<"$", "fix">>
          BY <2>1, <3>2, <4>1
        <5> QED BY <3>1, <5>1, Appended
      <4> QED BY <2>1, <3>2, <4>2 DEF Fix
    <3>3. CASE m # FixLine
      <4>1. Append(nmea_msg, "newline") = <<"other", "other", "newline">>
        BY <2>1, <3>3, Appended
      <4>2. <<"other", "other", "newline">> # FixLine
        BY <3>1
      <4> QED BY <3>3, <4>1, <4>2, Zenon DEF Fix
    <3> QED BY <3>2, <3>3
  <2>6. ParserAt(m, FALSE, 0)'
    BY <2>1, <2>4 DEF ParserAt
  <2>7. Fix(m[j + 1]) <=> m = FixLine
    BY <2>1, <2>5, Zenon
  <2>8. ~(j < 2)
    BY <1>5
  <2> QED BY <1>5, <2>6, <2>7, <2>8, Zenon
<1>6. j = 0 \/ j = 1 \/ j = 2
  OBVIOUS
<1>7. Moved
  <2> HIDE DEF Moved
  <2> QED BY <1>3, <1>4, <1>5, <1>6
<1> QED BY <1>7

(* In raw mode a line is noise. *)
LEMMA MutedMoves ==
  ASSUME NEW m \in Messages \ RawMessages, NEW j \in 0 .. 2, ParserAt(m, TRUE, j),
         StartLine(m[j + 1]) \/ ParseLine(m[j + 1]) \/ ParseRaw(m[j + 1])
  PROVE  /\ j < 2 => ParserAt(m, TRUE, j + 1)'
         /\ j = 2 => ParserAt(m, TRUE, 0)'
         /\ ~Fix(m[j + 1])
<1>1. m[1] # Sync /\ m[2] # Sync /\ m[3] # Sync
  BY Kinds DEF Dollar, NewLine, Sync
<1>2. ~is_nmea /\ nmea_msg = <<>> /\ is_raw /\ buff = <<>>
  BY DEF ParserAt
<1>3. m[j + 1] # Sync
  BY <1>1
<1>4. ParseRaw(m[j + 1])
  BY <1>2 DEF StartLine, ParseLine
<1>5. Len(buff) = 0
  BY <1>2
<1>6. AwaitSync(m[j + 1])
  BY <1>4, <1>5 DEF ParseRaw, FeedRaw, TakeLength, TakeData, TakeLast
<1>7. buff' = <<>> /\ is_raw' /\ UNCHANGED <<is_nmea, nmea_msg>>
  BY <1>3, <1>4, <1>6 DEF AwaitSync, ParseRaw
<1> QED BY <1>2, <1>7 DEF ParserAt, Fix

(* A raw message is heard in either mode, and its end sets the mode. *)
LEMMA RawMoves ==
  ASSUME NEW m \in RawMessages, NEW r \in BOOLEAN, NEW j \in 0 .. 3, ParserAt(m, r, j),
         StartLine(m[j + 1]) \/ ParseLine(m[j + 1]) \/ ParseRaw(m[j + 1])
  PROVE  /\ j < 3 => ParserAt(m, r, j + 1)'
         /\ j = 3 => ParserAt(m, m \notin ObsMessages, 0)'
         /\ ~Fix(m[j + 1])
<1>1. m \in Messages
  BY DEF Messages
<1>2. /\ m[1] = Sync /\ m = <<m[1], m[2], m[3], m[4]>>
      /\ Kept(<<Sync, m[2], m[3]>>, RawMessages) = <<Sync, m[2], m[3]>>
  BY <1>1, Kinds, KeptRaw
<1>3. ~is_nmea /\ nmea_msg = <<>>
  BY DEF ParserAt
<1>4. ParseRaw(m[j + 1])
  <2>1. CASE j = 0
    BY <1>2, <1>3, <2>1 DEF StartLine, ParseLine, Sync, Dollar
  <2>2. CASE j > 0
    <3>1. is_raw
      BY <2>2 DEF ParserAt
    <3> QED BY <1>3, <3>1 DEF StartLine, ParseLine
  <2> QED BY <2>1, <2>2
<1>5. UNCHANGED <<is_nmea, nmea_msg>> /\ FeedRaw(m[j + 1])
  BY <1>4 DEF ParseRaw
<1>6. CASE j = 0
  <2>1. Len(buff) = 0 /\ m[j + 1] = Sync
    BY <1>2, <1>6 DEF ParserAt
  <2>2. buff' = <<m[1]>> /\ is_raw'
    BY <1>2, <1>5, <2>1 DEF FeedRaw, AwaitSync, TakeLength, TakeData, TakeLast
  <2> QED BY <1>3, <1>5, <1>6, <2>2 DEF ParserAt, Fix
<1>7. CASE j = 1
  <2>1. buff = <<Sync>> /\ is_raw /\ m[j + 1] = m[2]
    BY <1>2, <1>7 DEF ParserAt
  <2>2. Len(buff) = 1 /\ buff # <<>> /\ Append(buff, m[2]) = <<Sync, m[2]>>
    BY <2>1, Appended
  <2>3. Begins(<<Sync, m[2]>>, RawMessages) /\ Kept(<<Sync, m[2]>>, RawMessages) = <<Sync, m[2]>>
    BY KeptRaw
  <2>4. TakeLength(m[2])
    BY <1>5, <2>1, <2>2 DEF FeedRaw, AwaitSync, TakeData, TakeLast
  <2>5. buff' = <<Sync, m[2]>> /\ len' = 4 /\ is_raw'
    BY <2>1, <2>2, <2>3, <2>4 DEF TakeLength
  <2> QED BY <1>2, <1>3, <1>5, <1>7, <2>5 DEF ParserAt, Fix
<1>8. CASE j = 2
  <2>1. buff = <<Sync, m[2]>> /\ len = 4 /\ is_raw /\ m[j + 1] = m[3]
    BY <1>2, <1>8 DEF ParserAt
  <2>2. Len(buff) = 2 /\ buff # <<>> /\ Append(buff, m[3]) = <<Sync, m[2], m[3]>>
    BY <2>1, Appended
  <2>3. TakeData(m[3])
    BY <1>5, <2>1, <2>2 DEF FeedRaw, AwaitSync, TakeLength, TakeLast
  <2>4. buff' = <<Sync, m[2], m[3]>> /\ len' = 4 /\ is_raw'
    BY <1>2, <2>1, <2>2, <2>3 DEF TakeData
  <2> QED BY <1>2, <1>3, <1>5, <1>8, <2>4 DEF ParserAt, Fix
<1>9. CASE j = 3
  <2>1. buff = <<m[1], m[2], m[3]>> /\ len = 4 /\ m[j + 1] = m[4]
    BY <1>9 DEF ParserAt
  <2>2. Len(buff) = 3 /\ buff # <<>> /\ Append(buff, m[4]) = m
    BY <1>2, <2>1, Appended
  <2>3. TakeLast(m[4])
    BY <1>5, <2>1, <2>2 DEF FeedRaw, AwaitSync, TakeLength, TakeData
  <2>4. buff' = <<>> /\ is_raw' = (m \notin ObsMessages)
    BY <2>2, <2>3 DEF TakeLast
  <2> QED BY <1>3, <1>5, <1>9, <2>4 DEF ParserAt, Fix
<1> QED BY <1>6, <1>7, <1>8, <1>9

(* Each message, byte by byte: its last byte ends it, and only that of a   *)
(* line with a position reports one.                                       *)
LEMMA ParserMoves ==
  ASSUME NEW m \in Messages, NEW r \in BOOLEAN, NEW j \in 0 .. Len(m) - 1, ParserAt(m, r, j),
         StartLine(m[j + 1]) \/ ParseLine(m[j + 1]) \/ ParseRaw(m[j + 1])
  PROVE  /\ j + 1 < Len(m) => ParserAt(m, r, j + 1)'
         /\ j + 1 = Len(m) => ParserAt(m, RawAfter(m, r), 0)'
         /\ Fix(m[j + 1]) <=> j + 1 = Len(m) /\ m = FixLine /\ ~r
<1>1. CASE m \in RawMessages
  <2>1. m # FixLine /\ Len(m) = 4
    BY <1>1, Kinds, MessageType
  <2>2. RawAfter(m, r) = (m \notin ObsMessages)
    BY <1>1 DEF RawAfter
  <2>3. /\ j \in 0 .. 3 /\ (j + 1 < Len(m) <=> j < 3) /\ (j + 1 = Len(m) <=> j = 3)
    BY <2>1
  <2>4. /\ j < 3 => ParserAt(m, r, j + 1)'
        /\ j = 3 => ParserAt(m, m \notin ObsMessages, 0)'
        /\ ~Fix(m[j + 1])
    BY <1>1, <2>3, RawMoves
  <2> QED BY <2>1, <2>2, <2>3, <2>4
<1>2. CASE m \notin RawMessages
  <2>1. RawAfter(m, r) = r /\ Len(m) = 3
    BY <1>2, MessageType DEF RawAfter, RawMessages
  <2>2. /\ j \in 0 .. 2 /\ (j + 1 < Len(m) <=> j < 2) /\ (j + 1 = Len(m) <=> j = 2)
    BY <2>1
  <2>3. CASE r = TRUE
    BY <1>2, <2>1, <2>2, <2>3, MutedMoves
  <2>4. CASE r = FALSE
    BY <1>2, <2>1, <2>2, <2>4, LineMoves
  <2> QED BY <2>3, <2>4
<1> QED BY <1>1, <1>2

-----------------------------------------------------------------------------
(* The messages go on. *)

(* u tells of the message m behind the n that t tells of. *)
Extends(u, t, n, m) ==
  /\ Told(u, n + 1)
  /\ \A k \in 0 .. n - 1 : u.said[k] = t.said[k]
  /\ u.said[n] = m
  /\ \A k \in 0 .. n : u.at[k] = t.at[k] /\ u.raw[k] = t.raw[k] /\ u.cnt[k] = t.cnt[k]
  /\ u.at[n + 1] = t.at[n] + Len(m)
  /\ u.raw[n + 1] = RawAfter(m, t.raw[n])
  /\ u.cnt[n + 1] = t.cnt[n] + Reports(m, t.raw[n])

(* One more message is said: what was told before it stays. *)
LEMMA Extended ==
  ASSUME NEW t, NEW n, Told(t, n), NEW m \in Messages
  PROVE  \E u : Extends(u, t, n, m)
<1> DEFINE said == [k \in 0 .. n |-> IF k < n THEN t.said[k] ELSE m]
           at   == [k \in 0 .. n + 1 |-> IF k <= n THEN t.at[k] ELSE t.at[n] + Len(m)]
           raw  == [k \in 0 .. n + 1 |-> IF k <= n THEN t.raw[k] ELSE RawAfter(m, t.raw[n])]
           cnt  == [k \in 0 .. n + 1 |->
                      IF k <= n THEN t.cnt[k] ELSE t.cnt[n] + Reports(m, t.raw[n])]
           u    == [said |-> said, at |-> at, raw |-> raw, cnt |-> cnt]
<1>1. /\ n \in Nat /\ t.said \in [0 .. n - 1 -> Messages]
      /\ t.at \in [0 .. n -> Nat] /\ t.raw \in [0 .. n -> BOOLEAN] /\ t.cnt \in [0 .. n -> Nat]
      /\ \A k, l \in 0 .. n : k <= l => t.at[k] <= t.at[l] /\ t.cnt[k] <= t.cnt[l]
  BY DEF Told
<1>2. \A k \in 0 .. n - 1 : /\ t.at[k + 1] = t.at[k] + Len(t.said[k])
                            /\ t.raw[k + 1] = RawAfter(t.said[k], t.raw[k])
                            /\ t.cnt[k + 1] = t.cnt[k] + Reports(t.said[k], t.raw[k])
  BY DEF Told
<1>3. /\ Len(m) \in Nat /\ RawAfter(m, t.raw[n]) \in BOOLEAN /\ Reports(m, t.raw[n]) \in Nat
      /\ t.at[n] \in Nat /\ t.cnt[n] \in Nat
  BY <1>1, MessageType DEF RawAfter, Reports
<1>4. said \in [0 .. n -> Messages] /\ (\A k \in 0 .. n - 1 : said[k] = t.said[k]) /\ said[n] = m
  BY <1>1
<1>5. /\ at \in [0 .. n + 1 -> Nat] /\ raw \in [0 .. n + 1 -> BOOLEAN]
      /\ cnt \in [0 .. n + 1 -> Nat]
  <2>1. ASSUME NEW k \in 0 .. n + 1 PROVE at[k] \in Nat /\ raw[k] \in BOOLEAN /\ cnt[k] \in Nat
    <3>1. CASE k <= n
      <4>1. k \in 0 .. n
        BY <1>1, <3>1
      <4>2. t.at[k] \in Nat /\ t.raw[k] \in BOOLEAN /\ t.cnt[k] \in Nat
        BY <1>1, <4>1
      <4> QED BY <3>1, <4>2, Zenon
    <3>2. CASE ~(k <= n)
      <4> DEFINE o == Reports(m, t.raw[n])
      <4>1. t.at[n] + Len(m) \in Nat /\ t.cnt[n] + o \in Nat
        BY <1>3
      <4> HIDE DEF o
      <4> QED BY <1>3, <3>2, <4>1, Zenon DEF o
    <3> QED BY <3>1, <3>2
  <2> QED BY <2>1, Zenon
<1>6. \A k \in 0 .. n : at[k] = t.at[k] /\ raw[k] = t.raw[k] /\ cnt[k] = t.cnt[k]
  BY <1>1
<1>7. /\ at[n + 1] = t.at[n] + Len(m) /\ raw[n + 1] = RawAfter(m, t.raw[n])
      /\ cnt[n + 1] = t.cnt[n] + Reports(m, t.raw[n])
  BY <1>1
<1> HIDE DEF said, at, raw, cnt
<1>8. u.said = said /\ u.at = at /\ u.raw = raw /\ u.cnt = cnt
  OBVIOUS
<1> HIDE DEF u
<1>9. ASSUME NEW k \in 0 .. n
      PROVE  /\ at[k + 1] = at[k] + Len(said[k])
             /\ raw[k + 1] = RawAfter(said[k], raw[k])
             /\ cnt[k + 1] = cnt[k] + Reports(said[k], raw[k])
  <2>1. CASE k = n
    <3>1. said[k] = m /\ at[k] = t.at[n] /\ raw[k] = t.raw[n] /\ cnt[k] = t.cnt[n]
      BY <1>4, <1>6, <2>1
    <3> QED BY <1>7, <2>1, <3>1
  <2>2. CASE k # n
    <3>1. k \in 0 .. n - 1 /\ k + 1 \in 0 .. n
      BY <1>1, <2>2
    <3>2. /\ said[k] = t.said[k] /\ at[k] = t.at[k] /\ raw[k] = t.raw[k] /\ cnt[k] = t.cnt[k]
          /\ at[k + 1] = t.at[k + 1] /\ raw[k + 1] = t.raw[k + 1] /\ cnt[k + 1] = t.cnt[k + 1]
      BY <1>4, <1>6, <3>1
    <3> QED BY <1>2, <3>1, <3>2
  <2> QED BY <2>1, <2>2
<1>10. ASSUME NEW k \in 0 .. n + 1, NEW l \in 0 .. n + 1, k <= l
       PROVE  at[k] <= at[l] /\ cnt[k] <= cnt[l]
  <2>1. CASE l <= n
    <3>1. k \in 0 .. n /\ l \in 0 .. n
      BY <1>1, <1>10, <2>1
    <3> QED BY <1>1, <1>6, <1>10, <3>1
  <2>2. CASE k = n + 1
    <3>1. l = n + 1 /\ at[k] \in Nat /\ cnt[k] \in Nat
      BY <1>1, <1>5, <1>10, <2>2
    <3> QED BY <2>2, <3>1
  <2>3. CASE k <= n /\ l = n + 1
    <3>1. k \in 0 .. n /\ n \in 0 .. n
      BY <1>1, <2>3
    <3>2. /\ at[k] <= t.at[n] /\ at[k] \in Nat
          /\ cnt[k] <= t.cnt[n] /\ cnt[k] \in Nat
      BY <1>1, <1>6, <2>3, <3>1
    <3>3. at[l] = t.at[n] + Len(m) /\ cnt[l] = t.cnt[n] + Reports(m, t.raw[n])
      BY <1>7, <2>3, Zenon
    <3> DEFINE a == at[k]  b == t.at[n]  c == cnt[k]  d == t.cnt[n]
               z == Len(m)  o == Reports(m, t.raw[n])
    <3>4. /\ a \in Nat /\ b \in Nat /\ z \in Nat /\ a <= b
          /\ c \in Nat /\ d \in Nat /\ o \in Nat /\ c <= d
      BY <1>3, <3>2, Zenon
    <3> HIDE DEF a, b, c, d, z, o
    <3>5. a <= b + z /\ c <= d + o
      BY <3>4
    <3> QED BY <3>3, <3>5, Zenon DEF a, b, c, d, z, o
  <2> QED BY <1>1, <2>1, <2>2, <2>3
<1>11. Told(u, n + 1)
  <2>1. n + 1 \in Nat /\ (n + 1) - 1 = n
    BY <1>1
  <2> QED BY <1>4, <1>5, <1>8, <1>9, <1>10, <2>1 DEF Told
<1>12. Extends(u, t, n, m)
  BY <1>4, <1>6, <1>7, <1>8, <1>11 DEF Extends
<1> QED BY <1>12, Zenon

(* The n messages of t are heard: the parser has parsed p of them and j    *)
(* bytes of the next, and has yet to report the positions in those that    *)
(* are left.                                                               *)
Hearing(t, n, p, j) ==
  /\ Told(t, n)
  /\ p \in 0 .. n /\ j \in Nat /\ (p = n => j = 0) /\ (p # n => j < Len(t.said[p]))
  /\ Ahead(t, n, t.at[p] + j)
  /\ ParserAt(t.said[p], t.raw[p], j)
  /\ due = t.cnt[n] - t.cnt[p]
  /\ ~noisy => framed = t.raw[n]

(* Before a message, it does not matter which comes. *)
LEMMA Between ==
  ASSUME NEW a, NEW b, NEW r, ParserAt(a, r, 0) PROVE ParserAt(b, r, 0)
BY DEF ParserAt

(* The parser does not change while the receiver speaks. *)
LEMMA ParserStays ==
  ASSUME NEW m, NEW r, NEW j, ParserAt(m, r, j), UNCHANGED parserVars
  PROVE  ParserAt(m, r, j)'
BY DEF ParserAt, parserVars

(* What is told of the p-th message, or of the end. *)
LEMMA ToldAt ==
  ASSUME NEW t, NEW n, Told(t, n), NEW p \in 0 .. n
  PROVE  /\ n \in Nat /\ t.at[p] \in Nat /\ t.at[n] \in Nat
         /\ t.cnt[p] \in Nat /\ t.cnt[n] \in Nat /\ t.cnt[p] <= t.cnt[n]
         /\ p # n => p \in 0 .. n - 1 /\ t.said[p] \in Messages
<1>1. n \in Nat /\ t.said \in [0 .. n - 1 -> Messages]
  BY DEF Told
<1>2. n \in 0 .. n /\ p <= n /\ (p # n => p \in 0 .. n - 1)
  BY <1>1
<1>3. /\ t.at[p] \in Nat /\ t.at[n] \in Nat /\ t.cnt[p] \in Nat /\ t.cnt[n] \in Nat
      /\ t.cnt[p] <= t.cnt[n]
  BY <1>2 DEF Told
<1> QED BY <1>1, <1>2, <1>3

(* Where a byte of a message is among those behind the first i. *)
LEMMA ByteOf ==
  ASSUME NEW t, NEW n, Told(t, n), NEW k \in 0 .. n - 1, NEW x \in 1 .. Len(t.said[k])
  PROVE  /\ t.said[k] \in Messages /\ t.at[k] \in Nat /\ t.at[n] \in Nat
         /\ x \in Nat /\ t.at[k] + x <= t.at[n]
<1>1. n \in Nat /\ k \in 0 .. n /\ k + 1 \in 0 .. n /\ n \in 0 .. n
  BY DEF Told
<1>2. t.said[k] \in Messages /\ t.at[k] \in Nat /\ t.at[k + 1] \in Nat /\ t.at[n] \in Nat
  BY <1>1 DEF Told
<1>3. t.at[k + 1] = t.at[k] + Len(t.said[k]) /\ t.at[k + 1] <= t.at[n]
  BY <1>1 DEF Told
<1>4. Len(t.said[k]) \in Nat
  BY <1>2, MessageType
<1> QED BY <1>2, <1>3, <1>4

(* ... and that is among the first e - i bytes that come. *)
LEMMA Place ==
  ASSUME NEW a \in Nat, NEW x \in Nat, NEW e \in Nat, NEW i \in Nat, NEW l \in Nat,
         l >= e - i, i < a + x, a + x <= e
  PROVE  /\ a + x - i \in 1 .. l
         /\ i + 1 < a + x => /\ a + x - (i + 1) \in 1 .. l - 1
                            /\ a + x - (i + 1) + 1 = a + x - i
OBVIOUS

LEMMA PlaceBehind ==
  ASSUME NEW e \in Nat, NEW i \in Nat, NEW l \in Nat, NEW z \in Nat, NEW x \in 1 .. z, l = e - i
  PROVE  e + x - i \in 1 .. l + z /\ ~(e + x - i <= l) /\ e + x - i - l = x
OBVIOUS

LEMMA OwedMore ==
  ASSUME NEW c \in Nat, NEW d \in Nat, NEW o \in Nat PROVE (c - d) + o = (c + o) - d
OBVIOUS

(* What is said behind the messages takes nothing from them. *)
LEMMA Longer ==
  ASSUME TypeOK, NEW t, NEW n, NEW p, NEW j, Hearing(t, n, p, j),
         NEW s \in Seq(Bytes), Unread \in Seq(Bytes), Unread' = Unread \o s,
         UNCHANGED parserVars, noisy', due' = due
  PROVE  Hearing(t, n, p, j)'
<1> DEFINE i == t.at[p] + j
<1>1. /\ Told(t, n) /\ p \in 0 .. n /\ j \in Nat
      /\ Len(Unread) >= t.at[n] - i
      /\ \A k \in 0 .. n - 1 : \A x \in 1 .. Len(t.said[k]) :
           i < t.at[k] + x => Unread[t.at[k] + x - i] = t.said[k][x]
  BY DEF Hearing, Ahead
<1>2. i \in Nat /\ t.at[n] \in Nat
  <2>1. Told(t, n) /\ p \in 0 .. n /\ j \in Nat
    BY <1>1
  <2>2. t.at[p] \in Nat /\ t.at[n] \in Nat
    BY <2>1, ToldAt
  <2> QED BY <2>1, <2>2
<1> HIDE DEF i
<1>3. /\ Len(Unread') = Len(Unread) + Len(s) /\ Len(Unread) \in Nat /\ Len(s) \in Nat
      /\ \A x \in 1 .. Len(Unread) : Unread'[x] = Unread[x]
  BY ConcatProperties
<1>4. Len(Unread') >= t.at[n] - i
  BY <1>1, <1>2, <1>3
<1>5. ASSUME NEW k \in 0 .. n - 1, NEW x \in 1 .. Len(t.said[k]), i < t.at[k] + x
      PROVE  Unread'[t.at[k] + x - i] = t.said[k][x]
  <2>1. /\ t.at[k] \in Nat /\ x \in Nat /\ t.at[k] + x <= t.at[n]
    BY <1>1, ByteOf
  <2>2. t.at[k] + x - i \in 1 .. Len(Unread)
    <3> DEFINE a == t.at[k]  e == t.at[n]  l == Len(Unread)
    <3>1. /\ a \in Nat /\ x \in Nat /\ e \in Nat /\ i \in Nat /\ l \in Nat
          /\ l >= e - i /\ i < a + x /\ a + x <= e
      BY <1>1, <1>2, <1>3, <1>5, <2>1
    <3> HIDE DEF a, e, l
    <3>2. a + x - i \in 1 .. l
      BY <3>1, Place
    <3> QED BY <3>2 DEF a, l
  <2> QED BY <1>1, <1>3, <1>5, <2>2
<1>6. Ahead(t, n, i)'
  BY <1>4, <1>5 DEF Ahead, i
<1>7. ParserAt(t.said[p], t.raw[p], j)'
  BY ParserStays DEF Hearing
<1> QED BY <1>6, <1>7 DEF Hearing, Told, i

(* One more message, with no noise before it, is heard behind the others.  *)
LEMMA OneMore ==
  ASSUME TypeOK, NEW t, NEW n, NEW p, NEW j, Hearing(t, n, p, j),
         Len(Unread) = t.at[n] - (t.at[p] + j),
         NEW m \in Messages, Unread \in Seq(Bytes), Unread' = Unread \o m,
         UNCHANGED parserVars,
         framed' = RawAfter(m, t.raw[n]), due' = due + Reports(m, t.raw[n])
  PROVE  \E u : Hearing(u, n + 1, p, j)'
<1> DEFINE i == t.at[p] + j
<1>1. /\ n \in Nat /\ p \in 0 .. n /\ j \in Nat /\ (p = n => j = 0)
      /\ (p # n => j < Len(t.said[p]))
      /\ Told(t, n) /\ ParserAt(t.said[p], t.raw[p], j)
      /\ due = t.cnt[n] - t.cnt[p]
      /\ \A k \in 0 .. n - 1 : \A x \in 1 .. Len(t.said[k]) :
           i < t.at[k] + x => Unread[t.at[k] + x - i] = t.said[k][x]
  BY DEF Hearing, Told, Ahead
<1>2. t.at[p] \in Nat /\ t.at[n] \in Nat /\ t.cnt[p] \in Nat /\ t.cnt[n] \in Nat
  BY <1>1, ToldAt
<1>3. i \in Nat /\ Len(Unread) = t.at[n] - i
  BY <1>1, <1>2
<1>4. PICK u : Extends(u, t, n, m)
  BY <1>1, Extended, Zenon
<1>5. /\ Told(u, n + 1)
      /\ \A k \in 0 .. n - 1 : u.said[k] = t.said[k]
      /\ \A k \in 0 .. n : u.at[k] = t.at[k] /\ u.raw[k] = t.raw[k] /\ u.cnt[k] = t.cnt[k]
      /\ u.said[n] = m
      /\ u.at[n + 1] = t.at[n] + Len(m)
      /\ u.raw[n + 1] = RawAfter(m, t.raw[n])
      /\ u.cnt[n + 1] = t.cnt[n] + Reports(m, t.raw[n])
  BY <1>4 DEF Extends
<1>6. /\ u.at[p] = t.at[p] /\ u.raw[p] = t.raw[p] /\ u.cnt[p] = t.cnt[p]
      /\ u.at[n] = t.at[n]
  BY <1>1, <1>5
<1>7. m \in Seq(Bytes) /\ Len(m) \in Nat
  BY MessageType
<1> HIDE DEF i
<1>8. /\ Len(Unread') = Len(Unread) + Len(m)
      /\ \A x \in 1 .. Len(Unread) + Len(m) :
           Unread'[x] = IF x <= Len(Unread) THEN Unread[x] ELSE m[x - Len(Unread)]
  <2> DEFINE v == Unread
  <2>1. /\ Len(v \o m) = Len(v) + Len(m)
        /\ \A x \in 1 .. Len(v) + Len(m) :
             (v \o m)[x] = IF x <= Len(v) THEN v[x] ELSE m[x - Len(v)]
    BY <1>7, ConcatProperties
  <2>2. Unread' = v \o m
    OBVIOUS
  <2> HIDE DEF v
  <2>3. /\ Len(Unread') = Len(v) + Len(m)
        /\ \A x \in 1 .. Len(v) + Len(m) :
             Unread'[x] = IF x <= Len(v) THEN v[x] ELSE m[x - Len(v)]
    BY <2>1, <2>2
  <2> QED BY <2>3 DEF v
<1>9. Len(Unread') = u.at[n + 1] - i
  BY <1>2, <1>3, <1>5, <1>7, <1>8
<1>10. ASSUME NEW k \in 0 .. n, NEW x \in 1 .. Len(u.said[k]), i < u.at[k] + x
       PROVE  Unread'[u.at[k] + x - i] = u.said[k][x]
  <2>1. CASE k = n
    <3>1. x \in 1 .. Len(m) /\ u.at[k] = t.at[n] /\ u.said[k] = m
      BY <1>5, <1>6, <1>10, <2>1
    <3> DEFINE y == u.at[k] + x - i
    <3>2. /\ y \in 1 .. Len(Unread) + Len(m) /\ ~(y <= Len(Unread))
          /\ y - Len(Unread) = x
      <4> DEFINE e == t.at[n]  l == Len(Unread)  z == Len(m)
      <4>1. /\ e \in Nat /\ l \in Nat /\ i \in Nat /\ z \in Nat /\ x \in 1 .. z
            /\ l = e - i /\ y = e + x - i
        BY <1>2, <1>3, <1>7, <3>1
      <4> HIDE DEF e, l, y, z
      <4>2. e + x - i \in 1 .. l + z /\ ~(e + x - i <= l) /\ e + x - i - l = x
        BY <4>1, PlaceBehind
      <4>3. y \in 1 .. l + z /\ ~(y <= l) /\ y - l = x
        BY <4>1, <4>2
      <4> QED BY <4>3 DEF l, z
    <3> HIDE DEF y
    <3>3. Unread'[y] = m[x]
      BY <1>8, <3>2
    <3> QED BY <3>1, <3>3 DEF y
  <2>2. CASE k # n
    <3>1. k \in 0 .. n - 1 /\ k \in 0 .. n
      BY <1>1, <2>2
    <3>2. u.said[k] = t.said[k] /\ u.at[k] = t.at[k]
      BY <1>5, <3>1
    <3>3. x \in 1 .. Len(t.said[k]) /\ i < t.at[k] + x
      BY <1>10, <3>2
    <3>4. t.at[k] \in Nat /\ x \in Nat /\ t.at[k] + x <= t.at[n]
      BY <1>1, <3>1, <3>3, ByteOf
    <3> DEFINE y == t.at[k] + x - i
    <3>5. y \in 1 .. Len(Unread) + Len(m) /\ y <= Len(Unread)
      <4> DEFINE a == t.at[k]  e == t.at[n]  l == Len(Unread)  z == Len(m)
      <4>1. /\ a \in Nat /\ x \in Nat /\ e \in Nat /\ l \in Nat /\ i \in Nat /\ z \in Nat
            /\ l >= e - i /\ i < a + x /\ a + x <= e /\ y = a + x - i
        <5>1. e \in Nat /\ l \in Nat /\ i \in Nat /\ z \in Nat /\ l >= e - i
          BY <1>2, <1>3, <1>7
        <5> QED BY <3>3, <3>4, <5>1, Zenon
      <4> HIDE DEF a, e, l, y, z
      <4>2. y \in 1 .. l
        BY <4>1, Place
      <4>3. y \in 1 .. l + z /\ y <= l
        BY <4>1, <4>2
      <4> QED BY <4>3 DEF l, z
    <3>6. Unread[y] = t.said[k][x]
      <4>1. i < t.at[k] + x => Unread[t.at[k] + x - i] = t.said[k][x]
        BY <1>1, <3>1, <3>3, Zenon
      <4> QED BY <3>3, <4>1, Zenon
    <3> HIDE DEF y
    <3>7. Unread'[y] = Unread[y]
      BY <1>8, <3>5
    <3> QED BY <3>2, <3>6, <3>7 DEF y
  <2> QED BY <2>1, <2>2
<1>11. Ahead(u, n + 1, u.at[p] + j)'
  <2>1. u.at[p] + j = i /\ (n + 1) - 1 = n
    BY <1>1, <1>6 DEF i
  <2>2. u.at[n + 1] \in Nat /\ Len(Unread') >= u.at[n + 1] - i
    <3> DEFINE e == u.at[n + 1]  l == Len(Unread')
    <3>1. e \in Nat
      BY <1>2, <1>5, <1>7
    <3>2. i \in Nat /\ l = e - i
      BY <1>3, <1>9
    <3> HIDE DEF e, l
    <3>3. l >= e - i
      BY <3>1, <3>2
    <3> QED BY <3>1, <3>3 DEF e, l
  <2> QED BY <1>9, <1>10, <2>1, <2>2 DEF Ahead
<1>12. ParserAt(u.said[p], u.raw[p], j)
  <2>1. CASE p = n
    <3>1. j = 0
      BY <1>1, <2>1
    <3> QED BY <1>1, <1>6, <3>1, Between
  <2>2. CASE p # n
    <3>1. u.said[p] = t.said[p]
      BY <1>1, <1>5, <2>2
    <3> QED BY <1>1, <1>6, <3>1
  <2> QED BY <2>1, <2>2
<1>13. ParserAt(u.said[p], u.raw[p], j)'
  BY <1>12, ParserStays
<1>14. due' = u.cnt[n + 1] - u.cnt[p]
  <2>1. Reports(m, t.raw[n]) \in Nat
    BY DEF Reports
  <2> DEFINE o == Reports(m, t.raw[n])  c == t.cnt[n]  d == t.cnt[p]
  <2>2. /\ o \in Nat /\ c \in Nat /\ d \in Nat /\ due = c - d /\ due' = due + o
        /\ u.cnt[n + 1] = c + o /\ u.cnt[p] = d
    BY <1>1, <1>2, <1>5, <1>6, <2>1
  <2> HIDE DEF o, c, d
  <2>3. (c - d) + o = (c + o) - d
    BY <2>2, OwedMore, Zenon
  <2>4. due' = (c - d) + o /\ u.cnt[n + 1] - u.cnt[p] = (c + o) - d
    BY <2>2, Zenon
  <2> QED BY <2>3, <2>4, Zenon
<1>15. p \in 0 .. n + 1 /\ p # n + 1 /\ j < Len(u.said[p])
  <2>1. p \in 0 .. n + 1 /\ p # n + 1
    BY <1>1
  <2>2. CASE p = n
    <3>1. j = 0 /\ u.said[p] = m
      BY <1>1, <1>5, <2>2
    <3> QED BY <2>1, <3>1, MessageSays, Zenon
  <2>3. CASE p # n
    <3>1. u.said[p] = t.said[p]
      BY <1>1, <1>5, <2>3
    <3> QED BY <1>1, <2>1, <2>3, <3>1
  <2> QED BY <2>2, <2>3
<1>16. Hearing(u, n + 1, p, j)'
  BY <1>1, <1>5, <1>11, <1>13, <1>14, <1>15 DEF Hearing, Told
<1> QED BY <1>16, Zenon

(* A byte is parsed: one more of the message, or it was the last of it.    *)
LEMMA OneLess ==
  ASSUME TypeOK, NEW t, NEW n, NEW p, NEW j, Hearing(t, n, p, j), p # n, ParseByte
  PROVE  \E p1, j1 : Hearing(t, n, p1, j1)'
<1> DEFINE b == Head(read_buf)
           m == t.said[p]
           r == t.raw[p]
           i == t.at[p] + j
<1>1. /\ port = "open" /\ read_buf # <<>> /\ read_buf' = Tail(read_buf)
      /\ StartLine(b) \/ ParseLine(b) \/ ParseRaw(b)
      /\ due' = IF Fix(b) /\ (due > 0 \/ ~noisy) THEN due - 1 ELSE due
      /\ UNCHANGED <<port, wire, noisy, framed, quiet>>
  BY DEF ParseByte, saidVars
<1>2. /\ n \in Nat /\ p \in 0 .. n - 1 /\ j \in Nat /\ j < Len(m)
      /\ Told(t, n) /\ ParserAt(m, r, j) /\ Ahead(t, n, i)
      /\ due = t.cnt[n] - t.cnt[p]
      /\ ~noisy => framed = t.raw[n]
  <2>1. /\ Told(t, n) /\ p \in 0 .. n /\ j \in Nat /\ j < Len(m)
        /\ ParserAt(m, r, j) /\ Ahead(t, n, i)
        /\ due = t.cnt[n] - t.cnt[p]
        /\ ~noisy => framed = t.raw[n]
    BY DEF Hearing
  <2>2. n \in Nat /\ p \in 0 .. n - 1
    BY <2>1 DEF Told
  <2> QED BY <2>1, <2>2
<1>3. /\ m \in Messages /\ r \in BOOLEAN
      /\ t.raw[p + 1] = RawAfter(m, r) /\ t.cnt[p + 1] = t.cnt[p] + Reports(m, r)
      /\ t.at[p + 1] = t.at[p] + Len(m)
      /\ t.cnt[p] \in Nat /\ t.cnt[p + 1] \in Nat /\ t.cnt[n] \in Nat
      /\ t.at[p] \in Nat /\ t.at[n] \in Nat
      /\ t.cnt[p + 1] <= t.cnt[n]
  <2>1. p + 1 \in 0 .. n /\ n \in 0 .. n /\ p \in 0 .. n /\ p + 1 <= n
    BY <1>2
  <2>2. t.cnt[p + 1] <= t.cnt[n]
    BY <1>2, <2>1 DEF Told
  <2> QED BY <1>2, <2>1, <2>2 DEF Told
<1>4. /\ b = Unread[1] /\ Unread \in Seq(Bytes) /\ Unread # <<>>
      /\ Unread' = Tail(Unread)
  BY <1>1, NextByte DEF Unread
<1>5. /\ Len(Unread') = Len(Unread) - 1 /\ Len(Unread) \in Nat
      /\ \A x \in 1 .. Len(Unread) - 1 : Unread'[x] = Unread[x + 1]
  BY <1>4, HeadTailProperties
<1>6. /\ i \in Nat /\ i = t.at[p] + j /\ Len(m) \in Nat /\ j \in 0 .. Len(m) - 1
      /\ j + 1 \in 1 .. Len(m)
  <2>1. Len(m) \in Nat
    BY <1>3, MessageType
  <2> DEFINE l == Len(m)  a == t.at[p]
  <2>2. l \in Nat /\ a \in Nat /\ j \in Nat /\ j < l
    BY <1>2, <1>3, <2>1
  <2> HIDE DEF l, a
  <2>3. a + j \in Nat /\ l \in Nat /\ j \in 0 .. l - 1 /\ j + 1 \in 1 .. l
    BY <2>2
  <2> QED BY <2>3 DEF l, a
<1> HIDE DEF i
<1>7. /\ Len(Unread) >= t.at[n] - i
      /\ ~noisy => Len(Unread) = t.at[n] - i
      /\ \A k \in 0 .. n - 1 : \A x \in 1 .. Len(t.said[k]) :
           i < t.at[k] + x => Unread[t.at[k] + x - i] = t.said[k][x]
  BY <1>2 DEF Ahead
<1>8. b = m[j + 1]
  <2>1. i < t.at[p] + (j + 1) /\ t.at[p] + (j + 1) - i = 1
    <3> DEFINE a == t.at[p]
    <3>1. a \in Nat /\ j \in Nat /\ i = a + j
      BY <1>2, <1>3, <1>6
    <3> HIDE DEF a
    <3>2. i < a + (j + 1) /\ a + (j + 1) - i = 1
      BY <3>1
    <3> QED BY <3>2 DEF a
  <2> QED BY <1>2, <1>4, <1>6, <1>7, <2>1
<1>9. Ahead(t, n, i + 1)'
  <2> DEFINE e == t.at[n]  l == Len(Unread)
  <2>1. /\ e \in Nat /\ l \in Nat /\ i \in Nat /\ l >= e - i /\ (~noisy => l = e - i)
        /\ Len(Unread') = l - 1 /\ noisy' = noisy
    BY <1>1, <1>3, <1>5, <1>6, <1>7
  <2> HIDE DEF e, l
  <2>2. Len(Unread') >= e - (i + 1) /\ (~noisy' => Len(Unread') = e - (i + 1))
    BY <2>1
  <2>3. ASSUME NEW k \in 0 .. n - 1, NEW x \in 1 .. Len(t.said[k]), i + 1 < t.at[k] + x
        PROVE  Unread'[t.at[k] + x - (i + 1)] = t.said[k][x]
    <3>1. t.at[k] \in Nat /\ x \in Nat /\ t.at[k] + x <= t.at[n]
      BY <1>2, ByteOf
    <3> DEFINE a == t.at[k]
               y == a + x - (i + 1)
    <3>2. /\ a \in Nat /\ x \in Nat /\ i + 1 < a + x /\ a + x <= e
      BY <2>3, <3>1 DEF e
    <3> HIDE DEF a
    <3>3. i < a + x
      BY <2>1, <3>2
    <3>4. y \in 1 .. l - 1 /\ y + 1 = a + x - i
      BY <2>1, <3>2, <3>3, Place
    <3> HIDE DEF y
    <3>5. Unread'[y] = t.said[k][x]
      BY <1>5, <1>7, <3>3, <3>4 DEF l, a
    <3> QED BY <3>5 DEF y, a
  <2> QED BY <2>2, <2>3 DEF Ahead, e
<1> HIDE DEF b, m, r
<1>10. /\ j + 1 < Len(m) => ParserAt(m, r, j + 1)'
       /\ j + 1 = Len(m) => ParserAt(m, RawAfter(m, r), 0)'
       /\ Fix(b) <=> j + 1 = Len(m) /\ m = FixLine /\ ~r
  BY <1>1, <1>2, <1>3, <1>6, <1>8, ParserMoves
<1>11. Told(t, n)'
  BY <1>2 DEF Told
<1>12. ~noisy' => framed' = t.raw[n]
  BY <1>1, <1>2
<1>13. CASE j + 1 < Len(m)
  <2>1. due' = t.cnt[n] - t.cnt[p]
    BY <1>1, <1>2, <1>6, <1>10, <1>13
  <2>2. ParserAt(t.said[p], t.raw[p], j + 1)' /\ j + 1 < Len(t.said[p])
    BY <1>10, <1>13 DEF m, r
  <2>3. j + 1 \in Nat /\ p \in 0 .. n /\ p # n /\ t.at[p] + (j + 1) = i + 1
    <3> DEFINE a == t.at[p]
    <3>1. a \in Nat /\ j \in Nat /\ i = a + j /\ n \in Nat /\ p \in 0 .. n - 1
      BY <1>2, <1>3, <1>6
    <3> HIDE DEF a
    <3>2. j + 1 \in Nat /\ p \in 0 .. n /\ p # n /\ a + (j + 1) = i + 1
      BY <3>1
    <3> QED BY <3>2 DEF a
  <2>4. Ahead(t, n, t.at[p] + (j + 1))'
    BY <1>9, <2>3
  <2>5. Hearing(t, n, p, j + 1)'
    BY <1>11, <1>12, <2>1, <2>2, <2>3, <2>4 DEF Hearing
  <2> QED BY <2>5, Zenon
<1>14. CASE j + 1 = Len(m)
  <2>1. due' = t.cnt[n] - t.cnt[p + 1]
    <3>1. CASE m = FixLine /\ ~r
      <4>1. Fix(b) /\ Reports(m, r) = 1
        BY <1>10, <1>14, <3>1 DEF Reports
      <4>2. t.cnt[p + 1] = t.cnt[p] + 1 /\ due > 0
        <5> DEFINE c == t.cnt[n]  d == t.cnt[p]  e == t.cnt[p + 1]
        <5>1. c \in Nat /\ d \in Nat /\ e = d + 1 /\ e <= c /\ due = c - d
          BY <1>2, <1>3, <4>1
        <5> HIDE DEF c, d, e
        <5>2. due > 0
          BY <5>1
        <5> QED BY <5>1, <5>2 DEF d, e
      <4>3. due' = due - 1
        BY <1>1, <4>1, <4>2
      <4> DEFINE c == t.cnt[n]  d == t.cnt[p]
      <4>4. c \in Nat /\ d \in Nat /\ t.cnt[p + 1] = d + 1 /\ due = c - d
        BY <1>2, <1>3, <4>2
      <4> HIDE DEF c, d
      <4>5. due' = c - t.cnt[p + 1]
        BY <4>3, <4>4
      <4> QED BY <4>5 DEF c
    <3>2. CASE ~(m = FixLine /\ ~r)
      <4>1. ~Fix(b) /\ Reports(m, r) = 0
        BY <1>10, <3>2 DEF Reports
      <4> QED BY <1>1, <1>2, <1>3, <4>1
    <3> QED BY <3>1, <3>2
  <2>2. ParserAt(t.said[p + 1], t.raw[p + 1], 0)'
    <3>1. ParserAt(m, t.raw[p + 1], 0)'
      BY <1>3, <1>10, <1>14
    <3> QED BY <3>1 DEF ParserAt
  <2>3. p + 1 \in 0 .. n /\ t.at[p + 1] + 0 = i + 1
    <3> DEFINE a == t.at[p]  l == Len(m)
    <3>1. /\ a \in Nat /\ j \in Nat /\ i = a + j /\ n \in Nat /\ p \in 0 .. n - 1
          /\ t.at[p + 1] = a + l /\ j + 1 = l
      BY <1>2, <1>3, <1>6, <1>14
    <3> HIDE DEF a, l
    <3> QED BY <3>1
  <2>4. p + 1 # n => 0 < Len(t.said[p + 1])
    <3>1. n \in Nat /\ p \in 0 .. n - 1 /\ t.said \in [0 .. n - 1 -> Messages]
      BY <1>2 DEF Told
    <3>2. p + 1 # n => p + 1 \in 0 .. n - 1
      BY <3>1
    <3>3. p + 1 # n => t.said[p + 1] \in Messages
      BY <3>1, <3>2
    <3> QED BY <3>3, MessageSays, Zenon
  <2>5. Ahead(t, n, t.at[p + 1] + 0)'
    BY <1>9, <2>3
  <2>6. Hearing(t, n, p + 1, 0)'
    BY <1>11, <1>12, <2>1, <2>2, <2>3, <2>4, <2>5 DEF Hearing
  <2> QED BY <2>6, Zenon
<1>15. j + 1 < Len(m) \/ j + 1 = Len(m)
  BY <1>6
<1> QED BY <1>13, <1>14, <1>15, Zenon

-----------------------------------------------------------------------------
(* The invariant. *)

(* Either nothing is owed that noise could swallow, or messages are heard. *)
SaidInv ==
  port = "open" =>
    \/ noisy /\ due = 0
    \/ \E t, n, p, j : Hearing(t, n, p, j)

(* A message that has begun is a raw one, and a closed port owes nothing.  *)
RestInv   == ~is_raw => buff = <<>>
ClosedInv == port = "closed" => due = 0
IInv      == TypeOK /\ RestInv /\ ClosedInv /\ SaidInv

(* What is heard is owed no more than what is unread. *)
LEMMA HearingOwes ==
  ASSUME TypeOK, NEW t, NEW n, NEW p, NEW j, Hearing(t, n, p, j)
  PROVE  due >= 0 /\ (Unread = <<>> => p = n /\ j = 0 /\ due = 0 /\ is_raw = t.raw[n])
<1>1. /\ n \in Nat /\ p \in 0 .. n /\ j \in Nat /\ (p = n => j = 0)
      /\ (p # n => j < Len(t.said[p]))
      /\ Told(t, n) /\ ParserAt(t.said[p], t.raw[p], j)
      /\ Len(Unread) >= t.at[n] - (t.at[p] + j)
      /\ due = t.cnt[n] - t.cnt[p]
  BY DEF Hearing, Told, Ahead
<1>2. t.cnt[p] <= t.cnt[n] /\ t.cnt[p] \in Nat /\ t.cnt[n] \in Nat
  BY <1>1, ToldAt
<1>3. ASSUME Unread = <<>> PROVE p = n /\ j = 0 /\ due = 0 /\ is_raw = t.raw[n]
  <2>1. Len(Unread) = 0
    BY <1>3
  <2>2. ASSUME p # n PROVE FALSE
    <3>1. p \in 0 .. n - 1 /\ j + 1 \in 1 .. Len(t.said[p])
      <4>1. p \in 0 .. n - 1 /\ t.said[p] \in Messages
        BY <1>1, <2>2, ToldAt
      <4>2. Len(t.said[p]) \in Nat
        BY <4>1, MessageType
      <4> QED BY <1>1, <2>2, <4>1, <4>2
    <3>2. t.at[p] \in Nat /\ t.at[n] \in Nat /\ t.at[p] + (j + 1) <= t.at[n]
      BY <1>1, <3>1, ByteOf
    <3> QED BY <1>1, <2>1, <3>2
  <2>3. p = n /\ j = 0
    BY <1>1, <2>2
  <2>4. is_raw = t.raw[n]
    BY <1>1, <2>3 DEF ParserAt
  <2> QED BY <1>1, <1>2, <2>3, <2>4
<1> QED BY <1>1, <1>2, <1>3

(* That is what makes FixesHeard hold. *)
LEMMA SaidInvHeard ==
  ASSUME TypeOK, SaidInv PROVE FixesHeard
<1>1. CASE port # "open"
  BY <1>1 DEF FixesHeard
<1>2. CASE noisy /\ due = 0
  BY <1>2 DEF FixesHeard
<1>3. ASSUME NEW t, NEW n, NEW p, NEW j, Hearing(t, n, p, j)
      PROVE  FixesHeard
  <2>1. due >= 0 /\ (Unread = <<>> => due = 0)
    BY <1>3, HearingOwes
  <2> QED BY <2>1 DEF FixesHeard
<1> QED BY <1>1, <1>2, <1>3, Zenon DEF SaidInv

(* At rest no message has yet been told, and the parser awaits the first.  *)
LEMMA RestHears ==
  ASSUME IInv, AtRest, port = "open"
  PROVE  /\ due = 0 /\ Len(Unread) = 0
         /\ \E t : Hearing(t, 0, 0, 0) /\ t.raw[0] = FALSE /\ t.at[0] = 0
<1> DEFINE said == [k \in 0 .. 0 - 1 |-> FixLine]
           none == [k \in 0 .. 0 |-> 0]
           raw  == [k \in 0 .. 0 |-> FALSE]
           t    == [said |-> said, at |-> none, raw |-> raw, cnt |-> none]
<1>1. Unread = <<>> /\ ~is_nmea /\ is_raw = FALSE /\ nmea_msg = <<>> /\ buff = <<>>
  BY DEF AtRest, IInv, RestInv, TypeOK
<1>2. due = 0
  BY <1>1, SaidInvHeard DEF IInv, FixesHeard
<1>3. /\ said \in [0 .. 0 - 1 -> Messages] /\ none \in [0 .. 0 -> Nat]
      /\ raw \in [0 .. 0 -> BOOLEAN]
      /\ raw[0] = FALSE /\ none[0] = 0 /\ \A k \in 0 .. 0 : k = 0
  BY DEF Messages
<1> HIDE DEF said, none, raw
<1>4. t.said = said /\ t.at = none /\ t.raw = raw /\ t.cnt = none
  OBVIOUS
<1> HIDE DEF t
<1>5. Told(t, 0)
  <2>1. \A k \in 0 .. 0 - 1 : FALSE
    OBVIOUS
  <2>2. \A k, l \in 0 .. 0 : none[k] <= none[l]
    BY <1>3
  <2> QED BY <1>3, <1>4, <2>1, <2>2 DEF Told
<1>6. Len(Unread) = 0 /\ t.at[0] = 0 /\ t.at[0] + 0 = 0 /\ t.cnt[0] = 0 /\ t.raw[0] = FALSE
  BY <1>1, <1>3, <1>4
<1>7. Ahead(t, 0, t.at[0] + 0)
  BY <1>6 DEF Ahead
<1>8. ParserAt(t.said[0], t.raw[0], 0)
  <2>1. is_raw = t.raw[0]
    BY <1>1, <1>6
  <2> QED BY <1>1, <2>1 DEF ParserAt
<1>9. ~noisy => framed = t.raw[0]
  <2>1. ASSUME NEW g, NEW n, NEW p, NEW j, Hearing(g, n, p, j), ~noisy
        PROVE  framed = FALSE
    <3>1. is_raw = g.raw[n]
      BY <1>1, <2>1, HearingOwes DEF IInv
    <3> QED BY <1>1, <2>1, <3>1 DEF Hearing
  <2>2. ~noisy => framed = FALSE
    BY <2>1, Zenon DEF IInv, SaidInv
  <2> QED BY <1>6, <2>2
<1>10. Hearing(t, 0, 0, 0)
  BY <1>2, <1>5, <1>6, <1>7, <1>8, <1>9 DEF Hearing
<1> QED BY <1>2, <1>6, <1>10, Zenon

(* What a step of the receiver's does with a message. *)
Spoken(m) ==
  /\ SayMessage(m)
  /\ framed' = RawAfter(m, framed /\ ~AtRest)
  /\ due' = due + IF Heeded THEN Reports(m, FALSE) ELSE 0

(* A message is heard, unless there was noise since the parser was at rest. *)
LEMMA SpokenHeard ==
  ASSUME IInv, NEW m \in Messages, Spoken(m)
  PROVE  SaidInv'
<1>1. TypeOK /\ SaidInv /\ framed \in BOOLEAN /\ noisy \in BOOLEAN /\ due \in Int
  BY DEF IInv, TypeOK
<1>2. m \in Seq(Bytes) /\ Say(m) /\ noisy' = (noisy /\ ~AtRest)
  BY MessageType DEF Spoken, SayMessage
<1>3. /\ port = "open" /\ Unread \in Seq(Bytes) /\ Unread' = Unread \o m
      /\ UNCHANGED <<port, read_buf, parserVars>>
  BY <1>1, <1>2, SaidType
<1>4. /\ framed' = RawAfter(m, framed /\ ~AtRest)
      /\ due' = due + IF Heeded THEN Reports(m, FALSE) ELSE 0
  BY DEF Spoken
<1>5. CASE AtRest
  <2>1. Len(Unread) = 0
    BY <1>3, <1>5, RestHears
  <2>2. PICK t : Hearing(t, 0, 0, 0) /\ t.raw[0] = FALSE /\ t.at[0] = 0
    BY <1>3, <1>5, RestHears, Zenon
  <2>3. framed' = RawAfter(m, t.raw[0])
    BY <1>1, <1>4, <1>5, <2>2
  <2>4. due' = due + Reports(m, t.raw[0])
    BY <1>4, <1>5, <2>2 DEF Heeded
  <2>5. Len(Unread) = t.at[0] - (t.at[0] + 0)
    BY <2>1, <2>2
  <2>6. \E u : Hearing(u, 0 + 1, 0, 0)'
    BY <1>1, <1>3, <2>2, <2>3, <2>4, <2>5, OneMore
  <2> QED BY <2>6, Zenon DEF SaidInv
<1>6. CASE ~AtRest /\ noisy
  <2>1. noisy' /\ due' = due
    <3>1. noisy' /\ ~Heeded
      BY <1>2, <1>6, Zenon DEF Heeded
    <3>2. due' = due + 0
      BY <1>4, <3>1
    <3> QED BY <1>1, <3>1, <3>2
  <2>2. CASE due = 0
    BY <2>1, <2>2 DEF SaidInv
  <2>3. ASSUME NEW t, NEW n, NEW p, NEW j, Hearing(t, n, p, j)
        PROVE  SaidInv'
    <3>1. Hearing(t, n, p, j)'
      BY <1>1, <1>2, <1>3, <2>1, <2>3, Longer
    <3> QED BY <3>1, Zenon DEF SaidInv
  <2> QED BY <1>1, <1>3, <2>2, <2>3, Zenon DEF SaidInv
<1>7. CASE ~AtRest /\ ~noisy
  <2>1. PICK t, n, p, j : Hearing(t, n, p, j)
    BY <1>1, <1>3, <1>7, Zenon DEF SaidInv
  <2>2. framed = t.raw[n] /\ Len(Unread) = t.at[n] - (t.at[p] + j)
    BY <1>7, <2>1 DEF Hearing, Ahead
  <2>3. framed' = RawAfter(m, t.raw[n])
    <3>1. (framed /\ ~AtRest) = framed
      BY <1>1, <1>7
    <3> QED BY <1>4, <2>2, <3>1
  <2>4. due' = due + Reports(m, t.raw[n])
    BY <1>1, <1>4, <1>7, <2>2 DEF Heeded, Reports
  <2>5. \E u : Hearing(u, n + 1, p, j)'
    BY <1>1, <1>3, <2>1, <2>2, <2>3, <2>4, OneMore
  <2> QED BY <2>5, Zenon DEF SaidInv
<1> QED BY <1>1, <1>5, <1>6, <1>7

(* Nothing is said, and nothing parsed. *)
LEMMA Silence ==
  ASSUME SaidInv, Unread' = Unread, UNCHANGED <<port, parserVars, noisy, framed, due>>
  PROVE  SaidInv'
<1>1. CASE port # "open" \/ (noisy /\ due = 0)
  BY <1>1 DEF SaidInv
<1>2. ASSUME NEW t, NEW n, NEW p, NEW j, Hearing(t, n, p, j)
      PROVE  SaidInv'
  <2>1. ParserAt(t.said[p], t.raw[p], j)'
    BY <1>2, ParserStays DEF Hearing
  <2>2. Ahead(t, n, t.at[p] + j)'
    BY <1>2 DEF Hearing, Ahead
  <2>3. Hearing(t, n, p, j)'
    BY <1>2, <2>1, <2>2 DEF Hearing, Told
  <2> QED BY <2>3, Zenon DEF SaidInv
<1> QED BY <1>1, <1>2, Zenon DEF SaidInv

(* Whatever the receiver does. *)
LEMMA ReceiverHeard ==
  ASSUME IInv, Receiver
  PROVE  SaidInv'
<1>1. TypeOK /\ SaidInv /\ framed \in BOOLEAN /\ noisy \in BOOLEAN /\ due \in Int
  BY DEF IInv, TypeOK
<1>2. FixLine \in Messages /\ Line("nofix") \in Messages
      /\ ObsMessages \subseteq RawMessages /\ RawMessages \subseteq Messages
  BY DEF Messages, RawMessages
<1>3. FixLine \notin RawMessages /\ Line("nofix") \notin RawMessages /\ Line("nofix") # FixLine
  <2>1. /\ FixLine[1] = Dollar /\ FixLine[2] = "fix"
        /\ Line("nofix")[1] = Dollar /\ Line("nofix")[2] = "nofix"
    BY DEF FixLine, Line
  <2>2. \A m \in RawMessages : m[1] = Sync
    BY <1>2, Kinds
  <2> QED BY <2>1, <2>2 DEF Dollar, Sync
<1>4. CASE SayFix
  <2>1. RawAfter(FixLine, framed /\ ~AtRest) = (framed /\ ~AtRest)
    BY <1>2, <1>3, Zenon DEF RawAfter
  <2>2. Reports(FixLine, FALSE) = 1
    BY DEF Reports
  <2>3. Spoken(FixLine)
    BY <1>4, <2>1, <2>2 DEF SayFix, SayLine, Spoken
  <2> QED BY <1>2, <2>3, SpokenHeard
<1>5. CASE SayNoFix
  <2>1. RawAfter(Line("nofix"), framed /\ ~AtRest) = (framed /\ ~AtRest)
    BY <1>2, <1>3, Zenon DEF RawAfter
  <2>2. Reports(Line("nofix"), FALSE) = 0
    BY <1>3 DEF Reports
  <2>3. Spoken(Line("nofix"))
    BY <1>5, <2>1, <2>2 DEF SayNoFix, SayLine, Spoken
  <2> QED BY <1>2, <2>3, SpokenHeard
<1>6. ASSUME NEW m \in RawMessages, SayMessage(m), framed' = (m \notin ObsMessages), due' = due
      PROVE  SaidInv'
  <2>1. m # FixLine /\ m \in Messages
    BY <1>2, <1>3
  <2>2. RawAfter(m, framed /\ ~AtRest) = (m \notin ObsMessages)
    BY Zenon DEF RawAfter
  <2>3. Reports(m, FALSE) = 0
    BY <2>1 DEF Reports
  <2>4. due' = due + IF Heeded THEN Reports(m, FALSE) ELSE 0
    <3> DEFINE owed == IF Heeded THEN Reports(m, FALSE) ELSE 0
    <3>1. owed = 0
      BY <2>3, Zenon
    <3> HIDE DEF owed
    <3>2. due' = due + owed
      BY <1>1, <1>6, <3>1
    <3> QED BY <3>2 DEF owed
  <2>5. Spoken(m)
    BY <1>6, <2>2, <2>4, Zenon DEF Spoken
  <2> QED BY <2>1, <2>5, SpokenHeard
<1>7. CASE SayObs
  <2>1. PICK m \in ObsMessages : SayMessage(m)
    BY <1>7 DEF SayObs
  <2> QED BY <1>2, <1>6, <1>7, <2>1 DEF SayObs
<1>8. CASE SayFrame
  <2>1. PICK m \in RawMessages \ ObsMessages : SayMessage(m)
    BY <1>8 DEF SayFrame
  <2> QED BY <1>6, <1>8, <2>1 DEF SayFrame
<1>9. CASE SayNoise
  <2>1. PICK b \in {Dollar, NewLine, Sync, "other"} : Say(<<b>>)
    BY <1>9 DEF SayNoise
  <2>2. <<b>> \in Seq(Bytes)
    BY DEF Bytes
  <2>3. /\ port = "open" /\ Unread \in Seq(Bytes) /\ Unread' = Unread \o <<b>>
        /\ UNCHANGED <<port, read_buf, parserVars>>
    BY <1>1, <2>1, <2>2, SaidType
  <2>4. noisy' /\ due' = due
    BY <1>9, Zenon DEF SayNoise
  <2>5. CASE noisy /\ due = 0
    BY <2>4, <2>5 DEF SaidInv
  <2>6. ASSUME NEW t, NEW n, NEW p, NEW j, Hearing(t, n, p, j)
        PROVE  SaidInv'
    <3>1. Hearing(t, n, p, j)'
      BY <1>1, <2>2, <2>3, <2>4, <2>6, Longer
    <3> QED BY <3>1, Zenon DEF SaidInv
  <2> QED BY <1>1, <2>3, <2>5, <2>6, Zenon DEF SaidInv
<1>10. CASE FallQuiet
  <2>1. UNCHANGED <<port, wire, read_buf, parserVars, noisy, framed, due>>
    BY <1>10 DEF FallQuiet
  <2>2. Unread' = Unread
    BY <2>1 DEF Unread
  <2> QED BY <1>1, <2>1, <2>2, Silence
<1> QED BY <1>4, <1>5, <1>7, <1>8, <1>9, <1>10 DEF Receiver

(* A raw message begins in raw mode, and ends with an empty buffer. *)
LEMMA RestStays ==
  ASSUME RestInv, NEW b, StartLine(b) \/ ParseLine(b) \/ ParseRaw(b)
  PROVE  RestInv'
<1>1. CASE StartLine(b) \/ ParseLine(b)
  BY <1>1 DEF StartLine, ParseLine, RestInv
<1>2. CASE ParseRaw(b)
  <2>1. CASE AwaitSync(b)
    BY <2>1 DEF AwaitSync, RestInv
  <2>2. CASE TakeLength(b) \/ TakeData(b)
    <3>1. buff # <<>> /\ UNCHANGED is_raw
      BY <2>2 DEF TakeLength, TakeData
    <3> QED BY <3>1 DEF RestInv
  <2>3. CASE TakeLast(b)
    BY <2>3 DEF TakeLast, RestInv
  <2> QED BY <1>2, <2>1, <2>2, <2>3 DEF ParseRaw, FeedRaw
<1> QED BY <1>1, <1>2

(* Whatever the thread parses. *)
LEMMA ParsedHeard ==
  ASSUME IInv, ParseByte
  PROVE  SaidInv'
<1>1. TypeOK /\ SaidInv
  BY DEF IInv
<1>2. /\ port = "open" /\ read_buf # <<>> /\ noisy' = noisy
      /\ due' = IF Fix(Head(read_buf)) /\ (due > 0 \/ ~noisy) THEN due - 1 ELSE due
  BY DEF ParseByte, saidVars
<1>3. CASE noisy /\ due = 0
  <2>1. noisy' /\ due' = 0
    BY <1>2, <1>3
  <2> QED BY <2>1 DEF SaidInv
<1>4. ASSUME NEW t, NEW n, NEW p, NEW j, Hearing(t, n, p, j),
             ~(noisy /\ due = 0)
      PROVE  SaidInv'
  <2>1. p # n
    <3>1. CASE noisy
      <4>1. p = n => due = 0
        BY <1>4 DEF Hearing, Told
      <4> QED BY <1>4, <3>1, <4>1
    <3>2. CASE ~noisy
      <4>1. Len(Unread) = t.at[n] - (t.at[p] + j) /\ (p = n => j = 0) /\ t.at[n] \in Nat
        BY <1>4, <3>2 DEF Hearing, Ahead, Told
      <4>2. Len(Unread) > 0
        BY <1>1, <1>2, NextByte
      <4> QED BY <4>1, <4>2
    <3> QED BY <3>1, <3>2
  <2>2. \E p1, j1 : Hearing(t, n, p1, j1)'
    BY <1>1, <1>4, <2>1, OneLess
  <2> QED BY <2>2, Zenon DEF SaidInv
<1> QED BY <1>1, <1>2, <1>3, <1>4, Zenon DEF SaidInv

-----------------------------------------------------------------------------
(* The theorems. *)

(* Nothing has been said when the program starts. *)
LEMMA InitInv ==
  ASSUME Init PROVE IInv
<1>1. <<>> \in Seq(Bytes) /\ Len(<<>>) = 0
  OBVIOUS
<1>2. TypeOK
  <2>1. /\ 0 <= WireMax /\ 0 <= ReadMax /\ 0 <= MsgRoom /\ 0 < MaxRaw
        /\ 0 \in 0 .. MaxLine - 1 /\ 0 \in 0 .. MaxRaw
    BY SerialAssumption
  <2>2. /\ port = "closed" /\ wire = <<>> /\ read_buf = <<>> /\ nmea_msg = <<>> /\ buff = <<>>
        /\ is_nmea \in BOOLEAN /\ is_raw \in BOOLEAN /\ noisy \in BOOLEAN
        /\ framed \in BOOLEAN /\ quiet \in BOOLEAN
        /\ nmea_length = 0 /\ len = 0 /\ due = 0
    BY DEF Init
  <2> QED BY <1>1, <2>1, <2>2 DEF TypeOK
<1>3. RestInv /\ ClosedInv /\ SaidInv
  BY DEF Init, RestInv, ClosedInv, SaidInv
<1> QED BY <1>2, <1>3 DEF IInv

(* And every step keeps it: the receiver adds to what is told, the thread  *)
(* takes from it byte by byte, and a stop or a failure forgets it.         *)
LEMMA StepInv ==
  ASSUME IInv, [Next]_vars PROVE IInv'
<1>1. TypeOK'
  BY StepType DEF IInv
<1>2. RestInv'
  <2>1. CASE UNCHANGED parserVars
    BY <2>1 DEF IInv, RestInv, parserVars
  <2>2. CASE ParseByte
    BY <2>2, RestStays DEF ParseByte, IInv
  <2>3. UNCHANGED parserVars \/ ParseByte
    BY Zenon DEF Next, vars, Receiver, SayFix, SayNoFix, SayObs, SayFrame, SayNoise, SayLine,
       SayMessage, Say, FallQuiet, OpenPort, ClosePort, PortFails, Thread, ReadPort, ParseWild
  <2> QED BY <2>1, <2>2, <2>3
<1>3. ClosedInv' /\ SaidInv'
  <2>1. CASE Receiver
    <3>1. port' = "open" \/ UNCHANGED <<port, due>>
      BY <2>1 DEF Receiver, SayFix, SayNoFix, SayObs, SayFrame, SayNoise, SayLine, SayMessage,
         Say, FallQuiet
    <3> QED BY <2>1, <3>1, ReceiverHeard DEF IInv, ClosedInv
  <2>2. CASE OpenPort
    <3>1. port' = "open" /\ noisy' /\ due' = 0
      BY <2>2, Zenon DEF OpenPort, IInv, ClosedInv
    <3> QED BY <3>1 DEF ClosedInv, SaidInv
  <2>3. CASE ClosePort \/ PortFails \/ ParseWild
    <3>1. port' # "open" /\ (port' = "closed" => due' = 0)
      BY <2>3 DEF ClosePort, PortFails, ParseWild
    <3> QED BY <3>1 DEF ClosedInv, SaidInv
  <2>4. CASE ReadPort
    <3>1. Unread' = Unread
      BY <2>4, ReadType DEF IInv
    <3>2. port = "open" /\ UNCHANGED <<port, parserVars, noisy, framed, due>>
      BY <2>4 DEF ReadPort, saidVars
    <3> QED BY <3>1, <3>2, Silence DEF IInv, ClosedInv
  <2>5. CASE ParseByte
    <3>1. port' = "open"
      BY <2>5 DEF ParseByte
    <3> QED BY <2>5, <3>1, ParsedHeard DEF ClosedInv
  <2>6. CASE UNCHANGED vars
    <3>1. UNCHANGED <<port, wire, read_buf, parserVars, noisy, framed, due>>
      BY <2>6 DEF vars, saidVars
    <3>2. Unread' = Unread
      BY <3>1 DEF Unread
    <3> QED BY <3>1, <3>2, Silence DEF IInv, ClosedInv
  <2> QED BY <2>1, <2>2, <2>3, <2>4, <2>5, <2>6 DEF Next, Thread
<1> QED BY <1>1, <1>2, <1>3 DEF IInv

(* The invariant holds of every state of the parser and its port. *)
THEOREM Invariance == Spec => []IInv
BY InitInv, StepInv, PTL DEF Spec

(* Every variable keeps its type, whatever the receiver says: a line that  *)
(* goes on for ever leaves the line buffer where the code notices it.      *)
THEOREM TypeCorrect == Spec => []TypeOK
<1>1. IInv => TypeOK
  BY DEF IInv
<1> QED BY <1>1, Invariance, PTL

(* However read cuts what the receiver says, each position it said in      *)
(* whole messages, from any rest of the parser on, is reported, and once.  *)
THEOREM EveryFixHeard == Spec => []FixesHeard
<1>1. IInv => FixesHeard
  BY SaidInvHeard DEF IInv
<1> QED BY <1>1, Invariance, PTL

=============================================================================
