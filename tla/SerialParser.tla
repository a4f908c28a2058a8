---------------------------- MODULE SerialParser ----------------------------
(***************************************************************************)
(* What the receiver says on the serial port, and how the hardware thread  *)
(* of the positioning driver hears it: iwise_serial_parser_input, which    *)
(* tells NMEA lines from raw messages byte by byte, the line buffer of     *)
(* iwise_nmea_parser_input, and the message buffer of input_ubx.           *)
(*                                                                         *)
(* A byte stands for all that the automata treat alike: what a line or a   *)
(* message says is one byte, the two bytes a message begins with are       *)
(* "sync", those that give its type and length are one. A checksum fits    *)
(* what was sent, and nothing else.                                        *)
(***************************************************************************)
EXTENDS Integers, Sequences

CONSTANTS
  MaxLine,   (* MAX_NMEA_LEN, the length at which a line is given up       *)
  MsgRoom,   (* bytes from nmea_msg to the first field that still matters  *)
  MaxRaw,    (* MAXRAWLEN, the length of the longest message               *)
  ReadMax,   (* the size of read_buf                                       *)
  WireMax    (* bound on the bytes that wait on the port                   *)

ASSUME SerialAssumption ==
  /\ {MaxLine, MsgRoom, MaxRaw, ReadMax, WireMax} \subseteq Nat
  /\ 3 < MaxLine /\ MaxLine < MsgRoom
  /\ 4 <= MaxRaw /\ 0 < ReadMax /\ 4 <= WireMax

Dollar  == "$"
NewLine == "newline"
Sync    == "sync"
Bytes   == {Dollar, NewLine, Sync, "fix", "nofix", "obs", "frame", "other"}

(* A GGA line, with a position or without. *)
Line(says) == <<Dollar, says, NewLine>>
FixLine    == Line("fix")

(* A raw message: one that yields observations (or an ephemeris, which is  *)
(* treated alike), or one whose type or content yields nothing. Its data,  *)
(* between its length and its checksum, may hold what a line begins or     *)
(* ends with, and what a message begins with.                              *)
Raw(yields) == {<<Sync, yields, d, "other">> : d \in {"other", Dollar, NewLine, Sync}}
ObsMessages == Raw("obs")
RawMessages == ObsMessages \cup Raw("frame")
Messages    == {FixLine, Line("nofix")} \cup RawMessages

VARIABLES
  port,         (* "closed", "open", "ended" (the thread has returned on   *)
                (* an error) or "wild" (it has written over its own state) *)
  wire,         (* the bytes on the port                                   *)
  read_buf,     (* the bytes read and not yet parsed                       *)
  is_nmea, is_raw, nmea_length,  (* iwise_serial_parser_t                  *)
  nmea_msg,     (* the line as far as it is there; its length is the i of  *)
                (* iwise_nmea_parser_input                                 *)
  buff,         (* raw_t: the message as far as it is there                *)
  len           (* ... and its length, 0 before it is known                *)

(* History variables, which the thread does not read. *)
VARIABLES
  noisy,        (* the receiver has said something that is no message, or  *)
                (* was not heard, since the parser was last at rest        *)
  framed,       (* its last raw message was one that yields nothing        *)
  quiet,        (* it will say nothing but whole messages from now on, and *)
                (* none with what begins a message within its data         *)
  due           (* how many of its positions are still to be reported      *)

parserVars == <<is_nmea, is_raw, nmea_length, nmea_msg, buff, len>>
saidVars   == <<noisy, framed, quiet>>
vars       == <<port, wire, read_buf, parserVars, saidVars, due>>

Unread == read_buf \o wire
AtRest == ~is_nmea /\ ~is_raw /\ nmea_msg = <<>> /\ Unread = <<>>

Init ==
  /\ port = "closed"
  /\ wire = <<>> /\ read_buf = <<>>
  /\ is_nmea = FALSE /\ is_raw = FALSE /\ nmea_length = 0
  /\ nmea_msg = <<>> /\ buff = <<>> /\ len = 0
  /\ noisy = FALSE /\ framed = FALSE /\ quiet = FALSE
  /\ due = 0

-----------------------------------------------------------------------------
(* The receiver. It owes nothing. What the driver owes is a report of each *)
(* position it was told of when the receiver had said nothing but whole    *)
(* messages since the parser was at rest, unless the last raw message was  *)
(* one that yields nothing: only one that does ends the raw mode.          *)
Heeded == AtRest \/ (~noisy /\ ~framed)

Say(m) ==
  /\ port = "open"
  /\ Len(wire \o m) <= WireMax
  /\ wire' = wire \o m
  /\ UNCHANGED <<port, read_buf, parserVars>>

SayMessage(m) ==
  /\ quiet => \A i \in 2 .. Len(m) : m[i] # Sync
  /\ Say(m)
  /\ noisy' = (noisy /\ ~AtRest)
  /\ UNCHANGED quiet

SayLine(m, owed) ==
  /\ SayMessage(m)
  /\ framed' = (framed /\ ~AtRest)
  /\ due' = due + owed

SayFix   == SayLine(FixLine, IF Heeded THEN 1 ELSE 0)
SayNoFix == SayLine(Line("nofix"), 0)
SayObs   == (\E m \in ObsMessages : SayMessage(m)) /\ framed' = FALSE /\ UNCHANGED due
SayFrame ==
  /\ \E m \in RawMessages \ ObsMessages : SayMessage(m)
  /\ framed' = TRUE
  /\ UNCHANGED due

(* a byte that belongs to no message: noise, or what is left of one *)
SayNoise ==
  /\ ~quiet
  /\ \E b \in {Dollar, NewLine, Sync, "other"} : Say(<<b>>)
  /\ noisy' = TRUE
  /\ UNCHANGED <<framed, quiet, due>>

FallQuiet ==
  /\ ~quiet
  /\ quiet' = TRUE
  /\ UNCHANGED <<port, wire, read_buf, parserVars, noisy, framed, due>>

Receiver == SayFix \/ SayNoFix \/ SayObs \/ SayFrame \/ SayNoise \/ FallQuiet

-----------------------------------------------------------------------------
(* iwise_hardware_open, on a start. The receiver may be in the middle of a *)
(* message; the parser is as the last close left it.                       *)
OpenPort ==
  /\ port = "closed"
  /\ port' = "open"
  /\ \E m \in Messages : \E k \in 1 .. Len(m) + 1 : wire' = SubSeq(m, k, Len(m))
  /\ noisy' = TRUE
  /\ UNCHANGED <<read_buf, parserVars, framed, quiet, due>>

(* iwise_hardware_close, when the thread sees the stop or the destroy. It  *)
(* looks only between two reads. What waits on the port is lost.           *)
ClosePort ==
  /\ port = "open"
  /\ read_buf = <<>>
  /\ port' = "closed"
  /\ wire' = <<>>
  /\ noisy' = TRUE
  /\ due' = 0
  /\ UNCHANGED <<read_buf, parserVars, framed, quiet>>

(* The port cannot be opened, or read fails: the thread returns. *)
PortFails ==
  /\ port = "closed" \/ (port = "open" /\ read_buf = <<>>)
  /\ port' = "ended"
  /\ due' = 0
  /\ UNCHANGED <<wire, read_buf, parserVars, saidVars>>

ReadPort ==
  /\ port = "open"
  /\ read_buf = <<>>
  /\ \E n \in 1 .. Len(wire) :
       /\ n <= ReadMax
       /\ read_buf' = SubSeq(wire, 1, n)
       /\ wire' = SubSeq(wire, n + 1, Len(wire))
  /\ UNCHANGED <<port, parserVars, saidVars, due>>

-----------------------------------------------------------------------------
(* What a buffer holds matters only as far as it can become a message;     *)
(* beyond that, only how much it is.                                       *)
Begins(m, whole) == \E w \in whole : \E k \in 0 .. Len(w) : m = SubSeq(w, 1, k)
Kept(m, whole)   == IF Begins(m, whole) THEN m ELSE [k \in 1 .. Len(m) |-> "other"]

(* Mutation: the next line is appended to this one. *)
FeedLineGoesOn(b) == nmea_msg' = Kept(Append(nmea_msg, b), {FixLine})

(* iwise_nmea_parser_input: the line grows by a byte, and a newline ends   *)
(* it. Nothing else resets its index.                                      *)
FeedLine(b) ==
  nmea_msg' = IF b = NewLine THEN <<>> ELSE Kept(Append(nmea_msg, b), {FixLine})

(* The byte, and for the last one a zero behind it, are within nmea_msg or *)
(* in the results of other kinds of lines that follow it, which no report  *)
(* uses.                                                                   *)
LineFits(b) == Len(nmea_msg) + (IF b = NewLine THEN 1 ELSE 0) < MsgRoom

(* input_ubx, before the two bytes that begin a message *)
AwaitSync(b) ==
  /\ buff = <<>>
  /\ buff' = IF b = Sync THEN <<b>> ELSE <<>>
  /\ is_raw' = TRUE
  /\ UNCHANGED len

(* ... at its length, which behind noise, or behind such two bytes in the  *)
(* data of a message, can be anything, too long too,                       *)
TakeLength(b) ==
  /\ Len(buff) = 1
  /\ \/ /\ buff' = Kept(Append(buff, b), RawMessages)
        /\ len' \in IF Begins(buff', RawMessages) THEN {4} ELSE 3 .. MaxRaw
     \/ /\ ~Begins(Append(buff, b), RawMessages)
        /\ buff' = <<>>
        /\ len' = 0
  /\ UNCHANGED is_raw

(* ... in it, *)
TakeData(b) ==
  /\ Len(buff) > 1 /\ Len(buff) + 1 < len
  /\ buff' = Kept(Append(buff, b), RawMessages)
  /\ UNCHANGED <<is_raw, len>>

(* Mutation: a message with a wrong checksum stays in the buffer. *)
TakeLastKeepsBad(b) ==
  /\ Len(buff) > 1 /\ Len(buff) + 1 = len
  /\ IF Append(buff, b) \in RawMessages
     THEN /\ is_raw' = (Append(buff, b) \notin ObsMessages)
          /\ buff' = <<>>
          /\ len' = 0
     ELSE UNCHANGED <<is_raw, buff, len>>

(* ... and at its end. decode_ubx: a wrong checksum or an unknown type     *)
(* yields nothing, and hardware_handle ends the raw mode only on a message *)
(* that yields something.                                                  *)
TakeLast(b) ==
  /\ Len(buff) > 1 /\ Len(buff) + 1 = len
  /\ is_raw' = (Append(buff, b) \notin ObsMessages)
  /\ buff' = <<>>
  /\ len' = 0

FeedRaw(b) == AwaitSync(b) \/ TakeLength(b) \/ TakeData(b) \/ TakeLast(b)

(* iwise_serial_parser_input: what an unknown stream is its first byte     *)
(* says; a line ends on a newline or where it is too long.                 *)
StartLine(b) ==
  /\ ~is_nmea /\ ~is_raw /\ b = Dollar
  /\ LineFits(b)
  /\ FeedLine(b)
  /\ is_nmea' = TRUE
  /\ nmea_length' = 1
  /\ UNCHANGED <<is_raw, buff, len>>

(* Mutation: a line is given up one byte too late. *)
LineEndsLate(b) == b = NewLine \/ nmea_length + 1 > MaxLine

LineEnds(b) == b = NewLine \/ nmea_length + 1 >= MaxLine

ParseLine(b) ==
  /\ is_nmea
  /\ LineFits(b)
  /\ FeedLine(b)
  /\ is_nmea' = ~LineEnds(b)
  /\ nmea_length' = IF LineEnds(b) THEN 0 ELSE nmea_length + 1
  /\ UNCHANGED <<is_raw, buff, len>>

ParseRaw(b) ==
  /\ ~is_nmea /\ (is_raw \/ b # Dollar)
  /\ FeedRaw(b)
  /\ UNCHANGED <<is_nmea, nmea_length, nmea_msg>>

(* parse_nmea accepts the line: hardware_handle reports a position, in the *)
(* modes of positioning, standalone or with corrections, that it knows.    *)
Fix(b) == is_nmea /\ Append(nmea_msg, b) = FixLine

ParseByte ==
  /\ port = "open"
  /\ read_buf # <<>>
  /\ LET b == Head(read_buf) IN
       /\ StartLine(b) \/ ParseLine(b) \/ ParseRaw(b)
       /\ due' = IF Fix(b) /\ (due > 0 \/ ~noisy) THEN due - 1 ELSE due
  /\ read_buf' = Tail(read_buf)
  /\ UNCHANGED <<port, wire, saidVars>>

(* Lines that were given up leave the index where it was. When it is       *)
(* behind all that, the thread writes over is_nmea and what follows it,    *)
(* and nothing more is said about it.                                      *)
ParseWild ==
  /\ port = "open"
  /\ read_buf # <<>>
  /\ is_nmea \/ (~is_raw /\ Head(read_buf) = Dollar)
  /\ ~LineFits(Head(read_buf))
  /\ port' = "wild"
  /\ UNCHANGED <<wire, read_buf, parserVars, saidVars, due>>

Thread == ReadPort \/ ParseByte \/ ParseWild

Next == Receiver \/ OpenPort \/ ClosePort \/ PortFails \/ Thread

Spec == Init /\ [][Next]_vars

(* The thread is scheduled, and select returns within a second. *)
FairSpec == Spec /\ WF_vars(Thread)

-----------------------------------------------------------------------------
(* Every variable keeps its type, and nmea_length stays in the buffer nmea *)
(* with room for the zero behind a line.                                   *)
TypeOK ==
  /\ port \in {"closed", "open", "ended", "wild"}
  /\ wire \in Seq(Bytes) /\ Len(wire) <= WireMax
  /\ read_buf \in Seq(Bytes) /\ Len(read_buf) <= ReadMax
  /\ is_nmea \in BOOLEAN /\ is_raw \in BOOLEAN
  /\ nmea_length \in 0 .. MaxLine - 1
  /\ nmea_msg \in Seq(Bytes) /\ Len(nmea_msg) <= MsgRoom
  /\ buff \in Seq(Bytes) /\ Len(buff) < MaxRaw
  /\ len \in 0 .. MaxRaw
  /\ noisy \in BOOLEAN /\ framed \in BOOLEAN /\ quiet \in BOOLEAN
  /\ due \in Int

(* However read cuts what the receiver says in whole messages, each of its *)
(* positions is reported once it is read, and none twice or without being  *)
(* said, from any moment on at which the parser is at rest: no state of a  *)
(* line or a message is left behind by the one before.                     *)
FixesHeard == port = "open" => due >= 0 /\ (Unread = <<>> => due = 0)

Hears == ParseByte /\ Fix(Head(read_buf))

(* After noise, a start in the middle of a message or a line without an    *)
(* end, the parser finds its way back: a receiver that goes on with whole  *)
(* messages, observations among them and positions behind those, is heard  *)
(* again and again. It must say, from some time on, no message with the    *)
(* two bytes a message begins with in its data: sync_ubx takes those for   *)
(* the beginning of one, of a length that can end it in the data of a      *)
(* later message, before the same two bytes, and so on for ever.           *)
Resynchronises ==
  /\ <>[](quiet /\ port = "open")
  /\ []<><<SayObs>>_vars
  /\ []<><<SayFix /\ ~framed>>_vars
  => []<><<Hears>>_vars

=============================================================================
