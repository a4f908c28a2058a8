--------------------------- MODULE InsLogicProofs ---------------------------
(***************************************************************************)
(* Proofs about InsLogic and the clients of TcpClients, for any clients,   *)
(* any lists of them and any number of fixes.                              *)
(***************************************************************************)
EXTENDS InsLogic, TLAPS, FiniteSetTheorems

(* inside zy_tcpclient_send *)
SendStates == {"write", "close", "socket", "connect", "rewrite"}

MainStates == {"start", "failed", "started", "with_gps", "with_imu", "idle",
               "asleep", "woken", "poll", "solve"} \cup SendStates
ReportStates == {"none", "idle", "copy_fix", "flag_fix"} \cup SendStates

(* The clients a thread sends on. *)
Work(t) == IF t = "main" THEN Range(ResultClients)
                         ELSE Range(LocationClients) \cup Range(NmeaClients)

Distinct(s) == \A i, j \in DOMAIN s : s[i] = s[j] => i = j

PcInv == pc \in [Threads -> MainStates \cup ReportStates]

(* A thread that sends has a client to send on, and only its own ones. *)
TodoInv ==
  \A t \in Threads :
    pc[t] \in SendStates => todo[t] # <<>> /\ Range(todo[t]) \subseteq Work(t)

(* The report thread runs only when every client is started, and main      *)
(* starts each of them once.                                               *)
StartInv ==
  /\ pc["report"] # "none" => pc["main"] \notin {"start", "failed", "started"}
  /\ pc["main"] = "start" =>
       /\ todo["main"] # <<>>
       /\ Distinct(todo["main"])
       /\ \A c \in Clients : socket_fd[c] = 0 <=> c \in Range(todo["main"])
  /\ pc["main"] = "failed" => \A c \in Clients : socket_fd[c] = 0
  /\ pc["main"] \notin {"start", "failed"} => \A c \in Clients : socket_fd[c] # 0

(* A fix is stored only while there is a number for it. *)
CountInv == pc["report"] = "copy_fix" => gps_data < MaxFix

(* What the threads do, and what the descriptors are. *)
ThreadInv == TypeOK /\ PcInv /\ TodoInv /\ StartInv /\ CountInv
IInv == ThreadInv /\ OwnServer /\ NoDescriptorLost

(* gps_mutex is held exactly while the report thread stores a fix, which   *)
(* it does not before main is ready, and then the fix is a new one.        *)
FixInv ==
  /\ imu = "none" <=> pc["main"] \in {"start", "failed", "started", "with_gps", "with_imu"}
  /\ gps_mutex <=> pc["report"] \in {"copy_fix", "flag_fix"}
  /\ gps_mutex => imu # "none"
  /\ fix <= gps_data
  /\ pc["report"] = "flag_fix" => fix < gps_data
  /\ FlaggedFixIsNew

-----------------------------------------------------------------------------
(* Sequences                                                               *)

(* A sequence with an element is its head and the rest.                    *)
LEMMA HeadTail ==
  ASSUME NEW S, NEW s \in Seq(S), s # <<>>
  PROVE  /\ Head(s) \in S
         /\ Tail(s) \in Seq(S)
         /\ Range(s) = {Head(s)} \cup Range(Tail(s))
         /\ Len(s) = 1 <=> Tail(s) = <<>>
<1>1. Len(s) \in Nat \ {0} /\ DOMAIN s = 1 .. Len(s)
  OBVIOUS
<1>2. /\ Tail(s) \in Seq(S)
      /\ Len(Tail(s)) = Len(s) - 1
      /\ \A i \in 1 .. Len(s) - 1 : Tail(s)[i] = s[i + 1]
      /\ DOMAIN Tail(s) = 1 .. Len(s) - 1
  OBVIOUS
<1>3. Head(s) = s[1] /\ Head(s) \in S
  OBVIOUS
<1>4. Range(s) \subseteq {Head(s)} \cup Range(Tail(s))
  <2> SUFFICES ASSUME NEW i \in 1 .. Len(s), i # 1 PROVE s[i] \in Range(Tail(s))
    BY <1>1, <1>3 DEF Range
  <2>1. i - 1 \in 1 .. Len(s) - 1 /\ (i - 1) + 1 = i
    BY <1>1
  <2> QED BY <2>1, <1>2 DEF Range
<1>5. {Head(s)} \cup Range(Tail(s)) \subseteq Range(s)
  <2>1. Head(s) \in Range(s)
    BY <1>1, <1>3 DEF Range
  <2>2. ASSUME NEW i \in 1 .. Len(s) - 1 PROVE Tail(s)[i] \in Range(s)
    <3>1. i + 1 \in 1 .. Len(s) BY <1>1
    <3> QED BY <3>1, <1>1, <1>2 DEF Range
  <2> QED BY <2>1, <2>2, <1>2 DEF Range
<1>6. Len(s) = 1 <=> Tail(s) = <<>>
  <2>1. Len(s) = 1 => Tail(s) = <<>>
    BY <1>1, <1>2
  <2>2. Len(<<>>) = 0
    OBVIOUS
  <2>3. ASSUME Tail(s) = <<>> PROVE Len(s) = 1
    <3>1. Len(Tail(s)) = 0 BY <2>2, <2>3, Zenon
    <3> QED BY <3>1, <1>1, <1>2
  <2> QED BY <2>1, <2>3
<1> QED BY <1>2, <1>3, <1>4, <1>5, <1>6

(* Of a list without repetition the head is not in the rest.               *)
LEMMA DistinctTail ==
  ASSUME NEW S, NEW s \in Seq(S), s # <<>>, Distinct(s)
  PROVE  Distinct(Tail(s)) /\ Head(s) \notin Range(Tail(s))
<1>1. Len(s) \in Nat \ {0} /\ DOMAIN s = 1 .. Len(s) /\ Head(s) = s[1]
  OBVIOUS
<1>2. /\ \A i \in 1 .. Len(s) - 1 : Tail(s)[i] = s[i + 1]
      /\ DOMAIN Tail(s) = 1 .. Len(s) - 1
  OBVIOUS
<1>3. \A i \in 1 .. Len(s) - 1 : i \in Int /\ i + 1 \in 1 .. Len(s) /\ i + 1 # 1
  BY <1>1
<1>4. ASSUME NEW i \in 1 .. Len(s) - 1, NEW j \in 1 .. Len(s) - 1, Tail(s)[i] = Tail(s)[j]
      PROVE  i = j
  <2>1. i + 1 = j + 1
    BY <1>4, <1>1, <1>2, <1>3 DEF Distinct
  <2> QED BY <2>1, <1>3
<1>5. Distinct(Tail(s))
  BY <1>2, <1>4 DEF Distinct
<1>6. ASSUME NEW i \in 1 .. Len(s) - 1 PROVE Tail(s)[i] # s[1]
  BY <1>1, <1>2, <1>3 DEF Distinct
<1> QED BY <1>1, <1>2, <1>5, <1>6 DEF Range

-----------------------------------------------------------------------------
(* What the threads do                                                     *)

(* main starts with every client still to be connected.                    *)
LEMMA InitThreadInv == Init => ThreadInv
<1> SUFFICES ASSUME Init PROVE ThreadInv
  OBVIOUS
<1> USE InsAssumption DEF Init, NetInit
<1>1. StartOrder \in Seq(Clients) /\ StartOrder # <<>> /\ <<>> \in Seq(Clients)
  OBVIOUS
<1>2. todo = [t \in Threads |-> IF t = "main" THEN StartOrder ELSE <<>>]
  OBVIOUS
<1>3. TypeOK
  <2>1. todo \in [Threads -> Seq(Clients)]
    BY <1>1, <1>2
  <2>2. 0 \in 0 .. MaxFix
    OBVIOUS
  <2> QED BY <2>1, <2>2 DEF TypeOK, NetTypeOK
<1>4. PcInv /\ TodoInv /\ CountInv
  BY DEF PcInv, TodoInv, CountInv, MainStates, ReportStates, SendStates
<1>5. StartInv
  <2>1. todo["main"] = StartOrder /\ pc["main"] = "start" /\ pc["report"] = "none"
    OBVIOUS
  <2> QED BY <2>1, <1>1 DEF StartInv, Distinct
<1> QED BY <1>3, <1>4, <1>5 DEF ThreadInv

(* A thread whose frame is done goes on with the next one or is idle. *)
LEMMA SendDoneThreads ==
  ASSUME ThreadInv, NEW t \in Threads, pc[t] \in SendStates, SendDone(t),
         UNCHANGED <<netVars, imu, gpsVars>>
  PROVE  ThreadInv'
<1>1. todo[t] \in Seq(Clients) /\ todo[t] # <<>>
  BY DEF ThreadInv, TypeOK, NetTypeOK, TodoInv
<1>2. /\ Tail(todo[t]) \in Seq(Clients)
      /\ Range(Tail(todo[t])) \subseteq Range(todo[t])
      /\ Len(todo[t]) = 1 <=> Tail(todo[t]) = <<>>
  BY <1>1, HeadTail
<1> USE InsAssumption DEF ThreadInv, SendDone, Goto, netVars, gpsVars
<1>3. pc[t] # "start" /\ pc[t] # "none" /\ pc[t] # "failed" /\ pc[t] # "started"
  BY DEF SendStates
<1>4. /\ pc'[t] \in {"idle", "write"}
      /\ pc'[t] = "write" => Tail(todo[t]) # <<>>
      /\ \A u \in Threads \ {t} : pc'[u] = pc[u] /\ todo'[u] = todo[u]
      /\ todo'[t] = Tail(todo[t])
  BY <1>2 DEF PcInv, TypeOK, NetTypeOK
<1>5. TypeOK'
  BY <1>2, <1>4 DEF TypeOK, NetTypeOK
<1>6. PcInv'
  BY <1>4 DEF PcInv, MainStates, ReportStates, SendStates
<1>7. TodoInv'
  BY <1>2, <1>4 DEF TodoInv, SendStates
<1>8. StartInv'
  BY <1>3, <1>4, SMT DEF StartInv
<1>9. CountInv'
  BY <1>4 DEF CountInv
<1> QED BY <1>5, <1>6, <1>7, <1>8, <1>9

(* A thread that goes on within the send of the same frame. *)
LEMMA SendingThreads ==
  ASSUME ThreadInv, NEW t \in Threads, pc[t] \in SendStates,
         NEW l \in SendStates, Goto(t, l), todo' = todo, NetTypeOK',
         \A c \in Clients : socket_fd'[c] = 0 <=> socket_fd[c] = 0,
         UNCHANGED <<imu, gpsVars>>
  PROVE  ThreadInv'
<1> USE InsAssumption DEF ThreadInv, Goto, gpsVars
<1>1. pc[t] # "start" /\ pc[t] # "none" /\ pc[t] # "failed" /\ pc[t] # "started"
  BY DEF SendStates
<1>2. pc'[t] = l /\ \A u \in Threads \ {t} : pc'[u] = pc[u]
  BY DEF PcInv
<1>3. TypeOK'
  BY <1>2 DEF TypeOK, SendStates
<1>4. PcInv'
  BY DEF PcInv, MainStates
<1>5. TodoInv'
  BY <1>2 DEF TodoInv
<1>6. l # "start" /\ l # "failed" /\ l # "started" /\ l # "none" /\ l # "copy_fix"
  BY DEF SendStates
<1>7. StartInv'
  BY <1>1, <1>2, <1>6 DEF StartInv
<1>8. CountInv'
  BY <1>2, <1>6 DEF CountInv
<1> QED BY <1>3, <1>4, <1>5, <1>7, <1>8

(* Starting a client in tcp_client_init. *)
LEMMA StartThreads ==
  ASSUME ThreadInv, NEW t \in Threads, StartClient(t), UNCHANGED <<imu, gpsVars>>
  PROVE  ThreadInv'
<1>1. t = "main" /\ pc["main"] = "start" /\ pc["report"] = "none"
  BY InsAssumption DEF ThreadInv, TypeOK, StartClient, At, StartInv
<1>2. todo["main"] \in Seq(Clients) /\ todo["main"] # <<>> /\ Distinct(todo["main"])
  BY <1>1, InsAssumption DEF ThreadInv, TypeOK, NetTypeOK, StartInv
<1> DEFINE c == Head(todo["main"])
           rest == Tail(todo["main"])
<1>3. /\ c \in Clients /\ rest \in Seq(Clients)
      /\ Range(todo["main"]) = {c} \cup Range(rest)
      /\ Len(todo["main"]) = 1 <=> rest = <<>>
  BY <1>2, HeadTail
<1>4. Distinct(rest) /\ c \notin Range(rest)
  BY <1>2, DistinctTail
<1>5. PICK f \in NewFds :
        /\ socket_fd' = [socket_fd EXCEPT ![c] = f]
        /\ conn' = [conn EXCEPT ![f] = "connected"]
        /\ server' = [server EXCEPT ![f] = c]
  BY <1>1 DEF StartClient
<1>6. f \in Fds /\ f # 0
  BY <1>5, FS_CardinalityType, ClientAssumption DEF NewFds, Free, Fds
<1>7. /\ todo' = [todo EXCEPT !["main"] = rest]
      /\ pc' = [pc EXCEPT !["main"] = IF rest = <<>> THEN "started" ELSE "start"]
      /\ up' = up
  BY <1>1, <1>3 DEF StartClient, Goto
<1> HIDE DEF c, rest
<1>8. /\ todo'["main"] = rest /\ todo'["report"] = todo["report"]
      /\ pc'["main"] = IF rest = <<>> THEN "started" ELSE "start"
      /\ pc'["report"] = "none"
  BY <1>1, <1>7, InsAssumption DEF ThreadInv, PcInv, TypeOK, NetTypeOK
<1>9. TypeOK'
  BY <1>3, <1>5, <1>6, <1>7, <1>8 DEF ThreadInv, TypeOK, NetTypeOK, gpsVars
<1>10. PcInv'
  BY <1>7 DEF ThreadInv, PcInv, MainStates
<1>11. TodoInv'
  BY <1>8, InsAssumption DEF TodoInv, SendStates
<1>12. StartInv'
  <2>1. \A d \in Clients : socket_fd'[d] = IF d = c THEN f ELSE socket_fd[d]
    BY <1>5 DEF ThreadInv, TypeOK, NetTypeOK
  <2>2. \A d \in Clients : socket_fd'[d] = 0 <=> d \in Range(rest)
    BY <2>1, <1>1, <1>3, <1>4, <1>6 DEF ThreadInv, StartInv
  <2>3. rest = <<>> => Range(rest) = {}
    BY DEF Range
  <2> QED BY <2>2, <2>3, <1>4, <1>8 DEF StartInv
<1>13. CountInv'
  BY <1>8 DEF CountInv
<1> QED BY <1>9, <1>10, <1>11, <1>12, <1>13 DEF ThreadInv

(* The end of the program. *)
LEMMA EndThreads ==
  ASSUME ThreadInv, NetEnds, UNCHANGED <<imu, gpsVars>>,
         pc' \in [Threads -> MainStates \cup ReportStates],
         pc'["main"] = "failed", pc'["report"] = "none"
  PROVE  ThreadInv'
<1> USE InsAssumption DEF ThreadInv, NetEnds, gpsVars
<1>1. todo' \in [Threads -> Seq(Clients)] /\ \A t \in Threads : todo'[t] = <<>>
  OBVIOUS
<1>2. NetTypeOK'
  BY <1>1 DEF TypeOK, NetTypeOK
<1>3. TypeOK'
  BY <1>2 DEF TypeOK
<1>4. PcInv' /\ TodoInv' /\ StartInv' /\ CountInv'
  BY DEF PcInv, TodoInv, StartInv, CountInv, SendStates
<1> QED BY <1>3, <1>4

(* One step of a thread in the client code. *)
LEMMA NetThreads ==
  ASSUME ThreadInv, NEW t \in Threads, ThreadSends(t)
  PROVE  ThreadInv'
<1>1. UNCHANGED <<imu, gpsVars>>
  BY DEF ThreadSends
<1>2. NetTypeOK
  BY DEF ThreadInv, TypeOK
<1>3. CASE StartClient(t)
  BY <1>1, <1>3, StartThreads
<1>4. CASE StartFails(t)
  <2>1. t = "main" /\ pc["report"] = "none"
    BY <1>4, InsAssumption DEF ThreadInv, TypeOK, StartFails, At, StartInv
  <2>2. /\ pc' \in [Threads -> MainStates \cup ReportStates]
        /\ pc'["main"] = "failed" /\ pc'["report"] = "none"
    BY <1>4, <2>1, InsAssumption DEF ThreadInv, PcInv, StartFails, Goto, MainStates
  <2> QED BY <1>1, <1>4, <2>2, EndThreads DEF StartFails
<1>5. CASE Write(t) \/ ConnectFails(t) \/ Rewrite(t)
  <2>1. pc[t] \in SendStates /\ SendDone(t) /\ UNCHANGED netVars
    BY <1>5 DEF Write, ConnectFails, Rewrite, At, SendStates
  <2> QED BY <1>1, <2>1, SendDoneThreads
<1>6. CASE WriteFails(t)
  <2>1. pc[t] \in SendStates /\ "close" \in SendStates /\ Goto(t, "close")
    BY <1>6 DEF WriteFails, At, SendStates
  <2>2. NetTypeOK' /\ todo' = todo /\ socket_fd' = socket_fd
    BY <1>2, <1>6 DEF WriteFails, NetTypeOK, netVars
  <2> QED BY <1>1, <2>1, <2>2, SendingThreads
<1> DEFINE c == Head(todo[t])
<1>7. pc[t] \in SendStates => c \in Clients /\ socket_fd[c] # 0 /\ socket_fd[c] \in Fds
  <2> SUFFICES ASSUME pc[t] \in SendStates
               PROVE  c \in Clients /\ socket_fd[c] # 0 /\ socket_fd[c] \in Fds
    OBVIOUS
  <2>1. todo[t] \in Seq(Clients) /\ todo[t] # <<>>
    BY <1>2 DEF NetTypeOK, ThreadInv, TodoInv
  <2>2. c \in Clients
    BY <2>1, HeadTail
  <2>3. pc["main"] \notin {"start", "failed"}
    BY InsAssumption DEF SendStates, ThreadInv, StartInv
  <2> QED BY <1>2, <2>2, <2>3 DEF ThreadInv, StartInv, NetTypeOK
<1>8. CASE Close(t)
  <2>1. pc[t] \in SendStates /\ "socket" \in SendStates /\ Goto(t, "socket")
    BY <1>8 DEF Close, At, SendStates
  <2>2. NetTypeOK' /\ todo' = todo /\ socket_fd' = socket_fd
    BY <1>2, <1>8, <1>7, <2>1 DEF Close, NetTypeOK, Fd
  <2> QED BY <1>1, <2>1, <2>2, SendingThreads
<1>9. CASE Socket(t)
  <2>1. pc[t] \in SendStates /\ "connect" \in SendStates /\ Goto(t, "connect")
    BY <1>9 DEF Socket, At, SendStates
  <2>2. PICK f \in NewFds : /\ socket_fd' = [socket_fd EXCEPT ![c] = f]
                            /\ conn' = [conn EXCEPT ![f] = "unconnected"]
    BY <1>9 DEF Socket
  <2>3. f \in Fds /\ f # 0
    BY FS_CardinalityType, ClientAssumption DEF NewFds, Free, Fds
  <2>4. NetTypeOK' /\ todo' = todo
    BY <1>2, <1>9, <2>2, <2>3 DEF Socket, NetTypeOK
  <2>5. \A d \in Clients : socket_fd'[d] = 0 <=> socket_fd[d] = 0
    BY <1>2, <1>7, <2>1, <2>2, <2>3 DEF NetTypeOK
  <2> QED BY <1>1, <2>1, <2>4, <2>5, SendingThreads
<1>10. CASE Connect(t)
  <2>1. pc[t] \in SendStates /\ "rewrite" \in SendStates /\ Goto(t, "rewrite")
    BY <1>10 DEF Connect, At, SendStates
  <2>2. NetTypeOK' /\ todo' = todo /\ socket_fd' = socket_fd
    BY <1>2, <1>10, <1>7, <2>1 DEF Connect, NetTypeOK, Fd
  <2> QED BY <1>1, <2>1, <2>2, SendingThreads
<1> QED BY <1>3, <1>4, <1>5, <1>6, <1>8, <1>9, <1>10 DEF ThreadSends, NetStep

(* A list of clients that a thread may send on. *)
LEMMA SendThreads ==
  ASSUME ThreadInv, NEW t \in Threads, NEW s, Send(t, s),
         s \in {ResultClients, LocationClients, NmeaClients}, Range(s) \subseteq Work(t),
         pc[t] \in {"solve", "idle"}, UNCHANGED <<netVars, imu, gpsVars>>
  PROVE  ThreadInv'
<1> USE InsAssumption DEF ThreadInv, Send, Goto, netVars, gpsVars
<1>1. s \in Seq(Clients) /\ s # <<>>
  OBVIOUS
<1>2. /\ pc'[t] = "write" /\ todo'[t] = s
      /\ \A u \in Threads \ {t} : pc'[u] = pc[u] /\ todo'[u] = todo[u]
  BY DEF PcInv, TypeOK, NetTypeOK
<1>3. NetTypeOK'
  BY <1>1 DEF TypeOK, NetTypeOK
<1>4. TypeOK'
  BY <1>2, <1>3 DEF TypeOK
<1>5. PcInv'
  BY DEF PcInv, MainStates, SendStates
<1>6. TodoInv'
  BY <1>1, <1>2 DEF TodoInv
<1>7. StartInv' /\ CountInv'
  BY <1>2 DEF StartInv, CountInv
<1> QED BY <1>4, <1>5, <1>6, <1>7

(* A step that sends nothing and leaves the clients alone. *)
LEMMA OtherThreads ==
  ASSUME ThreadInv, UNCHANGED <<socket_fd, todo>>, NetTypeOK', TypeOK',
         pc' \in [Threads -> MainStates \cup ReportStates],
         \A t \in Threads : pc'[t] \in SendStates => pc'[t] = pc[t],
         pc'["main"] \in {"start", "failed"} <=> pc["main"] \in {"start", "failed"},
         pc["main"] \in {"start", "failed"} => pc'["main"] = pc["main"],
         pc'["report"] # "none" => pc'["main"] \notin {"start", "failed", "started"},
         CountInv'
  PROVE  ThreadInv'
<1>1. PcInv' /\ TodoInv'
  BY DEF ThreadInv, PcInv, TodoInv
<1>2. StartInv'
  BY DEF ThreadInv, StartInv
<1> QED BY <1>1, <1>2 DEF ThreadInv

(* Every step of every thread keeps what the threads do.                   *)
LEMMA NextThreads ==
  ASSUME ThreadInv, [Next]_vars PROVE ThreadInv'
<1> USE InsAssumption
<1>0. TypeOK /\ NetTypeOK /\ PcInv
  BY DEF ThreadInv, TypeOK
<1>1. CASE InitFails
  <2>1. /\ pc' \in [Threads -> MainStates \cup ReportStates]
        /\ pc'["main"] = "failed" /\ pc'["report"] = "none"
    BY <1>0, <1>1 DEF InitFails, PcInv, MainStates, ReportStates
  <2> QED BY <1>1, <2>1, EndThreads DEF InitFails
<1>2. CASE InitGps \/ InitImu
  <2>1. pc' \in [Threads -> MainStates \cup ReportStates]
    BY <1>0, <1>2 DEF InitGps, InitImu, Goto, PcInv, MainStates, ReportStates
  <2>2. NetTypeOK' /\ TypeOK' /\ UNCHANGED <<socket_fd, todo>> /\ CountInv'
    BY <1>0, <1>2 DEF InitGps, InitImu, Goto, At, netVars, gpsVars, TypeOK, NetTypeOK,
                      PcInv, CountInv, ThreadInv
  <2> QED BY <1>0, <1>2, <2>1, <2>2, OtherThreads
          DEF InitGps, InitImu, Goto, At, PcInv, SendStates, ThreadInv, StartInv
<1>3. CASE InitMutexes \/ WaitForSample \/ SpuriousWake \/ TakeSample \/ GetGpsData
  <2>1. /\ pc["main"] \in {"with_imu", "idle", "asleep", "woken", "poll"}
        /\ \E l \in {"idle", "asleep", "woken", "poll", "solve"} : Goto("main", l)
        /\ UNCHANGED <<netVars, todo, gps_data>>
    BY <1>3 DEF InitMutexes, WaitForSample, SpuriousWake, TakeSample, GetGpsData, At, gpsVars
  <2>2. pc' \in [Threads -> MainStates \cup ReportStates]
    BY <1>0, <2>1 DEF Goto, PcInv, MainStates
  <2>3. gps_mutex' \in BOOLEAN /\ gps_flag' \in BOOLEAN /\ fix' \in 0 .. MaxFix
        /\ imu' \in {"none", "read", "signal"}
    BY <1>0, <1>3 DEF InitMutexes, WaitForSample, SpuriousWake, TakeSample, GetGpsData,
                      gpsVars, TypeOK
  <2>4. NetTypeOK' /\ TypeOK' /\ UNCHANGED <<socket_fd, todo>> /\ CountInv'
    BY <1>0, <2>1, <2>3 DEF Goto, netVars, TypeOK, NetTypeOK, PcInv, CountInv, ThreadInv
  <2> QED BY <1>0, <2>1, <2>2, <2>4, OtherThreads
          DEF Goto, PcInv, SendStates, ThreadInv, StartInv
<1>4. CASE Solve
  <2>1. CASE Send("main", ResultClients)
    <3>1. Range(ResultClients) \subseteq Work("main")
      BY DEF Work
    <3> QED BY <1>4, <2>1, <3>1, SendThreads DEF Solve, At
  <2>2. CASE Goto("main", "idle") /\ UNCHANGED todo
    <3>1. pc["main"] = "solve" /\ UNCHANGED <<netVars, imu, gpsVars>>
      BY <1>4 DEF Solve, At
    <3>2. pc' \in [Threads -> MainStates \cup ReportStates]
      BY <1>0, <2>2 DEF Goto, PcInv, MainStates
    <3>3. NetTypeOK' /\ TypeOK' /\ UNCHANGED <<socket_fd, todo>> /\ CountInv'
      BY <1>0, <2>2, <3>1 DEF Goto, netVars, gpsVars, TypeOK, NetTypeOK, PcInv, CountInv,
                              ThreadInv
    <3> QED BY <1>0, <2>2, <3>1, <3>2, <3>3, OtherThreads
            DEF Goto, PcInv, SendStates, ThreadInv, StartInv
  <2> QED BY <1>4, <2>1, <2>2 DEF Solve
<1>5. CASE StoreSample \/ SignalSample
  <2>1. /\ imu' \in {"read", "signal"} /\ UNCHANGED <<netVars, todo, gpsVars>>
        /\ pc' = pc \/ (Goto("main", "woken") /\ pc["main"] = "asleep")
    BY <1>0, <1>5 DEF StoreSample, SignalSample, Goto, PcInv
  <2>2. pc' \in [Threads -> MainStates \cup ReportStates]
    BY <1>0, <2>1 DEF Goto, PcInv, MainStates
  <2>3. NetTypeOK' /\ TypeOK' /\ UNCHANGED <<socket_fd, todo>> /\ CountInv'
    BY <1>0, <2>1 DEF Goto, netVars, gpsVars, TypeOK, NetTypeOK, PcInv, CountInv, ThreadInv
  <2> QED BY <1>0, <2>1, <2>2, <2>3, OtherThreads
          DEF Goto, PcInv, SendStates, ThreadInv, StartInv
<1>6. CASE SendReport
  <2>1. PICK s \in {LocationClients, NmeaClients} : Send("report", s)
    BY <1>6 DEF SendReport
  <2>2. Range(s) \subseteq Work("report")
    BY DEF Work
  <2> QED BY <1>6, <2>1, <2>2, SendThreads DEF SendReport, At
<1>7. CASE LockFix \/ CopyFix \/ FlagFix
  <2>1. /\ pc["report"] \in {"idle", "copy_fix", "flag_fix"}
        /\ \E l \in {"idle", "copy_fix", "flag_fix"} : Goto("report", l)
        /\ UNCHANGED <<netVars, todo, imu, fix>>
    BY <1>7 DEF LockFix, CopyFix, FlagFix, At
  <2>2. pc' \in [Threads -> MainStates \cup ReportStates]
    BY <1>0, <2>1 DEF Goto, PcInv, ReportStates
  <2>3. /\ gps_mutex' \in BOOLEAN /\ gps_flag' \in BOOLEAN /\ gps_data' \in 0 .. MaxFix
        /\ CountInv'
    <3>1. MaxFix \in Nat /\ gps_data \in 0 .. MaxFix
      BY <1>0 DEF TypeOK
    <3>2. CASE LockFix
      BY <1>0, <3>1, <3>2 DEF LockFix, Goto, TypeOK, PcInv, CountInv
    <3>3. CASE CopyFix
      <4>1. gps_data < MaxFix
        BY <3>3 DEF CopyFix, At, CountInv, ThreadInv
      <4>2. gps_data + 1 \in 0 .. MaxFix
        BY <3>1, <4>1
      <4> QED BY <1>0, <3>3, <4>2 DEF CopyFix, Goto, TypeOK, PcInv, CountInv
    <3>4. CASE FlagFix
      BY <1>0, <3>1, <3>4 DEF FlagFix, Goto, TypeOK, PcInv, CountInv
    <3> QED BY <1>7, <3>2, <3>3, <3>4
  <2>4. NetTypeOK' /\ TypeOK' /\ UNCHANGED <<socket_fd, todo>>
    BY <1>0, <2>1, <2>3 DEF Goto, netVars, TypeOK, NetTypeOK, PcInv
  <2> QED BY <1>0, <2>1, <2>2, <2>3, <2>4, OtherThreads
          DEF Goto, PcInv, SendStates, ThreadInv, StartInv
<1>8. CASE \E t \in Threads : ThreadSends(t)
  BY <1>8, NetThreads
<1>9. CASE Network
  <2>1. NetTypeOK' /\ UNCHANGED <<socket_fd, pc, todo, imu, gpsVars>>
    BY <1>0, <1>9 DEF Network, NetChange, ServerGoes, ServerComes, ConnectionBreaks, NetTypeOK
  <2>2. TypeOK' /\ CountInv'
    BY <1>0, <2>1 DEF TypeOK, gpsVars, CountInv, ThreadInv
  <2> QED BY <1>0, <2>1, <2>2, OtherThreads DEF PcInv, ThreadInv, StartInv
<1>10. CASE UNCHANGED vars
  <2>1. NetTypeOK' /\ UNCHANGED <<socket_fd, pc, todo, imu, gpsVars>>
    BY <1>0, <1>10 DEF vars, netVars, NetTypeOK
  <2>2. TypeOK' /\ CountInv'
    BY <1>0, <2>1 DEF TypeOK, gpsVars, CountInv, ThreadInv
  <2> QED BY <1>0, <2>1, <2>2, OtherThreads DEF PcInv, ThreadInv, StartInv
<1> QED BY <1>1, <1>2, <1>3, <1>4, <1>5, <1>6, <1>7, <1>8, <1>9, <1>10
        DEF Next, MainStep, ReportStep

-----------------------------------------------------------------------------
(* The descriptors                                                         *)

(* At first nothing is open.                                               *)
LEMMA InitDescriptors == Init => OwnServer /\ NoDescriptorLost
BY DEF Init, NetInit, OwnServer, NoDescriptorLost, Holders

(* No two threads send on one client. *)
LEMMA OneThreadPerClient ==
  ASSUME ThreadInv, NEW t \in Threads, NEW u \in Threads, t # u,
         pc[t] \in SendStates, pc[u] \in SendStates
  PROVE  Head(todo[t]) # Head(todo[u])
<1>1. todo[t] \in Seq(Clients) /\ todo[t] # <<>> /\ todo[u] \in Seq(Clients) /\ todo[u] # <<>>
  BY DEF ThreadInv, TypeOK, NetTypeOK, TodoInv
<1>2. Head(todo[t]) \in Range(todo[t]) /\ Head(todo[u]) \in Range(todo[u])
  BY <1>1, HeadTail
<1>3. Head(todo[t]) \in Work(t) /\ Head(todo[u]) \in Work(u)
  BY <1>2 DEF ThreadInv, TodoInv
<1> QED BY <1>3, InsAssumption DEF Work

(* The client of a thread that sends has an open descriptor of its own,    *)
(* unless it is closed and not opened again yet.                           *)
LEMMA SenderHolds ==
  ASSUME ThreadInv, NEW t \in Threads, pc[t] \in SendStates
  PROVE  /\ todo[t] # <<>> /\ Head(todo[t]) \in Clients /\ Sends(t, Head(todo[t]))
         /\ Fd(t) \in Fds
         /\ pc[t] = "socket" <=> Head(todo[t]) \notin Holders
<1>1. todo[t] \in Seq(Clients) /\ todo[t] # <<>>
  BY DEF ThreadInv, TypeOK, NetTypeOK, TodoInv
<1>2. Head(todo[t]) \in Clients
  BY <1>1, HeadTail
<1>3. pc["main"] \notin {"start", "failed"}
  BY InsAssumption DEF SendStates, ThreadInv, StartInv
<1>4. Fd(t) \in Fds /\ socket_fd[Head(todo[t])] # 0
  BY <1>2, <1>3 DEF ThreadInv, StartInv, TypeOK, NetTypeOK, Fd
<1>5. pc[t] = "socket" <=> Renewing(Head(todo[t]))
  BY <1>1, OneThreadPerClient DEF Renewing, Sends, At, SendStates
<1> QED BY <1>1, <1>2, <1>4, <1>5 DEF Holders, Sends

(* A step that opens and closes nothing and leaves every holder one. *)
LEMMA SameDescriptors ==
  ASSUME OwnServer, NoDescriptorLost, Holders' = Holders,
         UNCHANGED <<socket_fd, server>>,
         \A f \in Fds : (conn'[f] = "closed") <=> (conn[f] = "closed"),
         \A f \in Fds : conn'[f] \in {"connected", "broken"} =>
                            conn[f] \in {"connected", "broken"},
         \A c \in Holders : socket_fd[c] \in Fds
  PROVE  OwnServer' /\ NoDescriptorLost'
BY DEF OwnServer, NoDescriptorLost

(* A holder is a client, and what it holds is a descriptor.                *)
LEMMA HoldersFds ==
  ASSUME ThreadInv, NEW c \in Holders PROVE c \in Clients /\ socket_fd[c] \in Fds
BY DEF Holders, ThreadInv, TypeOK, NetTypeOK

(* The holders are the same while no thread goes to or from "socket". *)
LEMMA SameHolders ==
  ASSUME UNCHANGED socket_fd,
         \A t \in Threads : pc'[t] = "socket" <=> pc[t] = "socket",
         \A t \in Threads : pc[t] = "socket" => todo'[t] = todo[t]
  PROVE  Holders' = Holders
<1>1. \A c \in Clients : Renewing(c)' <=> Renewing(c)
  BY DEF Renewing, At, Sends
<1> QED BY <1>1 DEF Holders

(* A client that has no descriptor gets one that is free. *)
LEMMA NewDescriptor ==
  ASSUME ThreadInv, OwnServer, NoDescriptorLost,
         NEW c \in Clients, c \notin Holders, NEW f \in NewFds,
         Holders' = Holders \cup {c},
         socket_fd' = [socket_fd EXCEPT ![c] = f],
         \/ conn' = [conn EXCEPT ![f] = "unconnected"] /\ server' = server
         \/ conn' = [conn EXCEPT ![f] = "connected"] /\ server' = [server EXCEPT ![f] = c]
  PROVE  OwnServer' /\ NoDescriptorLost'
<1> USE DEF ThreadInv, TypeOK, NetTypeOK
<1>1. f \in Fds /\ conn[f] = "closed"
  BY DEF NewFds, Free
<1>2. \A d \in Holders : /\ d \in Clients /\ d # c /\ socket_fd[d] \in Fds
                          /\ socket_fd[d] # f /\ socket_fd'[d] = socket_fd[d]
  BY <1>1 DEF OwnServer, Holders
<1>3. /\ socket_fd'[c] = f /\ conn'[f] # "closed"
      /\ conn'[f] \in {"connected", "broken"} => server'[f] = c
      /\ \A g \in Fds \ {f} : conn'[g] = conn[g] /\ server'[g] = server[g]
  BY <1>1
<1>4. OwnServer'
  <2> SUFFICES ASSUME NEW d \in Holders \cup {c}
               PROVE  /\ conn'[socket_fd'[d]] # "closed"
                      /\ conn'[socket_fd'[d]] \in {"connected", "broken"} =>
                           server'[socket_fd'[d]] = d
                      /\ \A e \in (Holders \cup {c}) \ {d} : socket_fd'[e] # socket_fd'[d]
    BY DEF OwnServer
  <2>1. CASE d = c
    BY <2>1, <1>2, <1>3
  <2>2. CASE d \in Holders
    BY <2>2, <1>2, <1>3 DEF OwnServer
  <2> QED BY <2>1, <2>2
<1>5. NoDescriptorLost'
  BY <1>2, <1>3 DEF NoDescriptorLost
<1> QED BY <1>4, <1>5

(* The client of a thread that closes its descriptor has none. *)
LEMMA CloseDescriptor ==
  ASSUME ThreadInv, OwnServer, NoDescriptorLost, NEW t \in Threads, Close(t)
  PROVE  OwnServer' /\ NoDescriptorLost'
<1> DEFINE c == Head(todo[t])
<1>1. pc[t] = "close" /\ pc[t] \in SendStates
  BY DEF Close, At, SendStates
<1>2. c \in Holders /\ c \in Clients /\ Fd(t) \in Fds /\ Fd(t) = socket_fd[c] /\ todo[t] # <<>>
  BY <1>1, SenderHolds DEF Fd
<1>3. Holders' = Holders \ {c}
  <2>1. /\ socket_fd' = socket_fd /\ todo' = todo
        /\ pc'[t] = "socket" /\ \A u \in Threads \ {t} : pc'[u] = pc[u]
    BY DEF Close, Goto, ThreadInv, PcInv
  <2>2. \A d \in Clients : Renewing(d)' <=> Renewing(d) \/ d = c
    BY <1>1, <1>2, <2>1 DEF Renewing, At, Sends
  <2> QED BY <2>1, <2>2 DEF Holders
<1>4. \A d \in Holders \ {c} : socket_fd[d] \in Fds /\ socket_fd[d] # Fd(t)
  BY <1>2, HoldersFds DEF OwnServer
<1>5. /\ socket_fd' = socket_fd /\ conn'[Fd(t)] = "closed"
      /\ \A g \in Fds \ {Fd(t)} : conn'[g] = conn[g] /\ server'[g] = server[g]
  BY <1>2 DEF Close, ThreadInv, TypeOK, NetTypeOK
<1>6. OwnServer'
  BY <1>3, <1>4, <1>5 DEF OwnServer
<1>7. NoDescriptorLost'
  BY <1>2, <1>3, <1>5 DEF NoDescriptorLost
<1> QED BY <1>6, <1>7

(* socket() in a reconnection.                                             *)
LEMMA SocketDescriptor ==
  ASSUME ThreadInv, OwnServer, NoDescriptorLost, NEW t \in Threads, Socket(t)
  PROVE  OwnServer' /\ NoDescriptorLost'
<1> DEFINE c == Head(todo[t])
<1>1. pc[t] = "socket" /\ pc[t] \in SendStates
  BY DEF Socket, At, SendStates
<1>2. c \in Clients /\ c \notin Holders /\ todo[t] # <<>>
  BY <1>1, SenderHolds
<1>3. PICK f \in NewFds : /\ socket_fd' = [socket_fd EXCEPT ![c] = f]
                          /\ conn' = [conn EXCEPT ![f] = "unconnected"]
  BY DEF Socket
<1>4. f # 0
  BY FS_CardinalityType, ClientAssumption DEF NewFds, Free, Fds
<1>5. /\ todo' = todo /\ server' = server
      /\ pc'[t] = "connect" /\ \A u \in Threads \ {t} : pc'[u] = pc[u]
  BY DEF Socket, Goto, ThreadInv, PcInv
<1>6. \A d \in Clients : Renewing(d)' <=> Renewing(d) /\ d # c
  <2>1. ASSUME NEW u \in Threads, u # t, pc[u] = "socket" PROVE Head(todo[u]) # c
    BY <1>1, <2>1, OneThreadPerClient DEF SendStates
  <2> QED BY <1>1, <1>5, <2>1 DEF Renewing, At, Sends
<1>7. Holders' = Holders \cup {c}
  <2>1. \A d \in Clients : socket_fd'[d] = IF d = c THEN f ELSE socket_fd[d]
    BY <1>2, <1>3 DEF ThreadInv, TypeOK, NetTypeOK
  <2> QED BY <1>2, <1>4, <1>6, <2>1 DEF Holders
<1> QED BY <1>2, <1>3, <1>5, <1>7, NewDescriptor

(* socket() and connect() of the first start: no other thread runs.        *)
LEMMA StartDescriptor ==
  ASSUME ThreadInv, OwnServer, NoDescriptorLost, NEW t \in Threads, StartClient(t)
  PROVE  OwnServer' /\ NoDescriptorLost'
<1> DEFINE c == Head(todo[t])
<1>1. t = "main" /\ pc["main"] = "start" /\ pc["report"] = "none"
  BY InsAssumption DEF ThreadInv, TypeOK, StartClient, At, StartInv
<1>2. todo[t] \in Seq(Clients) /\ todo[t] # <<>>
  BY <1>1 DEF ThreadInv, TypeOK, NetTypeOK, StartInv
<1>3. c \in Clients /\ c \in Range(todo[t])
  BY <1>2, HeadTail
<1>4. c \notin Holders
  BY <1>1, <1>3 DEF ThreadInv, StartInv, Holders
<1>5. PICK f \in NewFds : /\ socket_fd' = [socket_fd EXCEPT ![c] = f]
                          /\ conn' = [conn EXCEPT ![f] = "connected"]
                          /\ server' = [server EXCEPT ![f] = c]
  BY DEF StartClient
<1>6. f # 0
  BY FS_CardinalityType, ClientAssumption DEF NewFds, Free, Fds
<1>7. \A d \in Clients : ~Renewing(d) /\ ~Renewing(d)'
  <2>1. pc'["main"] # "socket" /\ pc'["report"] = "none"
    BY <1>1, InsAssumption DEF StartClient, Goto, ThreadInv, PcInv
  <2> QED BY <1>1, <2>1, InsAssumption DEF Renewing, At
<1>8. Holders' = Holders \cup {c}
  <2>1. \A d \in Clients : socket_fd'[d] = IF d = c THEN f ELSE socket_fd[d]
    BY <1>3, <1>5 DEF ThreadInv, TypeOK, NetTypeOK
  <2> QED BY <1>3, <1>6, <1>7, <2>1 DEF Holders
<1> QED BY <1>3, <1>4, <1>5, <1>8, NewDescriptor

(* connect() changes the descriptor of its own client only.                *)
LEMMA ConnectDescriptor ==
  ASSUME ThreadInv, OwnServer, NoDescriptorLost, NEW t \in Threads, Connect(t)
  PROVE  OwnServer' /\ NoDescriptorLost'
<1> DEFINE c == Head(todo[t])
<1>1. pc[t] = "connect" /\ pc[t] \in SendStates
  BY DEF Connect, At, SendStates
<1>2. c \in Holders /\ c \in Clients /\ Fd(t) \in Fds /\ Fd(t) = socket_fd[c]
  BY <1>1, SenderHolds DEF Fd
<1>3. Holders' = Holders
  BY <1>1, SameHolders DEF Connect, Goto, ThreadInv, PcInv
<1>4. \A d \in Holders \ {c} : socket_fd[d] \in Fds /\ socket_fd[d] # Fd(t)
  BY <1>2, HoldersFds DEF OwnServer
<1>5. /\ socket_fd' = socket_fd /\ conn'[Fd(t)] = "connected" /\ server'[Fd(t)] = c
      /\ \A g \in Fds \ {Fd(t)} : conn'[g] = conn[g] /\ server'[g] = server[g]
  BY <1>2 DEF Connect, ThreadInv, TypeOK, NetTypeOK
<1>6. OwnServer'
  BY <1>2, <1>3, <1>4, <1>5 DEF OwnServer
<1>7. NoDescriptorLost'
  BY <1>2, <1>3, <1>5 DEF NoDescriptorLost
<1> QED BY <1>6, <1>7

(* A program that has ended holds and loses nothing.                       *)
LEMMA EndDescriptors ==
  ASSUME NetEnds PROVE OwnServer' /\ NoDescriptorLost'
BY DEF NetEnds, OwnServer, NoDescriptorLost, Holders

(* Every step keeps the descriptors with their clients.                    *)
LEMMA NextDescriptors ==
  ASSUME IInv, [Next]_vars PROVE OwnServer' /\ NoDescriptorLost'
<1>0. ThreadInv /\ OwnServer /\ NoDescriptorLost
  BY DEF IInv
<1>1. ASSUME NEW t \in Threads, ThreadSends(t) PROVE OwnServer' /\ NoDescriptorLost'
  <2>1. CASE StartClient(t) \/ Close(t) \/ Socket(t) \/ Connect(t)
    BY <1>0, <2>1, StartDescriptor, CloseDescriptor, SocketDescriptor, ConnectDescriptor
  <2>2. CASE StartFails(t)
    BY <2>2, EndDescriptors DEF StartFails
  <2>3. CASE Write(t) \/ WriteFails(t) \/ ConnectFails(t) \/ Rewrite(t)
    <3>1. /\ UNCHANGED netVars /\ pc[t] # "socket" /\ pc'[t] # "socket"
          /\ \A u \in Threads \ {t} : pc'[u] = pc[u] /\ todo'[u] = todo[u]
      BY <1>0, <2>3 DEF Write, WriteFails, ConnectFails, Rewrite, SendDone, At, Goto,
                        ThreadInv, PcInv, TypeOK, NetTypeOK
    <3>2. Holders' = Holders
      BY <3>1, SameHolders DEF netVars
    <3> QED BY <1>0, <3>1, <3>2, SameDescriptors, HoldersFds DEF netVars
  <2> QED BY <1>1, <2>1, <2>2, <2>3 DEF ThreadSends, NetStep
<1>2. CASE InitFails
  BY <1>2, EndDescriptors DEF InitFails
<1>3. CASE Network
  <2>1. /\ UNCHANGED <<socket_fd, server, pc, todo>>
        /\ \A f \in Fds : \/ conn'[f] = conn[f]
                          \/ conn[f] = "connected" /\ conn'[f] = "broken"
    BY <1>0, <1>3 DEF Network, NetChange, ServerGoes, ServerComes, ConnectionBreaks,
                      ThreadInv, TypeOK, NetTypeOK
  <2>2. Holders' = Holders
    BY <2>1, SameHolders
  <2> QED BY <1>0, <2>1, <2>2, SameDescriptors, HoldersFds
<1>4. ASSUME UNCHANGED netVars, NEW t \in Threads,
             pc[t] # "socket" /\ pc'[t] # "socket",
             \A u \in Threads \ {t} : pc'[u] = pc[u] /\ todo'[u] = todo[u]
      PROVE  OwnServer' /\ NoDescriptorLost'
  <2>1. Holders' = Holders
    BY <1>4, SameHolders DEF netVars
  <2> QED BY <1>0, <1>4, <2>1, SameDescriptors, HoldersFds DEF netVars
<1>5. CASE \/ InitGps \/ InitImu \/ InitMutexes
           \/ WaitForSample \/ SpuriousWake \/ TakeSample \/ GetGpsData \/ Solve
           \/ SendReport \/ LockFix \/ CopyFix \/ FlagFix
  <2>1. CASE InitGps
    <3>1. /\ UNCHANGED <<netVars, todo>>
          /\ \A t \in Threads : pc'[t] = "socket" <=> pc[t] = "socket"
      BY <1>0, <2>1, InsAssumption DEF InitGps, At, ThreadInv, PcInv, StartInv
    <3>2. Holders' = Holders
      BY <3>1, SameHolders DEF netVars
    <3> QED BY <1>0, <3>1, <3>2, SameDescriptors, HoldersFds DEF netVars
  <2>2. CASE \/ InitImu \/ InitMutexes
             \/ WaitForSample \/ SpuriousWake \/ TakeSample \/ GetGpsData \/ Solve
    <3>1. /\ UNCHANGED netVars /\ "main" \in Threads
          /\ pc["main"] # "socket" /\ pc'["main"] # "socket"
          /\ \A u \in Threads \ {"main"} : pc'[u] = pc[u] /\ todo'[u] = todo[u]
      BY <1>0, <2>2, InsAssumption
         DEF InitImu, InitMutexes, WaitForSample, SpuriousWake, TakeSample, GetGpsData,
             Solve, Send, At, Goto, ThreadInv, PcInv, TypeOK, NetTypeOK
    <3> QED BY <3>1, <1>4
  <2>3. CASE SendReport \/ LockFix \/ CopyFix \/ FlagFix
    <3>1. /\ UNCHANGED netVars /\ "report" \in Threads
          /\ pc["report"] # "socket" /\ pc'["report"] # "socket"
          /\ \A u \in Threads \ {"report"} : pc'[u] = pc[u] /\ todo'[u] = todo[u]
      BY <1>0, <2>3, InsAssumption
         DEF SendReport, LockFix, CopyFix, FlagFix, Send, At, Goto, ThreadInv, PcInv,
             TypeOK, NetTypeOK
    <3> QED BY <3>1, <1>4
  <2> QED BY <1>5, <2>1, <2>2, <2>3
<1>6. CASE StoreSample \/ SignalSample \/ UNCHANGED vars
  <2>1. /\ UNCHANGED <<netVars, todo>>
        /\ \A t \in Threads : pc'[t] = "socket" <=> pc[t] = "socket"
    BY <1>0, <1>6 DEF StoreSample, SignalSample, vars, ThreadInv, PcInv
  <2>2. Holders' = Holders
    BY <2>1, SameHolders DEF netVars
  <2> QED BY <1>0, <2>1, <2>2, SameDescriptors, HoldersFds DEF netVars
<1> QED BY <1>1, <1>2, <1>3, <1>5, <1>6 DEF Next, MainStep, ReportStep

-----------------------------------------------------------------------------
(* The fixes                                                               *)

(* At first there is no fix and nobody has the mutex.                      *)
LEMMA InitFixInv == Init => FixInv
BY InsAssumption DEF Init, FixInv, FlaggedFixIsNew

(* Every step keeps the mutex with the report thread storing a fix.        *)
LEMMA NextFixInv ==
  ASSUME ThreadInv, FixInv, ~EarlyFix, [Next]_vars PROVE FixInv'
<1> USE InsAssumption DEF FixInv, FlaggedFixIsNew
<1>0. /\ gps_data \in Nat /\ fix \in Nat /\ gps_mutex \in BOOLEAN /\ gps_flag \in BOOLEAN
      /\ imu \in {"none", "read", "signal"}
      /\ pc \in [Threads -> MainStates \cup ReportStates]
  BY DEF ThreadInv, TypeOK, PcInv
<1>1. ASSUME NEW t \in Threads, ThreadSends(t) PROVE FixInv'
  <2>1. UNCHANGED <<imu, gps_mutex, gps_data, gps_flag, fix>>
    BY <1>1 DEF ThreadSends, gpsVars
  <2>2. CASE StartClient(t) \/ StartFails(t)
    <3>1. t = "main" /\ pc["main"] = "start"
      BY <2>2 DEF ThreadInv, TypeOK, StartClient, StartFails, At
    <3>2. pc'["main"] \in {"start", "started", "failed"} /\ pc'["report"] = pc["report"]
      BY <1>0, <2>2, <3>1 DEF StartClient, StartFails, Goto
    <3> QED BY <1>0, <2>1, <3>1, <3>2
  <2>3. CASE ~(StartClient(t) \/ StartFails(t))
    <3>1. /\ pc[t] \in SendStates /\ pc'[t] \in SendStates \cup {"idle"}
          /\ \A u \in Threads \ {t} : pc'[u] = pc[u]
      BY <1>0, <1>1, <2>3
         DEF ThreadSends, NetStep, Write, WriteFails, Close, Socket, Connect, ConnectFails,
             Rewrite, SendDone, At, Goto, SendStates
    <3> QED BY <1>0, <2>1, <3>1 DEF SendStates
  <2> QED BY <2>2, <2>3
<1>2. CASE InitFails
  BY <1>0, <1>2 DEF InitFails, gpsVars
<1>3. CASE InitGps \/ InitImu
  BY <1>0, <1>3 DEF InitGps, InitImu, At, Goto, gpsVars, ThreadInv, StartInv
<1>4. CASE InitMutexes
  BY <1>0, <1>4 DEF InitMutexes, At, Goto
<1>5. CASE WaitForSample \/ SpuriousWake \/ TakeSample
  BY <1>0, <1>5 DEF WaitForSample, SpuriousWake, TakeSample, At, Goto, gpsVars
<1>6. CASE GetGpsData
  BY <1>0, <1>6 DEF GetGpsData, At, Goto
<1>7. CASE Solve
  BY <1>0, <1>7 DEF Solve, Send, At, Goto, gpsVars
<1>8. CASE StoreSample \/ SignalSample
  BY <1>0, <1>8 DEF StoreSample, SignalSample, gpsVars
<1>9. CASE SendReport
  BY <1>0, <1>9 DEF SendReport, Send, At, Goto, gpsVars
<1>10. CASE LockFix
  BY <1>0, <1>10 DEF LockFix, At, Goto
<1>11. CASE CopyFix
  BY <1>0, <1>11 DEF CopyFix, At, Goto
<1>12. CASE FlagFix
  BY <1>0, <1>12 DEF FlagFix, At, Goto
<1>13. CASE Network \/ UNCHANGED vars
  BY <1>0, <1>13 DEF Network, NetChange, ServerGoes, ServerComes, ConnectionBreaks, vars, gpsVars
<1> QED BY <1>1, <1>2, <1>3, <1>4, <1>5, <1>6, <1>7, <1>8, <1>9, <1>10, <1>11, <1>12, <1>13
        DEF Next, MainStep, ReportStep

-----------------------------------------------------------------------------
(* The inductive invariant holds in every state main, the imu thread, the  *)
(* report thread and the network can reach.                                *)
THEOREM Invariance == Spec => []IInv
<1>1. Init => IInv
  BY InitThreadInv, InitDescriptors DEF IInv
<1>2. IInv /\ [Next]_vars => IInv'
  BY NextThreads, NextDescriptors DEF IInv
<1> QED BY <1>1, <1>2, PTL DEF Spec

(* The variables of the program and its clients keep their types: no       *)
(* thread is ever at a step it has not, and no fix above the bound.        *)
THEOREM TypeCorrect == Spec => []TypeOK
<1>1. IInv => TypeOK
  BY DEF IInv, ThreadInv
<1> QED BY <1>1, Invariance, PTL

(* zy_tcpclient_send writes to the client's own server, whatever the other *)
(* thread closes and opens on its own clients meanwhile, for any number of *)
(* clients; nothing else in the process closes a descriptor here.          *)
THEOREM ClientsKeepTheirServers == Spec => []OwnServer
<1>1. IInv => OwnServer
  BY DEF IInv
<1> QED BY <1>1, Invariance, PTL

(* No descriptor is lost by failed writes and failed connections.          *)
THEOREM DescriptorsKept == Spec => []NoDescriptorLost
<1>1. IInv => NoDescriptorLost
  BY DEF IInv
<1> QED BY <1>1, Invariance, PTL

(* Where the driver reports no fix before gps_mutex is initialised, the    *)
(* filter gets no fix of mLogic.gps_data twice, for any number of fixes.   *)
THEOREM FixesAreNew == ASSUME ~EarlyFix PROVE Spec => []FlaggedFixIsNew
<1>1. Init => FixInv
  BY InitFixInv
<1>2. ThreadInv /\ FixInv /\ [Next]_vars => FixInv'
  BY NextFixInv
<1>3. IInv => ThreadInv
  BY DEF IInv
<1>4. FixInv => FlaggedFixIsNew
  BY DEF FixInv
<1> QED BY <1>1, <1>2, <1>3, <1>4, Invariance, PTL DEF Spec

=============================================================================
