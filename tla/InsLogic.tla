------------------------------ MODULE InsLogic ------------------------------
(***************************************************************************)
(* The navigation program (ins_logic_control). Three threads:              *)
(*                                                                         *)
(*   main    connects the TCP clients, starts the positioning driver and   *)
(*           the sensor, then runs ins_ekf, a library that calls back for  *)
(*           an inertial sample, for a satellite fix and with its result   *)
(*   imu     stores every sample of the sensor in mLogic.ins_data          *)
(*   report  the report thread of the driver: its callbacks send what they *)
(*           are given and store fixes in mLogic.gps_data                  *)
(*                                                                         *)
(* imu_mutex is held within single steps. gps_mutex is main's within a     *)
(* step, and report's over several, which main's trylock can meet.         *)
(***************************************************************************)
EXTENDS TcpClients

CONSTANTS
  StartOrder,       (* the clients in the order of tcp_client_init         *)
  LocationClients,  (* those location_callback sends on, in its order      *)
  NmeaClients,      (* those nmea_callback sends on                        *)
  ResultClients,    (* those get_result_data sends on, in its order        *)
  MaxFix,           (* bound on the fixes the driver reports               *)
  EarlyFix          (* whether one may come before gps_mutex is ready      *)

(* No client is used by two threads: it is what the calls in zy_gnss.c and *)
(* ins_main.c amount to, and nothing else protects a client. All of them   *)
(* are started, and each once, log_tcpclient too, on which nobody sends.   *)
ASSUME InsAssumption ==
  /\ Threads = {"main", "report"}
  /\ \A s \in {StartOrder, LocationClients, NmeaClients, ResultClients} :
        s \in Seq(Clients) /\ s # <<>>
  /\ \A i, j \in DOMAIN StartOrder : StartOrder[i] = StartOrder[j] => i = j
  /\ Range(StartOrder) = Clients
  /\ Range(ResultClients) \cap (Range(LocationClients) \cup Range(NmeaClients)) = {}
  /\ MaxFix \in Nat
  /\ EarlyFix \in BOOLEAN

VARIABLES
  imu,        (* where the imu thread is                                   *)
  gps_mutex,  (* whether gps_mutex is locked                               *)
  gps_data,   (* the number of the fix in mLogic.gps_data, 0 for none      *)
  gps_flag,   (* mLogic.gps_flag: the fix has not been used                *)
  fix         (* the last fix the filter got                               *)

gpsVars == <<gps_mutex, gps_data, gps_flag, fix>>
vars == <<netVars, pc, todo, imu, gpsVars>>

Init ==
  /\ NetInit
  /\ pc = [t \in Threads |-> IF t = "main" THEN "start" ELSE "none"]
  /\ todo = [t \in Threads |-> IF t = "main" THEN StartOrder ELSE <<>>]
  /\ imu = "none"
  /\ gps_mutex = FALSE
  /\ gps_data = 0
  /\ gps_flag = FALSE
  /\ fix = 0

Send(t, s) ==
  /\ todo' = [todo EXCEPT ![t] = s]
  /\ Goto(t, "write")

-----------------------------------------------------------------------------
(* main, up to ins_ekf. A step that fails ends the program, its threads    *)
(* and its connections with it.                                            *)

InitFails ==
  /\ pc["main"] \in {"started", "with_gps"}
  /\ pc' = [pc EXCEPT !["main"] = "failed", !["report"] = "none"]
  /\ NetEnds
  /\ UNCHANGED <<imu, gpsVars>>

(* gnss_init: the driver reports from here on. *)
InitGps ==
  /\ At("main", "started")
  /\ pc' = [pc EXCEPT !["main"] = "with_gps", !["report"] = "idle"]
  /\ UNCHANGED <<netVars, todo, imu, gpsVars>>

InitImu ==
  /\ At("main", "with_gps")
  /\ Goto("main", "with_imu")
  /\ UNCHANGED <<netVars, todo, imu, gpsVars>>

(* The mutexes are initialised, whatever state they are in, the imu thread *)
(* is created and the filter started.                                      *)
InitMutexes ==
  /\ At("main", "with_imu")
  /\ gps_mutex' = FALSE
  /\ imu' = "read"
  /\ Goto("main", "idle")
  /\ UNCHANGED <<netVars, todo, gps_data, gps_flag, fix>>

-----------------------------------------------------------------------------
(* main, in ins_ekf                                                        *)

(* get_ins_data waits without a test: only a sample that comes now counts. *)
WaitForSample ==
  /\ At("main", "idle")
  /\ Goto("main", "asleep")
  /\ UNCHANGED <<netVars, todo, imu, gpsVars>>

(* A return without a signal delivers the sample of before again. *)
SpuriousWake ==
  /\ At("main", "asleep")
  /\ Goto("main", "woken")
  /\ UNCHANGED <<netVars, todo, imu, gpsVars>>

TakeSample ==
  /\ At("main", "woken")
  /\ Goto("main", "poll")
  /\ UNCHANGED <<netVars, todo, imu, gpsVars>>

(* Mutation: the result of trylock is not looked at. *)
GetGpsDataUnlocked ==
  /\ At("main", "poll")
  /\ IF gps_flag
     THEN fix' = gps_data /\ gps_flag' = FALSE
     ELSE UNCHANGED <<fix, gps_flag>>
  /\ Goto("main", "solve")
  /\ UNCHANGED <<netVars, todo, imu, gps_mutex, gps_data>>

(* get_gps_data: a mutex that is taken means no fix this time. *)
GetGpsData ==
  /\ At("main", "poll")
  /\ IF gps_flag /\ ~gps_mutex
     THEN fix' = gps_data /\ gps_flag' = FALSE
     ELSE UNCHANGED <<fix, gps_flag>>
  /\ Goto("main", "solve")
  /\ UNCHANGED <<netVars, todo, imu, gps_mutex, gps_data>>

(* The filter has a result, which get_result_data sends, or none yet. *)
Solve ==
  /\ At("main", "solve")
  /\ \/ Send("main", ResultClients)
     \/ Goto("main", "idle") /\ UNCHANGED todo
  /\ UNCHANGED <<netVars, imu, gpsVars>>

MainStep == InitFails \/ InitGps \/ InitImu \/ InitMutexes
            \/ WaitForSample \/ TakeSample \/ GetGpsData \/ Solve

-----------------------------------------------------------------------------
(* imu_data_thread                                                         *)

(* A sample is read, after those of the calibration, and stored. *)
StoreSample ==
  /\ imu = "read"
  /\ imu' = "signal"
  /\ UNCHANGED <<netVars, pc, todo, gpsVars>>

(* The signal comes after the mutex is released. *)
SignalSample ==
  /\ imu = "signal"
  /\ imu' = "read"
  /\ pc' = [pc EXCEPT !["main"] = IF @ = "asleep" THEN "woken" ELSE @]
  /\ UNCHANGED <<netVars, todo, gpsVars>>

-----------------------------------------------------------------------------
(* The callbacks of the report thread                                      *)

(* location_callback sends the position twice, nmea_callback a sentence.   *)
SendReport ==
  /\ At("report", "idle")
  /\ \E s \in {LocationClients, NmeaClients} : Send("report", s)
  /\ UNCHANGED <<netVars, imu, gpsVars>>

(* sol_callback with a latitude that ins_gps_callback accepts.             *)
LockFix ==
  /\ At("report", "idle")
  /\ gps_data < MaxFix
  /\ EarlyFix \/ imu # "none"
  /\ ~gps_mutex
  /\ gps_mutex' = TRUE
  /\ Goto("report", "copy_fix")
  /\ UNCHANGED <<netVars, todo, imu, gps_data, gps_flag, fix>>

CopyFix ==
  /\ At("report", "copy_fix")
  /\ gps_data' = gps_data + 1
  /\ Goto("report", "flag_fix")
  /\ UNCHANGED <<netVars, todo, imu, gps_mutex, gps_flag, fix>>

(* Mutation: the mutex is not released. *)
FlagFixKeepsLock ==
  /\ At("report", "flag_fix")
  /\ gps_flag' = TRUE
  /\ Goto("report", "idle")
  /\ UNCHANGED <<netVars, todo, imu, gps_mutex, gps_data, fix>>

FlagFix ==
  /\ At("report", "flag_fix")
  /\ gps_flag' = TRUE
  /\ gps_mutex' = FALSE
  /\ Goto("report", "idle")
  /\ UNCHANGED <<netVars, todo, imu, gps_data, fix>>

ReportStep == CopyFix \/ FlagFix

-----------------------------------------------------------------------------
ThreadSends(t) == NetStep(t) /\ UNCHANGED <<imu, gpsVars>>
Network == NetChange /\ UNCHANGED <<imu, gpsVars>>

Next ==
  \/ MainStep \/ SpuriousWake
  \/ StoreSample \/ SignalSample
  \/ SendReport \/ LockFix \/ ReportStep
  \/ \E t \in Threads : ThreadSends(t)
  \/ Network

Spec == Init /\ [][Next]_vars

(* Threads are scheduled and their system calls return. The sensor, the    *)
(* receiver and the network owe nothing.                                   *)
FairSpec ==
  /\ Spec
  /\ WF_vars(MainStep)
  /\ WF_vars(SignalSample)
  /\ WF_vars(ReportStep)
  /\ \A t \in Threads : WF_vars(ThreadSends(t))

-----------------------------------------------------------------------------
TypeOK ==
  /\ NetTypeOK
  /\ pc["main"] \in {"start", "failed", "started", "with_gps", "with_imu", "idle",
                     "asleep", "woken", "poll", "solve",
                     "write", "close", "socket", "connect", "rewrite"}
  /\ pc["report"] \in {"none", "idle", "copy_fix", "flag_fix",
                       "write", "close", "socket", "connect", "rewrite"}
  /\ imu \in {"none", "read", "signal"}
  /\ gps_mutex \in BOOLEAN
  /\ gps_data \in 0 .. MaxFix
  /\ gps_flag \in BOOLEAN
  /\ fix \in 0 .. MaxFix

(* The filter gets no fix twice: what is flagged is newer than what it got *)
(* last, although fixes overwrite each other while it is busy.             *)
FlaggedFixIsNew == gps_flag => gps_data > fix

(* The filter gets the last fix reported although it never waits for one   *)
(* and passes when the mutex is taken, as long as samples keep coming.     *)
FixUsed == ([]<>(imu = "signal")) => (gps_flag ~> ~gps_flag)

(* A client that loses its server reaches it again: from when the server   *)
(* stays up, frames of a client that keeps sending are delivered again.    *)
Sending(c) == \E t \in Threads : At(t, "write") /\ Sends(t, c)
Delivers(c) == \E t \in Threads :
  /\ pc[t] \in {"write", "rewrite"} /\ Sends(t, c)
  /\ conn[Fd(t)] = "connected"
  /\ Write(t) \/ Rewrite(t)
Reconnects ==
  \A c \in Clients :
    (<>[](c \in up) /\ []<>Sending(c)) => []<><<Delivers(c)>>_vars

=============================================================================
