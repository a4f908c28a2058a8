----------------------------- MODULE LocHandle -----------------------------
(***************************************************************************)
(* The middle layer of the positioning driver                              *)
(* (iwise_gps_loc_hal/iwise_loc_handle_layer2): the calls init, start,     *)
(* stop and destroy of iwise_loc_handle.c, made by one application thread, *)
(* and the three threads they control.                                     *)
(*                                                                         *)
(*   hardware  reads the serial port and posts observations and ephemerides*)
(*   xihe      receives clock and orbit corrections from a server          *)
(*   pos       computes a position from the latest of all three            *)
(*                                                                         *)
(* They share context: status under status_mutex, which is only held for   *)
(* single steps, and the data area under data_mutex, whose holder is a     *)
(* variable. The correction is a pair: copying one into the data area      *)
(* without the mutex writes its halves in two steps.                       *)
(***************************************************************************)
EXTENDS Naturals, FiniteSets

CONSTANTS
  MaxCalls,  (* bound on the calls the application makes                   *)
  MaxObs,    (* bound on the observations the receiver sends               *)
  MaxCorr,   (* bound on the corrections the server sends                  *)
  Oversize   (* whether the server sends messages over PACKAGE_SIZE bytes  *)

ASSUME LocAssumption ==
  /\ MaxCalls \in Nat /\ MaxObs \in Nat /\ MaxCorr \in Nat
  /\ Oversize \in BOOLEAN

VARIABLES
  status,       (* context->status, "NULL" when there is no context        *)
  apc,          (* where the application's call is                         *)
  calls,        (* the number of calls made                                *)
  pc,           (* pc[w]: where thread w is                                *)
  data_mutex,   (* the thread that holds data_mutex, or "nobody"           *)
  obs,          (* gnss_obs: the number of the observation, 0 for none     *)
  obs_flag,     (* an observation has not been used yet                    *)
  nav_flag,     (* an ephemeris has been received                          *)
  clockorbit,   (* clockorbit: the numbers of its two halves, 0 if cleared *)
  received,     (* the corrections received so far                         *)
  solved,       (* the observation of the last position                    *)
  stolen        (* data_mutex was released under its holder: a history     *)
                (* variable, which no thread reads                         *)

callVars == <<status, apc, calls>>
dataVars == <<obs, obs_flag, nav_flag, clockorbit>>
solvedVars == <<solved, stolen>>
vars == <<callVars, pc, data_mutex, dataVars, received, solvedVars>>

Workers == {"hardware", "xihe", "pos"}

Goto(w, l) == pc' = [pc EXCEPT ![w] = l]
At(w, l)   == pc[w] = l

(* pthread_cond_broadcast on status_cond *)
WakeAll == pc' = [w \in Workers |-> IF pc[w] = "asleep" THEN "woken" ELSE pc[w]]

Init ==
  /\ status = "NULL"
  /\ apc = "idle"
  /\ calls = 0
  /\ pc = [w \in Workers |-> "none"]
  /\ data_mutex = "nobody"
  /\ obs = 0
  /\ obs_flag = FALSE
  /\ nav_flag = FALSE
  /\ clockorbit = <<0, 0>>
  /\ received = 0
  /\ solved = 0
  /\ stolen = FALSE

-----------------------------------------------------------------------------
(* The application's calls.                                                *)

Call == apc = "idle" /\ calls < MaxCalls /\ calls' = calls + 1

(* A zeroed context, and a thread for each module; that of the NTRIP       *)
(* module, which uses nothing of the context, is left out, and so is the   *)
(* case that a mutex or a condition cannot be made.                        *)
LocInit ==
  /\ Call
  /\ status = "NULL"
  /\ status' = "INIT"
  /\ pc' = [w \in Workers |-> IF w = "pos" THEN "setup" ELSE "enter"]
  /\ data_mutex' = "nobody"
  /\ obs' = 0
  /\ obs_flag' = FALSE
  /\ nav_flag' = FALSE
  /\ clockorbit' = <<0, 0>>
  /\ solved' = 0
  /\ stolen' = FALSE
  /\ UNCHANGED <<apc, received>>

LocStart ==
  /\ Call
  /\ status # "NULL"
  /\ status' = "START"
  /\ WakeAll
  /\ UNCHANGED <<apc, data_mutex, dataVars, received, solvedVars>>

(* Nobody is woken: the threads that run look at status, the others sleep. *)
LocStop ==
  /\ Call
  /\ status # "NULL"
  /\ status' = "STOP"
  /\ UNCHANGED <<apc, pc, data_mutex, dataVars, received, solvedVars>>

LocDestroy ==
  /\ Call
  /\ status # "NULL"
  /\ status' = "DESTROY"
  /\ WakeAll
  /\ apc' = "join_hardware"
  /\ UNCHANGED <<data_mutex, dataVars, received, solvedVars>>

JoinHardware ==
  /\ apc = "join_hardware"
  /\ At("hardware", "exited")
  /\ apc' = "join_xihe"
  /\ UNCHANGED <<status, calls, pc, data_mutex, dataVars, received, solvedVars>>

JoinXihe ==
  /\ apc = "join_xihe"
  /\ At("xihe", "exited")
  /\ apc' = "join_pos"
  /\ UNCHANGED <<status, calls, pc, data_mutex, dataVars, received, solvedVars>>

(* Mutation: the context is freed without waiting for pos. *)
JoinPosNot ==
  /\ apc = "join_pos"
  /\ apc' = "idle"
  /\ status' = "NULL"
  /\ UNCHANGED <<calls, pc, data_mutex, dataVars, received, solvedVars>>

(* The last thread is joined and the context freed. *)
JoinPos ==
  /\ apc = "join_pos"
  /\ At("pos", "exited")
  /\ apc' = "idle"
  /\ status' = "NULL"
  /\ UNCHANGED <<calls, pc, data_mutex, dataVars, received, solvedVars>>

-----------------------------------------------------------------------------
(* Waiting for the start, the same loop in the three threads.              *)

(* The label parse_wait, network_wait or resolve_wait: lock, test, sleep.  *)
WaitEnter(w) ==
  /\ At(w, "enter")
  /\ Goto(w, IF status = "START" THEN "begin" ELSE "asleep")
  /\ UNCHANGED <<callVars, data_mutex, dataVars, received, solvedVars>>

SpuriousWake(w) ==
  /\ At(w, "asleep")
  /\ Goto(w, "woken")
  /\ UNCHANGED <<callVars, data_mutex, dataVars, received, solvedVars>>

(* What a woken thread does once it has status_mutex again. When it sees   *)
(* STOP, pos unlocks data_mutex, which it does not hold: the behaviour is  *)
(* undefined, and what happens is that nothing changes or that the mutex   *)
(* is released under its holder.                                           *)
WaitResume(w) ==
  /\ At(w, "woken")
  /\ Goto(w, CASE status = "START"   -> "begin"
               [] status = "DESTROY" -> "exited"
               [] status = "STOP" /\ w # "pos" -> "enter"
               [] OTHER -> "asleep")
  /\ IF status = "STOP" /\ w = "pos"
     THEN data_mutex' \in {data_mutex, "nobody"}
     ELSE UNCHANGED data_mutex
  /\ stolen' = (stolen \/ data_mutex' # data_mutex)
  /\ UNCHANGED <<callVars, dataVars, received, solved>>

(* Where a running thread goes when it looks at status: on, or out. *)
Checked(on) ==
  CASE status = "STOP" -> "enter" [] status = "DESTROY" -> "exited" [] OTHER -> on

-----------------------------------------------------------------------------
(* hardware_handle                                                         *)

HwOpen ==
  /\ At("hardware", "begin")
  /\ \E l \in {"select", "exited"} : Goto("hardware", l)
  /\ UNCHANGED <<callVars, data_mutex, dataVars, received, solvedVars>>

(* Mutation: only DESTROY is looked at. *)
HwSelectBlind ==
  /\ At("hardware", "select")
  /\ \E on \in {"select", "read"} :
       Goto("hardware", IF status = "DESTROY" THEN "exited" ELSE on)
  /\ UNCHANGED <<callVars, data_mutex, dataVars, received, solvedVars>>

(* select returns within a second, then status is looked at. *)
HwSelect ==
  /\ At("hardware", "select")
  /\ \E on \in {"select", "read"} : Goto("hardware", Checked(on))
  /\ UNCHANGED <<callVars, data_mutex, dataVars, received, solvedVars>>

(* Nothing, a chunk to parse, or an error, which ends the thread. *)
HwRead ==
  /\ At("hardware", "read")
  /\ \E l \in {"select", "parse", "exited"} : Goto("hardware", l)
  /\ UNCHANGED <<callVars, data_mutex, dataVars, received, solvedVars>>

(* A chunk holds any number of messages; NMEA ones go to the layer above.  *)
(* The code posts each ephemeris; here only the first is a step of its     *)
(* own, since a further one changes none of the data that is modelled and  *)
(* takes data_mutex as an observation does.                                *)
HwParse ==
  /\ At("hardware", "parse")
  /\ \/ Goto("hardware", "select")
     \/ obs < MaxObs /\ Goto("hardware", "obs")
     \/ ~nav_flag /\ Goto("hardware", "nav")
  /\ UNCHANGED <<callVars, data_mutex, dataVars, received, solvedVars>>

HwLock ==
  /\ pc["hardware"] \in {"obs", "nav"}
  /\ data_mutex = "nobody"
  /\ data_mutex' = "hardware"
  /\ Goto("hardware", IF At("hardware", "obs") THEN "obs_copy" ELSE "nav_copy")
  /\ UNCHANGED <<callVars, dataVars, received, solvedVars>>

(* The observation is copied to the data area, *)
HwCopyObs ==
  /\ At("hardware", "obs_copy")
  /\ obs' = obs + 1
  /\ Goto("hardware", "obs_mark")
  /\ UNCHANGED <<callVars, data_mutex, obs_flag, nav_flag, clockorbit, received, solvedVars>>

(* Mutation: data_mutex is not released. *)
HwPostObsKeepsLock ==
  /\ At("hardware", "obs_mark")
  /\ obs_flag' = TRUE
  /\ Goto("hardware", "signal")
  /\ UNCHANGED <<callVars, data_mutex, obs, nav_flag, clockorbit, received, solvedVars>>

(* ... and then marked as new. *)
HwPostObs ==
  /\ At("hardware", "obs_mark")
  /\ obs_flag' = TRUE
  /\ data_mutex' = "nobody"
  /\ Goto("hardware", "signal")
  /\ UNCHANGED <<callVars, obs, nav_flag, clockorbit, received, solvedVars>>

(* Mutation: the parser does not move on, and the message is posted again. *)
HwSignalRepeats ==
  /\ At("hardware", "signal")
  /\ pc' = [pc EXCEPT !["hardware"] = "obs",
                      !["pos"] = IF @ = "timedwait" THEN "signalled" ELSE @]
  /\ UNCHANGED <<callVars, data_mutex, dataVars, received, solvedVars>>

(* resolve_cond is signalled after data_mutex is released. *)
HwSignal ==
  /\ At("hardware", "signal")
  /\ pc' = [pc EXCEPT !["hardware"] = "parse",
                      !["pos"] = IF @ = "timedwait" THEN "signalled" ELSE @]
  /\ UNCHANGED <<callVars, data_mutex, dataVars, received, solvedVars>>

HwPostNav ==
  /\ At("hardware", "nav_copy")
  /\ nav_flag' = TRUE
  /\ data_mutex' = "nobody"
  /\ Goto("hardware", "parse")
  /\ UNCHANGED <<callVars, obs, obs_flag, clockorbit, received, solvedVars>>

HwStep == HwOpen \/ HwSelect \/ HwRead \/ HwParse \/ HwLock \/ HwCopyObs
          \/ HwPostObs \/ HwSignal \/ HwPostNav

-----------------------------------------------------------------------------
(* xihe_handle                                                             *)

XiheConnect ==
  /\ At("xihe", "begin")
  /\ \E l \in {"recv", "retry"} : Goto("xihe", l)
  /\ UNCHANGED <<callVars, data_mutex, dataVars, received, solvedVars>>

(* Mutation: status is not looked at between two attempts to connect. *)
XiheRetryBlind ==
  /\ At("xihe", "retry")
  /\ Goto("xihe", "begin")
  /\ UNCHANGED <<callVars, data_mutex, dataVars, received, solvedVars>>

XiheRetry ==
  /\ At("xihe", "retry")
  /\ Goto("xihe", Checked("begin"))
  /\ UNCHANGED <<callVars, data_mutex, dataVars, received, solvedVars>>

(* recv returns within two seconds; then status is looked at, and the      *)
(* server's address: go on, reconnect, or parse what came.                 *)
XiheRecv ==
  /\ At("xihe", "recv")
  /\ \E on \in {"recv", "begin", "parse"} : Goto("xihe", Checked(on))
  /\ UNCHANGED <<callVars, data_mutex, dataVars, received, solvedVars>>

(* The parse loop, before and after a message of the chunk was parsed       *)
(* (parse_result, which the last message of the chunk decides).             *)
Parsing == pc["xihe"] \in {"parse", "parsed"}

(* A message was parsed, and is copied to the data area without the mutex. *)
XiheParsed ==
  /\ Parsing
  /\ received < MaxCorr
  /\ received' = received + 1
  /\ clockorbit' = [clockorbit EXCEPT ![1] = received + 1]
  /\ Goto("xihe", "half")
  /\ UNCHANGED <<callVars, data_mutex, obs, obs_flag, nav_flag, solvedVars>>

XiheCopied ==
  /\ At("xihe", "half")
  /\ clockorbit' = [clockorbit EXCEPT ![2] = received]
  /\ Goto("xihe", "parsed")
  /\ UNCHANGED <<callVars, data_mutex, obs, obs_flag, nav_flag, received, solvedVars>>

(* data_mutex is taken to publish a correction or to clear it. *)
XiheLock ==
  /\ pc["xihe"] \in {"publish", "bad"}
  /\ data_mutex = "nobody"
  /\ data_mutex' = "xihe"
  /\ Goto("xihe", IF At("xihe", "bad") THEN "clear" ELSE "copy")
  /\ UNCHANGED <<callVars, dataVars, received, solvedVars>>

(* The last message was parsed: it is copied again, and cleared when its   *)
(* epoch has been the same sixty times.                                    *)
XihePublish ==
  /\ At("xihe", "copy")
  /\ clockorbit' \in {<<received, received>>, <<0, 0>>}
  /\ data_mutex' = "nobody"
  /\ Goto("xihe", "recv")
  /\ UNCHANGED <<callVars, obs, obs_flag, nav_flag, received, solvedVars>>

(* Anything but GCOBR_OK: the message is not a correction, or it is one    *)
(* that another message completes. What was parsed of it is stored; after  *)
(* more than three the thread reconnects in place, whatever status is.     *)
XiheBadMessage ==
  /\ Parsing
  /\ Goto("xihe", "bad")
  /\ UNCHANGED <<callVars, data_mutex, dataVars, received, solvedVars>>

XiheStoreBad ==
  /\ At("xihe", "clear")
  /\ \/ clockorbit' = <<0, 0>> /\ UNCHANGED received
     \/ /\ received < MaxCorr
        /\ received' = received + 1
        /\ clockorbit' = <<received + 1, received + 1>>
  /\ data_mutex' = "nobody"
  /\ \E l \in {"parse", "recv"} : Goto("xihe", l)
  /\ UNCHANGED <<callVars, obs, obs_flag, nav_flag, solvedVars>>

(* No whole message is left. *)
XiheChunkEnds ==
  /\ Parsing
  /\ Goto("xihe", IF At("xihe", "parsed") THEN "publish" ELSE "recv")
  /\ UNCHANGED <<callVars, data_mutex, dataVars, received, solvedVars>>

(* A length over PACKAGE_SIZE: the loop tests the same bytes for ever.      *)
XiheOversize ==
  /\ Oversize
  /\ Parsing
  /\ Goto("xihe", "spin")
  /\ UNCHANGED <<callVars, data_mutex, dataVars, received, solvedVars>>

XiheStep == XiheConnect \/ XiheRetry \/ XiheRecv \/ XiheParsed \/ XiheCopied
            \/ XiheLock \/ XihePublish \/ XiheBadMessage
            \/ XiheStoreBad \/ XiheChunkEnds \/ XiheOversize

-----------------------------------------------------------------------------
(* pos_handle                                                              *)

(* The solver's configuration is read, or the thread ends. *)
PosSetup ==
  /\ At("pos", "setup")
  /\ \E l \in {"enter", "exited"} : Goto("pos", l)
  /\ UNCHANGED <<callVars, data_mutex, dataVars, received, solvedVars>>

PosLock ==
  /\ At("pos", "begin")
  /\ data_mutex = "nobody"
  /\ data_mutex' = "pos"
  /\ Goto("pos", "test")
  /\ UNCHANGED <<callVars, dataVars, received, solvedVars>>

PosWait ==
  /\ At("pos", "test")
  /\ ~(obs_flag /\ nav_flag)
  /\ data_mutex' = "nobody"
  /\ Goto("pos", "timedwait")
  /\ UNCHANGED <<callVars, dataVars, received, solvedVars>>

(* Two seconds passed, or a return without a signal. *)
PosTimeout ==
  /\ At("pos", "timedwait")
  /\ \E l \in {"timedout", "signalled"} : Goto("pos", l)
  /\ UNCHANGED <<callVars, data_mutex, dataVars, received, solvedVars>>

(* With data_mutex again, status is looked at without status_mutex.        *)
PosResume ==
  /\ pc["pos"] \in {"timedout", "signalled"}
  /\ data_mutex = "nobody"
  /\ LET l == Checked(IF At("pos", "signalled") THEN "test" ELSE "begin")
     IN  /\ Goto("pos", l)
         /\ data_mutex' = IF l = "test" THEN "pos" ELSE "nobody"
  /\ UNCHANGED <<callVars, dataVars, received, solvedVars>>

(* The three inputs are copied, *)
PosCopy ==
  /\ At("pos", "test")
  /\ obs_flag /\ nav_flag
  /\ solved' = obs
  /\ Goto("pos", "mark")
  /\ UNCHANGED <<callVars, data_mutex, dataVars, received, stolen>>

(* Mutation: the observation is not marked used. *)
PosMarkNot ==
  /\ At("pos", "mark")
  /\ data_mutex' = "nobody"
  /\ Goto("pos", "solve")
  /\ UNCHANGED <<callVars, dataVars, received, solvedVars>>

(* ... and the observation is marked used. *)
PosMark ==
  /\ At("pos", "mark")
  /\ obs_flag' = FALSE
  /\ data_mutex' = "nobody"
  /\ Goto("pos", "solve")
  /\ UNCHANGED <<callVars, obs, nav_flag, clockorbit, received, solvedVars>>

(* The position is computed and reported to the layer above. *)
PosSolve ==
  /\ At("pos", "solve")
  /\ Goto("pos", "begin")
  /\ UNCHANGED <<callVars, data_mutex, dataVars, received, solvedVars>>

PosStep == PosSetup \/ PosLock \/ PosWait \/ PosTimeout \/ PosResume \/ PosCopy
           \/ PosMark \/ PosSolve

-----------------------------------------------------------------------------
AppStep == JoinHardware \/ JoinXihe \/ JoinPos
AppCall == LocInit \/ LocStart \/ LocStop \/ LocDestroy
WaitStep(w) == WaitEnter(w) \/ WaitResume(w)

Next ==
  \/ AppCall
  \/ AppStep
  \/ \E w \in Workers : WaitStep(w) \/ SpuriousWake(w)
  \/ HwStep
  \/ XiheStep
  \/ PosStep

Spec == Init /\ [][Next]_vars

(* Threads are scheduled, mutexes are granted, and the calls they make     *)
(* return: select within a second, recv and connect within two, the timed  *)
(* wait within two. A chunk holds finitely many messages, so parsing ends. *)
(* The application need not call anything, and no thread need wake without *)
(* a signal.                                                               *)
FairSpec ==
  /\ Spec
  /\ WF_vars(AppStep)
  /\ \A w \in Workers : WF_vars(WaitStep(w))
  /\ WF_vars(HwStep)
  /\ SF_vars(HwLock)
  /\ WF_vars(XiheStep)
  /\ SF_vars(XiheChunkEnds)
  /\ SF_vars(XiheLock)
  /\ WF_vars(PosStep)
  /\ SF_vars(PosLock)
  /\ SF_vars(PosResume)

-----------------------------------------------------------------------------
TypeOK ==
  /\ status \in {"NULL", "INIT", "START", "STOP", "DESTROY"}
  /\ apc \in {"idle", "join_hardware", "join_xihe", "join_pos"}
  /\ calls \in 0 .. MaxCalls
  /\ pc \in [Workers -> {"none", "enter", "asleep", "woken", "begin", "exited",
                         "select", "read", "parse", "obs", "nav", "obs_copy",
                         "obs_mark", "nav_copy", "signal", "recv", "retry", "half",
                         "parsed", "publish", "bad", "copy", "clear", "spin",
                         "setup", "test", "mark", "timedwait", "timedout", "signalled",
                         "solve"}]
  /\ data_mutex \in Workers \cup {"nobody"}
  /\ obs \in 0 .. MaxObs
  /\ obs_flag \in BOOLEAN
  /\ nav_flag \in BOOLEAN
  /\ clockorbit \in (0 .. MaxCorr) \X (0 .. MaxCorr)
  /\ received \in 0 .. MaxCorr
  /\ solved \in 0 .. MaxObs
  /\ stolen \in BOOLEAN

(* The correction a position is computed from is one message of the        *)
(* server, or none: never halves of two, when pos is about to copy its     *)
(* inputs (the comment on data_mutex, iwise_loc_handle.h:48, promises its  *)
(* holder the data area for itself).                                       *)
CorrectionWhole ==
  (At("pos", "test") /\ obs_flag /\ nav_flag) => clockorbit[1] = clockorbit[2]

(* No thread runs on a context that has been freed: destroy frees it after *)
(* every thread that init started has ended.                               *)
NoThreadOnFreedContext ==
  status = "NULL" => \A w \in Workers : pc[w] \in {"none", "exited"}

(* No observation is used for two positions: whenever data_mutex is free   *)
(* and the flag says that there is one to use, it is newer than the one    *)
(* used last, although the mailbox holds one observation, the receiver     *)
(* overwrites it, and the flag is set and reset after the copies. Where    *)
(* the mutex was released under its holder this is not promised.           *)
FlaggedIsUnused == obs_flag /\ data_mutex = "nobody" /\ ~stolen => obs > solved

(* destroy comes back (iwise_loc_handle.c:119-125: it destroys the driver  *)
(* and frees its memory).                                                  *)
DestroyReturns == apc = "join_hardware" ~> apc = "idle"

(* destroy comes back when the broadcast it makes finds every thread        *)
(* asleep in its wait, which wakes it, or past that wait: when none is     *)
(* about to enter the wait, or still starting, and xihe does not spin over *)
(* a message that is too long.                                             *)
Settled == \A w \in Workers : pc[w] \notin {"enter", "asleep", "setup"}
Spinning == At("xihe", "spin")
DestroyReturnsIfSettled ==
  (apc = "join_hardware" /\ status = "DESTROY" /\ Settled)
     ~> (apc = "idle" \/ Spinning)

(* A stop takes effect although it wakes nobody: unless the application    *)
(* changes its mind, every thread gets to its wait or ends, even one that  *)
(* never finds the observation mailbox empty while data keeps coming. Only *)
(* xihe, when it spins, never gets there.                                  *)
AtRest == \A w \in Workers : pc[w] \in {"enter", "asleep", "woken", "exited", "spin"}
StopTakesEffect == status = "STOP" ~> (AtRest \/ status # "STOP")

(* An observation posted while the driver runs and an ephemeris is there   *)
(* is used, although the signal may come before pos waits for it.          *)
ObservationUsed ==
  (obs_flag /\ nav_flag /\ status = "START")
     ~> (~obs_flag \/ status # "START" \/ At("pos", "exited"))

=============================================================================
