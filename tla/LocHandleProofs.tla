-------------------------- MODULE LocHandleProofs ---------------------------
(***************************************************************************)
(* Proofs about the life cycle and the observation mailbox of the driver's *)
(* middle layer, for any number of calls, observations and corrections.    *)
(***************************************************************************)
EXTENDS LocHandle, TLAPS

(* The threads that destroy has joined so far have ended, and the context  *)
(* is there until the last one is.                                         *)
JoinInv ==
  /\ apc \in {"join_xihe", "join_pos"} => At("hardware", "exited")
  /\ apc = "join_pos" => At("xihe", "exited")
  /\ apc # "idle" => status # "NULL"

(* Unless data_mutex was released under its holder, a thread holds it      *)
(* wherever it counts on it.                                               *)
MutexInv ==
  ~stolen =>
    /\ pc["hardware"] \in {"obs_copy", "obs_mark", "nav_copy"} => data_mutex = "hardware"
    /\ pc["xihe"] \in {"copy", "clear"} => data_mutex = "xihe"
    /\ pc["pos"] \in {"test", "mark"} => data_mutex = "pos"

(* The observation in the mailbox is never older than the one used last,   *)
(* and the receiver has one more to send where the thread counts on it.    *)
(* What is marked as new, or about to be, is newer, unless pos is about to *)
(* mark it used.                                                           *)
MailInv ==
  /\ solved <= obs
  /\ pc["hardware"] \in {"obs", "obs_copy"} => obs < MaxObs
  /\ ~stolen /\ pc["hardware"] = "obs_mark" => solved < obs
  /\ ~stolen /\ obs_flag /\ pc["pos"] # "mark" => solved < obs

IInv == TypeOK /\ JoinInv /\ NoThreadOnFreedContext /\ MutexInv /\ MailInv

-----------------------------------------------------------------------------
LEMMA WorkersAre == Workers = {"hardware", "xihe", "pos"}
  BY DEF Workers

LEMMA InitIInv == Init => IInv
<1> SUFFICES ASSUME Init PROVE IInv
  OBVIOUS
<1>1. TypeOK
  <2>1. 0 \in 0 .. MaxCalls /\ 0 \in 0 .. MaxObs /\ 0 \in 0 .. MaxCorr
    BY LocAssumption
  <2> QED
    BY <2>1 DEF Init, TypeOK
<1>2. JoinInv /\ NoThreadOnFreedContext /\ MutexInv
  BY DEF Init, JoinInv, NoThreadOnFreedContext, MutexInv, Workers
<1>3. MailInv
  BY LocAssumption DEF Init, MailInv, Workers
<1> QED
  BY <1>1, <1>2, <1>3 DEF IInv

(* The calls: only a destroy that has joined every thread frees the        *)
(* context, and only an init makes threads, on a context that is not there *)
(* yet.                                                                    *)
LEMMA CallStep == IInv /\ (AppCall \/ AppStep) => IInv'
<1> SUFFICES ASSUME IInv, AppCall \/ AppStep PROVE IInv'
  OBVIOUS
<1> USE WorkersAre DEF IInv
<1>1. CASE LocInit
  <2>1. TypeOK'
    <3>1. 0 \in 0 .. MaxObs /\ 0 \in 0 .. MaxCorr
      BY LocAssumption
    <3>2. calls' \in 0 .. MaxCalls
      BY <1>1, LocAssumption DEF LocInit, Call, TypeOK
    <3> QED
      BY <1>1, <3>1, <3>2 DEF LocInit, TypeOK
  <2>2. JoinInv' /\ NoThreadOnFreedContext' /\ MutexInv'
    BY <1>1 DEF LocInit, Call, JoinInv, NoThreadOnFreedContext, MutexInv
  <2>3. MailInv'
    BY <1>1 DEF LocInit, MailInv
  <2> QED
    BY <2>1, <2>2, <2>3
<1>2. CASE LocStart \/ LocStop \/ LocDestroy
  <2>1. apc = "idle" /\ status # "NULL" /\ status' \in {"START", "STOP", "DESTROY"}
        /\ apc' \in {"idle", "join_hardware"} /\ calls' \in 0 .. MaxCalls
    BY <1>2, LocAssumption DEF LocStart, LocStop, LocDestroy, Call, TypeOK
  <2>2. UNCHANGED <<data_mutex, dataVars, received, solved, stolen>>
    BY <1>2 DEF LocStart, LocStop, LocDestroy, solvedVars
  <2>3. pc' = pc \/ WakeAll
    BY <1>2 DEF LocStart, LocStop, LocDestroy
  <2>4. TypeOK'
    BY <2>1, <2>2, <2>3 DEF TypeOK, WakeAll, dataVars
  <2>5. \A w \in Workers : pc'[w] = pc[w] \/ (pc[w] = "asleep" /\ pc'[w] = "woken")
    BY <2>3 DEF WakeAll
  <2>6. MailInv' /\ MutexInv'
    BY <2>2, <2>5 DEF MailInv, MutexInv, dataVars
  <2>7. JoinInv' /\ NoThreadOnFreedContext'
    BY <2>1, <2>2 DEF JoinInv, NoThreadOnFreedContext
  <2> QED
    BY <2>4, <2>6, <2>7
<1>3. CASE AppStep
  <2> USE <1>3 DEF AppStep, JoinHardware, JoinXihe, JoinPos, solvedVars
  <2>1. TypeOK'
    BY DEF TypeOK, dataVars
  <2>2. MailInv' /\ MutexInv'
    BY DEF MailInv, MutexInv, dataVars
  <2>3. JoinInv' /\ NoThreadOnFreedContext'
    BY DEF JoinInv, NoThreadOnFreedContext, At
  <2> QED
    BY <2>1, <2>2, <2>3
<1> QED
  BY <1>1, <1>2, <1>3 DEF AppCall

(* A step of one thread that leaves the mailbox alone: what it may do to   *)
(* the mutex is MutexInv', which each thread shows for itself.             *)
LEMMA ThreadStep ==
  ASSUME IInv, TypeOK', MutexInv', UNCHANGED callVars,
         UNCHANGED <<obs, obs_flag, solved>>, stolen => stolen',
         NEW w \in Workers, pc[w] \notin {"none", "exited"},
         \A v \in Workers : v # w =>
           pc'[v] = pc[v] \/ (pc[v] = "timedwait" /\ pc'[v] = "signalled"),
         w = "hardware" => /\ pc'[w] \in {"obs", "obs_copy"} => obs < MaxObs
                           /\ pc'[w] # "obs_mark",
         w = "pos" => pc[w] # "mark"
  PROVE  IInv'
<1> USE WorkersAre DEF IInv
<1>1. JoinInv'
  BY DEF JoinInv, callVars, At
<1>2. NoThreadOnFreedContext'
  BY DEF NoThreadOnFreedContext, callVars
<1>3. MailInv'
  <2>1. solved' = solved /\ obs' = obs /\ obs_flag' = obs_flag
    OBVIOUS
  <2>2. pc'["hardware"] \in {"obs", "obs_copy"} => obs < MaxObs
    BY DEF MailInv
  <2>3. pc'["hardware"] = "obs_mark" => pc["hardware"] = "obs_mark"
    OBVIOUS
  <2>4. pc'["pos"] # "mark" => pc["pos"] # "mark"
    OBVIOUS
  <2> QED
    BY <2>1, <2>2, <2>3, <2>4 DEF MailInv
<1> QED
  BY <1>1, <1>2, <1>3

(* The unlock of a mutex that is not held is a theft when somebody has it. *)
LEMMA WaitsStep ==
  ASSUME IInv, NEW w \in Workers, WaitStep(w) \/ SpuriousWake(w) PROVE IInv'
<1> USE WorkersAre
<1>1. /\ pc[w] \in {"enter", "asleep", "woken"}
      /\ pc'[w] \in {"begin", "exited", "enter", "asleep", "woken"}
      /\ \A v \in Workers : v # w => pc'[v] = pc[v]
      /\ UNCHANGED callVars /\ UNCHANGED dataVars /\ UNCHANGED solved
  BY DEF WaitStep, WaitEnter, WaitResume, SpuriousWake, At, Goto, IInv, TypeOK, solvedVars
<1>2. /\ stolen' \in BOOLEAN /\ (stolen => stolen')
      /\ ~stolen' => data_mutex' = data_mutex
  <2>1. CASE WaitResume(w)
    <3>1. stolen' = (stolen \/ data_mutex' # data_mutex)
      BY <2>1 DEF WaitResume
    <3> QED
      BY <3>1
  <2>2. CASE WaitEnter(w) \/ SpuriousWake(w)
    BY <2>2 DEF WaitEnter, SpuriousWake, solvedVars, IInv, TypeOK
  <2> QED
    BY <2>1, <2>2 DEF WaitStep
<1>3. TypeOK'
  <2>1. /\ pc' = [pc EXCEPT ![w] = pc'[w]]
        /\ data_mutex' \in {data_mutex, "nobody"}
        /\ UNCHANGED received
    BY DEF WaitStep, WaitEnter, WaitResume, SpuriousWake, Goto, IInv, TypeOK
  <2> QED
    BY <1>1, <1>2, <2>1 DEF IInv, TypeOK, callVars, dataVars
<1>4. MutexInv'
  BY <1>1, <1>2 DEF IInv, MutexInv
<1> QED
  BY <1>1, <1>2, <1>3, <1>4, ThreadStep DEF dataVars

(* An observation that is posted is newer than any that was used.          *)
LEMMA HardwareStep == IInv /\ HwStep => IInv'
<1> SUFFICES ASSUME IInv, HwStep PROVE IInv'
  OBVIOUS
<1> USE WorkersAre
<1>1. CASE HwCopyObs
  <2>1. obs \in Nat /\ MaxObs \in Nat /\ obs < MaxObs /\ obs' = obs + 1
        /\ solved \in Nat /\ solved <= obs
    BY <1>1, LocAssumption DEF IInv, TypeOK, MailInv, HwCopyObs, At
  <2>2. obs' \in 0 .. MaxObs /\ solved < obs' /\ solved <= obs'
    BY <2>1
  <2>3. pc["hardware"] = "obs_copy" /\ pc'["hardware"] = "obs_mark"
        /\ pc'["xihe"] = pc["xihe"] /\ pc'["pos"] = pc["pos"]
    BY <1>1 DEF IInv, TypeOK, HwCopyObs, At, Goto
  <2>4. TypeOK'
    BY <1>1, <2>2 DEF IInv, TypeOK, HwCopyObs, Goto, callVars, solvedVars
  <2>5. solved' = solved /\ MailInv'
    BY <1>1, <2>2, <2>3 DEF MailInv, HwCopyObs, solvedVars
  <2>6. JoinInv' /\ NoThreadOnFreedContext' /\ MutexInv'
    BY <1>1, <2>3 DEF IInv, JoinInv, NoThreadOnFreedContext, MutexInv, HwCopyObs,
       At, callVars, solvedVars
  <2> QED
    BY <2>4, <2>5, <2>6 DEF IInv
<1>2. CASE HwPostObs
  <2>1. pc["hardware"] = "obs_mark" /\ pc'["hardware"] = "signal"
        /\ pc'["xihe"] = pc["xihe"] /\ pc'["pos"] = pc["pos"]
    BY <1>2 DEF IInv, TypeOK, HwPostObs, At, Goto
  <2>2. TypeOK'
    BY <1>2 DEF IInv, TypeOK, HwPostObs, Goto, callVars, solvedVars
  <2>3. UNCHANGED <<obs, solved, stolen>>
    BY <1>2 DEF HwPostObs, solvedVars
  <2>4. MailInv'
    BY <2>1, <2>3 DEF IInv, MailInv
  <2>5. JoinInv' /\ NoThreadOnFreedContext'
    BY <1>2, <2>1 DEF IInv, JoinInv, NoThreadOnFreedContext, HwPostObs, At, callVars
  <2>6. MutexInv'
    BY <1>2, <2>1, <2>3 DEF IInv, MutexInv, HwPostObs
  <2> QED
    BY <2>2, <2>4, <2>5, <2>6 DEF IInv
<1>3. CASE HwOpen \/ HwSelect \/ HwRead \/ HwParse \/ HwLock \/ HwSignal \/ HwPostNav
  <2> USE <1>3 DEF HwOpen, HwSelect, HwRead, HwParse, HwLock, HwSignal, HwPostNav
  <2>1. /\ pc["hardware"] \notin {"none", "exited"}
        /\ pc'["xihe"] = pc["xihe"]
        /\ pc'["pos"] = pc["pos"] \/ (pc["pos"] = "timedwait" /\ pc'["pos"] = "signalled")
    BY DEF At, Goto, IInv, TypeOK
  <2>2. /\ pc'["hardware"] \in {"obs", "obs_copy"} => obs < MaxObs
        /\ pc'["hardware"] # "obs_mark"
    BY DEF At, Goto, IInv, TypeOK, MailInv, Checked
  <2>3. UNCHANGED callVars /\ UNCHANGED <<obs, obs_flag, solved, stolen>>
    BY DEF dataVars, solvedVars
  <2>4. /\ data_mutex' \in Workers \cup {"nobody"}
        /\ nav_flag' \in BOOLEAN
        /\ UNCHANGED <<clockorbit, received>>
    BY DEF IInv, TypeOK, dataVars
  <2>5. TypeOK'
    BY <2>3, <2>4 DEF At, Goto, Checked, IInv, TypeOK, callVars
  <2>6. \/ data_mutex' = data_mutex
           /\ pc'["hardware"] \notin {"obs_copy", "obs_mark", "nav_copy"}
        \/ data_mutex = "nobody" /\ data_mutex' = "hardware"
        \/ pc["hardware"] = "nav_copy" /\ pc'["hardware"] = "parse"
    BY DEF At, Goto, IInv, TypeOK, Checked
  <2>7. MutexInv'
    BY <2>1, <2>3, <2>6 DEF IInv, MutexInv
  <2> QED
    BY <2>1, <2>2, <2>3, <2>5, <2>7, ThreadStep
<1> QED
  BY <1>1, <1>2, <1>3 DEF HwStep

(* The steps of the network thread. *)
LEMMA NetworkStep == IInv /\ XiheStep => IInv'
<1> SUFFICES ASSUME IInv, XiheStep PROVE IInv'
  OBVIOUS
<1> USE WorkersAre DEF XiheStep, XiheConnect, XiheRetry, XiheRecv, XiheParsed,
    XiheCopied, XiheLock, XihePublish, XiheBadMessage, XiheStoreBad,
    XiheChunkEnds, XiheOversize, Parsing
<1>1. /\ pc["xihe"] \notin {"none", "exited"}
      /\ pc'["hardware"] = pc["hardware"] /\ pc'["pos"] = pc["pos"]
  BY DEF At, Goto, IInv, TypeOK
<1>2. UNCHANGED callVars /\ UNCHANGED <<obs, obs_flag, nav_flag, solved, stolen>>
  BY DEF dataVars, solvedVars
<1>3. received' \in 0 .. MaxCorr /\ clockorbit' \in (0 .. MaxCorr) \X (0 .. MaxCorr)
  BY LocAssumption DEF IInv, TypeOK, dataVars
<1>4. TypeOK'
  BY <1>2, <1>3 DEF At, Goto, Checked, IInv, TypeOK, callVars, dataVars
<1>5. \/ data_mutex' = data_mutex /\ pc'["xihe"] \notin {"copy", "clear"}
      \/ data_mutex = "nobody" /\ data_mutex' = "xihe"
      \/ pc["xihe"] \in {"copy", "clear"} /\ pc'["xihe"] \notin {"copy", "clear"}
  BY DEF At, Goto, IInv, TypeOK, Checked
<1>6. MutexInv'
  BY <1>1, <1>2, <1>5 DEF IInv, MutexInv
<1> QED
  BY <1>1, <1>2, <1>4, <1>6, ThreadStep

(* The observation that is used is marked so before the mutex is released, *)
(* and no new one comes meanwhile.                                         *)
LEMMA PositionStep == IInv /\ PosStep => IInv'
<1> SUFFICES ASSUME IInv, PosStep PROVE IInv'
  OBVIOUS
<1> USE WorkersAre
<1>1. CASE PosCopy
  <2>1. TypeOK'
    BY <1>1 DEF IInv, TypeOK, PosCopy, Goto, callVars, dataVars
  <2>2. pc["pos"] = "test" /\ pc'["pos"] = "mark"
        /\ pc'["hardware"] = pc["hardware"] /\ pc'["xihe"] = pc["xihe"]
    BY <1>1 DEF IInv, TypeOK, PosCopy, At, Goto
  <2>3. obs \in Nat /\ solved' = obs /\ UNCHANGED <<obs, stolen, data_mutex>>
    BY <1>1 DEF IInv, TypeOK, PosCopy, dataVars
  <2>4. ~stolen => pc["hardware"] # "obs_mark"
    BY <2>2 DEF IInv, MutexInv
  <2>5. MailInv'
    BY <2>2, <2>3, <2>4 DEF IInv, MailInv
  <2>6. JoinInv' /\ NoThreadOnFreedContext'
    BY <1>1, <2>2 DEF IInv, JoinInv, NoThreadOnFreedContext, PosCopy, At, callVars
  <2>7. MutexInv'
    BY <2>2, <2>3 DEF IInv, MutexInv
  <2> QED
    BY <2>1, <2>5, <2>6, <2>7 DEF IInv
<1>2. CASE PosMark
  <2>1. TypeOK'
    BY <1>2 DEF IInv, TypeOK, PosMark, Goto, callVars, solvedVars
  <2>2. pc["pos"] = "mark" /\ pc'["pos"] = "solve"
        /\ pc'["hardware"] = pc["hardware"] /\ pc'["xihe"] = pc["xihe"]
    BY <1>2 DEF IInv, TypeOK, PosMark, At, Goto
  <2>3. obs_flag' = FALSE /\ UNCHANGED <<obs, solved, stolen>>
    BY <1>2 DEF PosMark, solvedVars
  <2>4. MailInv'
    BY <2>2, <2>3 DEF IInv, MailInv
  <2>5. JoinInv' /\ NoThreadOnFreedContext'
    BY <1>2, <2>2 DEF IInv, JoinInv, NoThreadOnFreedContext, PosMark, At, callVars
  <2>6. MutexInv'
    BY <1>2, <2>2, <2>3 DEF IInv, MutexInv, PosMark
  <2> QED
    BY <2>1, <2>4, <2>5, <2>6 DEF IInv
<1>3. CASE PosSetup \/ PosLock \/ PosWait \/ PosTimeout \/ PosResume \/ PosSolve
  <2> USE <1>3 DEF PosSetup, PosLock, PosWait, PosTimeout, PosResume, PosSolve
  <2>1. /\ pc["pos"] \notin {"none", "exited", "mark"}
        /\ pc'["hardware"] = pc["hardware"] /\ pc'["xihe"] = pc["xihe"]
    BY DEF At, Goto, IInv, TypeOK
  <2>2. UNCHANGED callVars /\ UNCHANGED <<dataVars, solved, stolen>>
    BY DEF solvedVars
  <2>3. TypeOK'
    BY DEF At, Goto, Checked, IInv, TypeOK, callVars, dataVars, solvedVars
  <2>4. \/ data_mutex' = data_mutex /\ pc'["pos"] \notin {"test", "mark"}
        \/ data_mutex = "nobody" /\ data_mutex' = "pos"
        \/ data_mutex = "nobody" /\ data_mutex' = "nobody" /\ pc'["pos"] \notin {"test", "mark"}
        \/ pc["pos"] = "test" /\ pc'["pos"] = "timedwait"
    BY DEF At, Goto, Checked, IInv, TypeOK
  <2>5. MutexInv'
    BY <2>1, <2>2, <2>4 DEF IInv, MutexInv
  <2> QED
    BY <2>1, <2>2, <2>3, <2>5, ThreadStep DEF dataVars
<1> QED
  BY <1>1, <1>2, <1>3 DEF PosStep

(* Every step keeps the invariant. *)
LEMMA StepIInv == IInv /\ [Next]_vars => IInv'
<1> SUFFICES ASSUME IInv, [Next]_vars PROVE IInv'
  OBVIOUS
<1>1. CASE UNCHANGED vars
  BY <1>1 DEF vars, callVars, dataVars, solvedVars, IInv, TypeOK, JoinInv, At,
     NoThreadOnFreedContext, MutexInv, MailInv
<1> QED
  BY <1>1, CallStep, WaitsStep, HardwareStep, NetworkStep, PositionStep DEF Next

LEMMA Invariance == Spec => []IInv
  BY InitIInv, StepIInv, PTL DEF Spec

-----------------------------------------------------------------------------
(* Every variable of the middle layer keeps its type.                      *)
THEOREM TypeCorrect == Spec => []TypeOK
<1>1. IInv => TypeOK
  BY DEF IInv
<1> QED
  BY <1>1, Invariance, PTL

(* Over any sequence of init, start, stop and destroy, however their steps *)
(* fall among those of the threads, no thread runs on a context that       *)
(* iwise_loc_destroy has freed.                                            *)
THEOREM ThreadsEndFirst == Spec => []NoThreadOnFreedContext
<1>1. IInv => NoThreadOnFreedContext
  BY DEF IInv
<1> QED
  BY <1>1, Invariance, PTL

(* No observation is used for two positions, as long as data_mutex is not  *)
(* released under its holder: whenever it is free, an observation that is  *)
(* marked as new is newer than the one used last.                          *)
THEOREM NoneUsedTwice == Spec => []FlaggedIsUnused
<1>1. IInv => FlaggedIsUnused
  <2> SUFFICES ASSUME IInv, obs_flag, data_mutex = "nobody", ~stolen
               PROVE  obs > solved
    BY DEF FlaggedIsUnused
  <2>1. pc["pos"] # "mark"
    BY DEF IInv, MutexInv
  <2>2. solved < obs /\ obs \in Nat /\ solved \in Nat
    BY <2>1 DEF IInv, MailInv, TypeOK
  <2> QED
    BY <2>2
<1> QED
  BY <1>1, Invariance, PTL

=============================================================================
