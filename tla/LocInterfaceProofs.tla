------------------------- MODULE LocInterfaceProofs -------------------------
(***************************************************************************)
(* Proofs about the report mailbox of the driver, for any number of events *)
(* and on platforms with and without spurious wake-ups.                    *)
(***************************************************************************)
EXTENDS LocInterface, TLAPS

(* Nothing but an event is ever stored as the status.                      *)
StatusInv == report_thread_status \in {REPORT_STATUS_IDEL, REPORT_STATUS_EVENT}

(* The report thread is created by iwise_init.                             *)
ThreadInv == app = "none" => rpc = "none"

(* Where waits only end on a signal and until the close stores its status, *)
(* what is marked as new was not taken, what is taken was not delivered,   *)
(* and a thread that was woken finds something new.                        *)
NewInv ==
  ~spurious /\ app # "joining" =>
    /\ taken <= posted
    /\ report_thread_status = REPORT_STATUS_EVENT => taken < posted
    /\ IF rpc = "deliver" THEN delivered < taken ELSE delivered = taken
    /\ rpc = "woken" => report_thread_status = REPORT_STATUS_EVENT
    /\ copies <= 1

IInv == TypeOK /\ StatusInv /\ ThreadInv /\ NoSleepOnEvent /\ NewInv

-----------------------------------------------------------------------------
(* The status bits differ. *)
LEMMA Status ==
  /\ REPORT_STATUS_IDEL # REPORT_STATUS_EVENT
  /\ REPORT_STATUS_QUIT # REPORT_STATUS_EVENT
  /\ REPORT_STATUS_QUIT # REPORT_STATUS_IDEL
<1>1. 1 \in REPORT_STATUS_EVENT /\ 1 \notin REPORT_STATUS_IDEL /\ 1 \notin REPORT_STATUS_QUIT
  BY DEF REPORT_STATUS_EVENT, REPORT_STATUS_IDEL, REPORT_STATUS_QUIT
<1>2. 2 \in REPORT_STATUS_QUIT /\ 2 \notin REPORT_STATUS_IDEL
  BY DEF REPORT_STATUS_QUIT, REPORT_STATUS_IDEL
<1> QED
  BY <1>1, <1>2

LEMMA InitIInv == Init => IInv
<1> SUFFICES ASSUME Init PROVE IInv
  OBVIOUS
<1>1. TypeOK
  BY InterfaceAssumption DEF Init, TypeOK, REPORT_STATUS_IDEL
<1>2. StatusInv /\ ThreadInv /\ NoSleepOnEvent
  BY DEF Init, StatusInv, ThreadInv, NoSleepOnEvent
<1>3. NewInv
  BY Status DEF Init, NewInv
<1> QED
  BY <1>1, <1>2, <1>3 DEF IInv

(* A take of what was signalled: the status was EVENT, so the event is     *)
(* newer than the one before.                                              *)
LEMMA TakeStep ==
  ASSUME IInv, TakeOrQuit, rpc \in {"loop", "woken"},
         rpc = "loop" => report_thread_status # REPORT_STATUS_IDEL,
         UNCHANGED <<app, posted, delivered, copies, spurious>>
  PROVE  IInv'
<1> USE DEF IInv
<1>1. /\ report_thread_status' = REPORT_STATUS_IDEL
      /\ taken' = posted
      /\ rpc' = "deliver"
  BY Status DEF TakeOrQuit, StatusInv
<1>2. TypeOK'
  BY <1>1 DEF TypeOK, REPORT_STATUS_IDEL
<1>3. StatusInv' /\ ThreadInv' /\ NoSleepOnEvent'
  BY <1>1 DEF StatusInv, ThreadInv, NoSleepOnEvent
<1>4. NewInv'
  <2> SUFFICES ASSUME ~spurious, app # "joining" PROVE NewInv'
    BY DEF NewInv
  <2>1. report_thread_status = REPORT_STATUS_EVENT
    BY DEF NewInv, StatusInv
  <2>2. taken < posted /\ delivered = taken /\ copies <= 1
    BY <2>1 DEF NewInv
  <2>3. posted \in Nat /\ posted' = posted /\ delivered' = delivered /\ copies' = copies
    BY DEF TypeOK
  <2> QED
    BY <1>1, <2>2, <2>3, Status DEF NewInv
<1> QED
  BY <1>2, <1>3, <1>4

(* A new event is newer than all that was taken; and whoever waits wakes.  *)
LEMMA PostStep == IInv /\ Post => IInv'
<1> SUFFICES ASSUME IInv, Post PROVE IInv'
  OBVIOUS
<1> USE DEF IInv
<1>1. report_thread_status' = REPORT_STATUS_EVENT
  BY DEF Post, StatusInv, REPORT_STATUS_IDEL, REPORT_STATUS_EVENT
<1>2. rpc' # "wait" /\ (rpc' = "woken" \/ rpc' = rpc) /\ (rpc' = "deliver" <=> rpc = "deliver")
  BY DEF Post, Signal, NoSleepOnEvent
<1>3. TypeOK'
  <2>1. posted \in Nat /\ MaxEvents \in Nat /\ posted' = posted + 1 /\ posted < MaxEvents
    BY InterfaceAssumption DEF TypeOK, Post
  <2>2. posted' \in 0 .. MaxEvents
    BY <2>1
  <2> QED
    BY <1>1, <2>2 DEF TypeOK, Post, Signal, REPORT_STATUS_EVENT
<1>4. StatusInv' /\ ThreadInv' /\ NoSleepOnEvent'
  BY <1>1, <1>2 DEF Post, StatusInv, ThreadInv, NoSleepOnEvent
<1>5. NewInv'
  <2> SUFFICES ASSUME ~spurious, app # "joining" PROVE NewInv'
    BY DEF NewInv, Post
  <2>1. taken <= posted /\ copies <= 1
        /\ IF rpc = "deliver" THEN delivered < taken ELSE delivered = taken
    BY DEF NewInv
  <2>2. taken \in Nat /\ posted \in Nat /\ posted' = posted + 1
    BY DEF TypeOK, Post
  <2>3. taken' = taken /\ delivered' = delivered /\ copies' = copies
    BY DEF Post
  <2>4. taken' < posted' /\ taken' <= posted'
    BY <2>1, <2>2, <2>3
  <2> QED
    BY <1>1, <1>2, <2>1, <2>3, <2>4 DEF NewInv
<1> QED
  BY <1>3, <1>4, <1>5

(* An event that is newer than the last one delivered is a first copy.     *)
LEMMA DeliverStep == IInv /\ ReportDeliver => IInv'
<1> SUFFICES ASSUME IInv, ReportDeliver PROVE IInv'
  OBVIOUS
<1> USE DEF IInv
<1>1. /\ rpc = "deliver" /\ rpc' = "loop" /\ delivered' = taken
      /\ UNCHANGED <<app, report_thread_status, posted, taken, spurious>>
  BY DEF ReportDeliver
<1>2. copies' = IF taken = 0 THEN 0 ELSE IF taken # delivered THEN 1 ELSE 2
  BY DEF ReportDeliver
<1>3. TypeOK'
  BY <1>1, <1>2 DEF TypeOK
<1>4. StatusInv' /\ ThreadInv' /\ NoSleepOnEvent'
  BY <1>1 DEF StatusInv, ThreadInv, NoSleepOnEvent
<1>5. NewInv'
  <2> SUFFICES ASSUME ~spurious, app # "joining" PROVE NewInv'
    BY <1>1 DEF NewInv
  <2>1. delivered < taken /\ taken <= posted
        /\ (report_thread_status = REPORT_STATUS_EVENT => taken < posted)
    BY <1>1 DEF NewInv
  <2>2. delivered \in Nat /\ taken \in Nat
    BY DEF TypeOK
  <2>3. copies' <= 1
    BY <1>2, <2>1, <2>2
  <2> QED
    BY <1>1, <2>1, <2>3 DEF NewInv
<1> QED
  BY <1>3, <1>4, <1>5

(* The calls of the application and the waits keep the mailbox as it is,   *)
(* but for the status that the close stores.                               *)
LEMMA OtherStep ==
  ASSUME IInv,
         Open \/ StartFix \/ CloseBegin \/ CloseDestroyed \/ CloseSignal
           \/ ReportWait \/ ReportSpuriousWake \/ UNCHANGED vars
  PROVE  IInv'
<1> USE DEF IInv
<1>1. CASE Open
  <2>1. UNCHANGED <<posted, taken, delivered, copies, spurious>>
    BY <1>1 DEF Open
  <2>2. app = "none" /\ app' = "open" /\ rpc' = "loop"
        /\ report_thread_status' = REPORT_STATUS_IDEL
    BY <1>1 DEF Open
  <2>3. TypeOK' /\ StatusInv' /\ ThreadInv' /\ NoSleepOnEvent'
    BY <2>1, <2>2 DEF TypeOK, StatusInv, ThreadInv, NoSleepOnEvent, REPORT_STATUS_IDEL
  <2>4. rpc # "deliver"
    BY <2>2 DEF ThreadInv
  <2> QED
    BY <2>1, <2>2, <2>3, <2>4, Status DEF NewInv
<1>2. CASE StartFix \/ CloseBegin \/ CloseDestroyed \/ UNCHANGED vars
  <2>1. UNCHANGED <<report_thread_status, posted, rpc, taken, delivered, copies, spurious>>
    BY <1>2 DEF StartFix, CloseBegin, CloseDestroyed, vars
  <2>2. \/ app' = app
        \/ app # "joining" /\ app' \in {"started", "destroying", "destroyed"}
    BY <1>2 DEF StartFix, CloseBegin, CloseDestroyed, vars
  <2>3. TypeOK' /\ StatusInv' /\ ThreadInv' /\ NoSleepOnEvent'
    BY <2>1, <2>2 DEF TypeOK, StatusInv, ThreadInv, NoSleepOnEvent
  <2> QED
    BY <2>1, <2>2, <2>3 DEF NewInv
<1>3. CASE CloseSignal
  <2>1. app' = "joining" /\ report_thread_status' = REPORT_STATUS_EVENT /\ rpc' # "wait"
    BY <1>3 DEF CloseSignal, Signal, REPORT_STATUS_EVENT
  <2>2. TypeOK'
    BY <1>3 DEF TypeOK, CloseSignal, Signal
  <2> QED
    BY <2>1, <2>2 DEF StatusInv, ThreadInv, NoSleepOnEvent, NewInv
<1>4. CASE ReportWait
  BY <1>4, Status DEF ReportWait, TypeOK, StatusInv, ThreadInv, NoSleepOnEvent, NewInv
<1>5. CASE ReportSpuriousWake
  BY <1>5 DEF ReportSpuriousWake, TypeOK, StatusInv, ThreadInv, NoSleepOnEvent, NewInv
<1> QED
  BY <1>1, <1>2, <1>3, <1>4, <1>5

(* Every step keeps the invariant. *)
LEMMA StepIInv == IInv /\ [Next]_vars => IInv'
<1> SUFFICES ASSUME IInv, [Next]_vars PROVE IInv'
  OBVIOUS
<1>1. CASE ReportBusy
  BY <1>1, TakeStep DEF ReportBusy
<1>2. CASE ReportWoken
  BY <1>2, TakeStep DEF ReportWoken
<1>3. CASE Post
  BY <1>3, PostStep
<1>4. CASE ReportDeliver
  BY <1>4, DeliverStep
<1> QED
  BY <1>1, <1>2, <1>3, <1>4, OtherStep DEF Next, ReportStep

LEMMA Invariance == Spec => []IInv
  BY InitIInv, StepIInv, PTL DEF Spec

-----------------------------------------------------------------------------
(* Every variable of the report mailbox keeps its type.                    *)
THEOREM TypeCorrect == Spec => []TypeOK
<1>1. IInv => TypeOK
  BY DEF IInv
<1> QED
  BY <1>1, Invariance, PTL

(* The report thread never sleeps on an event or on a status that the      *)
(* close stored: each store is followed by a signal, and the thread looks  *)
(* at the status and begins to wait in one critical section.               *)
THEOREM NoEventSleptOn == Spec => []NoSleepOnEvent
<1>1. IInv => NoSleepOnEvent
  BY DEF IInv
<1> QED
  BY <1>1, Invariance, PTL

(* Without spurious wake-ups the application gets no event twice, although *)
(* the thread does not look again whether there is one after its wait.     *)
THEOREM NothingRepeated == Spec => []NoRepeat
<1>1. IInv => NoRepeat
  BY DEF IInv, NewInv, NoRepeat
<1> QED
  BY <1>1, Invariance, PTL

=============================================================================
