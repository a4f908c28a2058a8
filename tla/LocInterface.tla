---------------------------- MODULE LocInterface ----------------------------
(***************************************************************************)
(* The top layer of the positioning driver                                 *)
(* (iwise_loc_interface_layer1/iwise_loc_interface.c): the threads of the  *)
(* middle layer post events into a mailbox that holds one of them, and the *)
(* report thread takes them out and calls the application back.            *)
(*                                                                         *)
(* data_lock is only held for single steps. An event is its number. The    *)
(* wake lock callbacks change nothing here and are left out.               *)
(***************************************************************************)
EXTENDS Naturals

CONSTANT MaxEvents  (* bound on the events the middle layer posts          *)

ASSUME InterfaceAssumption == MaxEvents \in Nat

(* report_thread_status is a set of bits. *)
REPORT_STATUS_IDEL  == {}
REPORT_STATUS_EVENT == {1}
REPORT_STATUS_QUIT  == {2}

VARIABLES
  app,                   (* how far the application is: "none", "open",    *)
                         (* "started", "destroying" or "joining"           *)
  report_thread_status,
  posted,                (* the event in the mailbox, 0 for none           *)
  rpc,                   (* where the report thread is                     *)
  taken,                 (* the event the report thread works on           *)
  delivered,             (* the last event the application got             *)
  copies,                (* how many times it got it; 2 stands for more    *)
  spurious               (* whether pthread_cond_wait may return without a *)
                         (* signal: a property of the platform, never set  *)

vars == <<app, report_thread_status, posted, rpc, taken, delivered, copies, spurious>>

Init ==
  /\ app = "none"
  /\ report_thread_status = REPORT_STATUS_IDEL
  /\ posted = 0
  /\ rpc = "none"
  /\ taken = 0
  /\ delivered = 0
  /\ copies = 0
  /\ spurious \in BOOLEAN

(* iwise_init: the middle layer, then the lock, then the report thread *)
Open ==
  /\ app = "none"
  /\ app' = "open"
  /\ report_thread_status' = REPORT_STATUS_IDEL
  /\ rpc' = "loop"
  /\ UNCHANGED <<posted, taken, delivered, copies, spurious>>

(* iwise_start_fix; iwise_stop_fix changes nothing in this layer, and the  *)
(* threads below may post until they have seen it.                         *)
StartFix ==
  /\ app = "open"
  /\ app' = "started"
  /\ UNCHANGED <<report_thread_status, posted, rpc, taken, delivered, copies, spurious>>

(* iwise_close first has the middle layer end the threads that post ... *)
CloseBegin ==
  /\ app \in {"open", "started"}
  /\ app' = IF app = "started" THEN "destroying" ELSE "destroyed"
  /\ UNCHANGED <<report_thread_status, posted, rpc, taken, delivered, copies, spurious>>

CloseDestroyed ==
  /\ app = "destroying"
  /\ app' = "destroyed"
  /\ UNCHANGED <<report_thread_status, posted, rpc, taken, delivered, copies, spurious>>

(* pthread_cond_signal wakes the report thread when it waits. *)
Signal == rpc' = IF rpc = "wait" THEN "woken" ELSE rpc

(* Mutation: a value that is no set of status bits is stored. *)
CloseSignalBadStatus ==
  /\ app = "destroyed"
  /\ report_thread_status' = {4}
  /\ Signal
  /\ app' = "joining"
  /\ UNCHANGED <<posted, taken, delivered, copies, spurious>>

(* ... then tells the report thread, by storing 1, and joins it. *)
CloseSignal ==
  /\ app = "destroyed"
  /\ report_thread_status' = {1}
  /\ Signal
  /\ app' = "joining"
  /\ UNCHANGED <<posted, taken, delivered, copies, spurious>>

(* Mutation: the report thread is not woken. *)
PostSilent ==
  /\ app \in {"started", "destroying"}
  /\ posted < MaxEvents
  /\ posted' = posted + 1
  /\ report_thread_status' = report_thread_status \cup REPORT_STATUS_EVENT
  /\ UNCHANGED <<app, rpc, taken, delivered, copies, spurious>>

(* iwise_inter_event_cb: the mailbox is overwritten. *)
Post ==
  /\ app \in {"started", "destroying"}
  /\ posted < MaxEvents
  /\ posted' = posted + 1
  /\ report_thread_status' = report_thread_status \cup REPORT_STATUS_EVENT
  /\ Signal
  /\ UNCHANGED <<app, taken, delivered, copies, spurious>>

(* Mutation: the event stays marked as new. *)
TakeKeepsStatus ==
  IF report_thread_status = REPORT_STATUS_QUIT
  THEN rpc' = "ended" /\ UNCHANGED <<report_thread_status, taken>>
  ELSE /\ UNCHANGED report_thread_status
       /\ taken' = posted
       /\ rpc' = "deliver"

(* report_thread with the lock: quit, or empty the mailbox *)
TakeOrQuit ==
  IF report_thread_status = REPORT_STATUS_QUIT
  THEN rpc' = "ended" /\ UNCHANGED <<report_thread_status, taken>>
  ELSE /\ report_thread_status' = REPORT_STATUS_IDEL
       /\ taken' = posted
       /\ rpc' = "deliver"

ReportWait ==
  /\ rpc = "loop"
  /\ report_thread_status = REPORT_STATUS_IDEL
  /\ rpc' = "wait"
  /\ UNCHANGED <<app, report_thread_status, posted, taken, delivered, copies, spurious>>

ReportBusy ==
  /\ rpc = "loop"
  /\ report_thread_status # REPORT_STATUS_IDEL
  /\ TakeOrQuit
  /\ UNCHANGED <<app, posted, delivered, copies, spurious>>

ReportSpuriousWake ==
  /\ spurious
  /\ rpc = "wait"
  /\ rpc' = "woken"
  /\ UNCHANGED <<app, report_thread_status, posted, taken, delivered, copies, spurious>>

(* The thread does not look again whether there is anything to take. *)
ReportWoken ==
  /\ rpc = "woken"
  /\ TakeOrQuit
  /\ UNCHANGED <<app, posted, delivered, copies, spurious>>

(* Mutation: the mailbox is marked empty only after the callback. *)
ReportDeliverThenClear ==
  /\ rpc = "deliver"
  /\ delivered' = taken
  /\ copies' = CASE taken = 0 -> 0
                 [] taken # 0 /\ taken # delivered -> 1
                 [] OTHER -> 2
  /\ rpc' = "loop"
  /\ report_thread_status' = REPORT_STATUS_IDEL
  /\ UNCHANGED <<app, posted, taken, spurious>>

(* iwise_interface_process_loc_event: the application's callback, for an   *)
(* event that has been posted (before the first, event_type selects none)  *)
ReportDeliver ==
  /\ rpc = "deliver"
  /\ delivered' = taken
  /\ copies' = CASE taken = 0 -> 0
                 [] taken # 0 /\ taken # delivered -> 1
                 [] OTHER -> 2
  /\ rpc' = "loop"
  /\ UNCHANGED <<app, report_thread_status, posted, taken, spurious>>

ReportStep == ReportWait \/ ReportBusy \/ ReportWoken \/ ReportDeliver

Next ==
  \/ Open \/ StartFix
  \/ CloseBegin \/ CloseDestroyed \/ CloseSignal
  \/ Post
  \/ ReportStep
  \/ ReportSpuriousWake

Spec == Init /\ [][Next]_vars

(* The report thread is scheduled and the callbacks return; a close that   *)
(* has begun goes on when the middle layer has ended its threads.          *)
FairSpec ==
  /\ Spec
  /\ WF_vars(ReportStep)
  /\ WF_vars(CloseDestroyed)
  /\ WF_vars(CloseSignal)

-----------------------------------------------------------------------------
TypeOK ==
  /\ app \in {"none", "open", "started", "destroying", "destroyed", "joining"}
  /\ report_thread_status \subseteq {1, 2}
  /\ posted \in 0 .. MaxEvents
  /\ rpc \in {"none", "loop", "wait", "woken", "deliver", "ended"}
  /\ taken \in 0 .. MaxEvents
  /\ delivered \in 0 .. MaxEvents
  /\ copies \in 0 .. 2
  /\ spurious \in BOOLEAN

(* No wake-up is lost: the report thread never sleeps on a mailbox that    *)
(* holds an event it has not taken, or on a request to quit.               *)
NoSleepOnEvent == rpc = "wait" => report_thread_status = REPORT_STATUS_IDEL

(* Where waits only end on a signal, the application gets no event twice   *)
(* as long as the driver is open.                                          *)
NoRepeat == ~spurious /\ app # "joining" => copies <= 1

(* The last event posted is delivered: one that is not was overwritten by  *)
(* a later one, never forgotten.                                           *)
LatestDelivered == \A k \in 1 .. MaxEvents : posted = k ~> delivered >= k

(* iwise_close comes back: the report thread it joins ends.                *)
CloseReturns == app = "joining" ~> rpc = "ended"

=============================================================================
