---------------------------- MODULE Controller -----------------------------
(***************************************************************************)
(* The life of eponMgr_controller.c from the moment the HAL may call back  *)
(* to the moment the controller is freed: HAL threads that enqueue events  *)
(* through the callbacks, the main thread that publishes g_controller,     *)
(* runs the event loop and destroys the controller, the SIGINT/SIGTERM     *)
(* handler that requests a shutdown, and the bus threads on which TR-181   *)
(* handlers of the stats poller's parameters use ctrl->mutex.              *)
(*                                                                         *)
(* The signal handler runs on a thread it interrupts, which is suspended   *)
(* where it stands until the handler returns: the main thread, a bus       *)
(* thread, or another thread of a library, of no interest here.            *)
(* ctrl->mutex is a plain mutex.  The event queue is the bounded FIFO that *)
(* module EventQueue implements.                                           *)
(***************************************************************************)
EXTENDS Integers, Sequences, FiniteSets

CONSTANTS HalThread,     \* the HAL threads that invoke the callbacks
          BusThread,     \* the bus library's threads that run TR-181 handlers
          Capacity,      \* of the event queue; 100 in the code
          Batch,         \* events handled per pass of the loop; 50 in the code
          MaxEvents,     \* bound: events one HAL thread raises
          Raisable,      \* bound: the events that may be raised
          SignalPoints,  \* where the main thread may be when one arrives
          Nobody         \* the owner of a free mutex

ASSUME ControllerAssumption ==
    /\ Capacity \in Nat \ {0}
    /\ Batch \in Nat \ {0}
    /\ MaxEvents \in Nat
    /\ Nobody \notin {"main", "handler", "other"}
    /\ BusThread \cap {Nobody, "main", "handler", "other"} = {}

VARIABLES
    mpc,                 \* where the main thread is
    g_controller,        \* the global pointer is set
    shutdown_requested,
    mutex,               \* who holds ctrl->mutex
    queue,               \* the events in ctrl->event_queue
    batched,             \* events handled in this pass of the loop
    hpc,                 \* where each HAL thread is in a callback
    raised,              \* how many events each HAL thread has raised
    spc,                 \* where the signal handler is
    sthread,             \* the thread the handler runs on, "other" when none does
    handled,             \* history: events in the order they were processed
    missed,              \* history: events the code let go, and why
    crashed,             \* a thread dereferenced g_controller when it was NULL
    bpc                  \* where each bus thread is in a handler

halVars == <<hpc, raised>>
signalVars == <<spc, sthread>>
vars == <<mpc, g_controller, shutdown_requested, mutex, queue, batched,
          halVars, signalVars, handled, missed, crashed, bpc>>

MainPoint == {"hal_init", "publish", "reset", "run", "begin", "test", "batch",
              "arm", "wait", "leave", "left", "clear", "rbus_close", "hal_deinit",
              "free", "gone"}
LoopPoint == {"test", "batch", "arm", "wait"}
BusPoint == {"idle", "lock", "in", "relock", "config", "unlock"}

EventOf(t, n) == [src |-> t, seq |-> n]
Event == [src : HalThread, seq : 1 .. MaxEvents]

\* Why the code lets an event go: there is no g_controller yet or any more, the
\* queue is full, the queue is freed.
Loss == {"unpublished", "full", "freed"}

Init ==
    /\ mpc = "hal_init"
    /\ g_controller = FALSE
    /\ shutdown_requested = FALSE
    /\ mutex = Nobody
    /\ queue = <<>>
    /\ batched = 0
    /\ hpc = [t \in HalThread |-> "idle"]
    /\ raised = [t \in HalThread |-> 0]
    /\ spc = "idle" /\ sthread = "other"
    /\ handled = <<>>
    /\ missed = [l \in Loss |-> {}]
    /\ crashed = FALSE
    /\ bpc = [b \in BusThread |-> "idle"]

-----------------------------------------------------------------------------
(***************************************************************************)
(* The HAL callbacks: hal_status_callback, hal_alarm_callback and          *)
(* hal_interface_status_callback differ in the event they build only.      *)
(* g_controller is read again for the push and again for the signal.       *)
(***************************************************************************)
HalRunning == mpc \notin {"hal_init", "free", "gone"}
Latest(t) == EventOf(t, raised[t])

Raise(t) ==
    /\ HalRunning
    /\ hpc[t] = "idle"
    /\ raised[t] < MaxEvents
    /\ EventOf(t, raised[t] + 1) \in Raisable
    /\ raised' = [raised EXCEPT ![t] = @ + 1]
    /\ IF g_controller
         THEN hpc' = [hpc EXCEPT ![t] = "push"] /\ UNCHANGED missed
         ELSE missed' = [missed EXCEPT !["unpublished"] = @ \cup {EventOf(t, raised[t] + 1)}]
              /\ UNCHANGED hpc
    /\ UNCHANGED <<mpc, g_controller, shutdown_requested, mutex, queue, batched,
                   signalVars, handled, crashed, bpc>>

\* Variants with a fault: the queue grows without limit; a full queue loses
\* its oldest event.
PushUnbounded(t) ==
    /\ hpc[t] = "push"
    /\ g_controller
    /\ queue' = Append(queue, Latest(t))
    /\ hpc' = [hpc EXCEPT ![t] = "signal"]
    /\ UNCHANGED <<mpc, g_controller, shutdown_requested, mutex, batched, raised,
                   signalVars, handled, missed, crashed, bpc>>

PushOverOldest(t) ==
    /\ hpc[t] = "push"
    /\ g_controller
    /\ queue' = Append(IF Len(queue) = Capacity THEN Tail(queue) ELSE queue, Latest(t))
    /\ hpc' = [hpc EXCEPT ![t] = "signal"]
    /\ UNCHANGED <<mpc, g_controller, shutdown_requested, mutex, batched, raised,
                   signalVars, handled, missed, crashed, bpc>>

\* eponMgr_queue_push on g_controller->event_queue.
CallbackPush(t) ==
    /\ hpc[t] = "push"
    /\ g_controller
    /\ \/ /\ Len(queue) < Capacity
          /\ queue' = Append(queue, Latest(t))
          /\ hpc' = [hpc EXCEPT ![t] = "signal"]
          /\ UNCHANGED missed
       \/ /\ Len(queue) = Capacity
          /\ missed' = [missed EXCEPT !["full"] = @ \cup {Latest(t)}]
          /\ hpc' = [hpc EXCEPT ![t] = "idle"]
          /\ UNCHANGED queue
    /\ UNCHANGED <<mpc, g_controller, shutdown_requested, mutex, batched, raised,
                   signalVars, handled, crashed, bpc>>

\* pthread_cond_signal without event_mutex: it wakes the main thread when that
\* thread is inside the wait and is lost when it is anywhere else.
WakeMain == mpc' = IF mpc = "wait" THEN "test" ELSE mpc

CallbackSignal(t) ==
    /\ hpc[t] = "signal"
    /\ g_controller
    /\ WakeMain
    /\ hpc' = [hpc EXCEPT ![t] = "idle"]
    /\ UNCHANGED <<g_controller, shutdown_requested, mutex, queue, batched, raised,
                   signalVars, handled, missed, crashed, bpc>>

-----------------------------------------------------------------------------
(***************************************************************************)
(* The main thread.                                                        *)
(***************************************************************************)
Suspended(t) == spc # "idle" /\ sthread = t
MainAt(p) == mpc = p /\ ~Suspended("main")

\* eponMgr_data_hal_init registers the callbacks: from here on they may come.
HalInit ==
    /\ MainAt("hal_init")
    /\ mpc' = "publish"
    /\ UNCHANGED <<g_controller, shutdown_requested, mutex, queue, batched,
                   halVars, signalVars, handled, missed, crashed, bpc>>

\* The version check, the stats poller and the TR-181 registration come first.
Publish ==
    /\ MainAt("publish")
    /\ g_controller' = TRUE
    /\ mpc' = "reset"
    /\ UNCHANGED <<shutdown_requested, mutex, queue, batched,
                   halVars, signalVars, handled, missed, crashed, bpc>>

ResetFlags ==
    /\ MainAt("reset")
    /\ shutdown_requested' = FALSE
    /\ mpc' = "run"
    /\ UNCHANGED <<g_controller, mutex, queue, batched,
                   halVars, signalVars, handled, missed, crashed, bpc>>

\* eponMgr_controller_run, entered once: it locks ctrl->mutex ...
RunLock ==
    /\ MainAt("run")
    /\ mutex = Nobody
    /\ mutex' = "main"
    /\ mpc' = "begin"
    /\ UNCHANGED <<g_controller, shutdown_requested, queue, batched,
                   halVars, signalVars, handled, missed, crashed, bpc>>

\* ... and clears the flag again before it unlocks.
RunBegin ==
    /\ MainAt("begin")
    /\ shutdown_requested' = FALSE
    /\ mutex' = Nobody
    /\ mpc' = "test"
    /\ UNCHANGED <<g_controller, queue, batched,
                   halVars, signalVars, handled, missed, crashed, bpc>>

LoopTest ==
    /\ MainAt("test")
    /\ mpc' = IF shutdown_requested THEN "leave" ELSE "batch"
    /\ batched' = 0
    /\ UNCHANGED <<g_controller, shutdown_requested, mutex, queue,
                   halVars, signalVars, handled, missed, crashed, bpc>>

\* Variant with a fault: the newest event is taken first.
ProcessNewest ==
    /\ MainAt("batch")
    /\ queue # <<>>
    /\ queue' = SubSeq(queue, 1, Len(queue) - 1)
    /\ handled' = Append(handled, queue[Len(queue)])
    /\ batched' = batched + 1
    /\ mpc' = IF batched + 1 >= Batch THEN "arm" ELSE "batch"
    /\ UNCHANGED <<g_controller, shutdown_requested, mutex,
                   halVars, signalVars, missed, crashed, bpc>>

\* process_one_event, and the limit on how many events one pass handles.
ProcessOne ==
    /\ MainAt("batch")
    /\ queue # <<>>
    /\ queue' = Tail(queue)
    /\ handled' = Append(handled, Head(queue))
    /\ batched' = batched + 1
    /\ mpc' = IF batched + 1 >= Batch THEN "arm" ELSE "batch"
    /\ UNCHANGED <<g_controller, shutdown_requested, mutex,
                   halVars, signalVars, missed, crashed, bpc>>

QueueDrained ==
    /\ MainAt("batch")
    /\ queue = <<>>
    /\ mpc' = "arm"
    /\ UNCHANGED <<g_controller, shutdown_requested, mutex, queue, batched,
                   halVars, signalVars, handled, missed, crashed, bpc>>

\* The deadline is computed and event_mutex taken; nothing is checked again.
BeginWait ==
    /\ MainAt("arm")
    /\ mpc' = "wait"
    /\ UNCHANGED <<g_controller, shutdown_requested, mutex, queue, batched,
                   halVars, signalVars, handled, missed, crashed, bpc>>

\* Variant with a fault: pthread_cond_wait, which no timeout ends.
WaitForever == MainAt("wait") /\ FALSE /\ UNCHANGED vars

\* The 500 ms of pthread_cond_timedwait are over.
WaitTimeout ==
    /\ MainAt("wait")
    /\ mpc' = "test"
    /\ UNCHANGED <<g_controller, shutdown_requested, mutex, queue, batched,
                   halVars, signalVars, handled, missed, crashed, bpc>>

\* The end of eponMgr_controller_run locks ctrl->mutex to clear running.
LeaveLock ==
    /\ MainAt("leave")
    /\ mutex = Nobody
    /\ mutex' = "main"
    /\ mpc' = "left"
    /\ UNCHANGED <<g_controller, shutdown_requested, queue, batched,
                   halVars, signalVars, handled, missed, crashed, bpc>>

LeaveUnlock ==
    /\ MainAt("left")
    /\ mutex' = Nobody
    /\ mpc' = "clear"
    /\ UNCHANGED <<g_controller, shutdown_requested, queue, batched,
                   halVars, signalVars, handled, missed, crashed, bpc>>

-----------------------------------------------------------------------------
(***************************************************************************)
(* eponMgr_controller_destroy: the global pointer first, then the bus      *)
(* (rbus_close returns when no handler runs any more), the HAL             *)
(* (epon_hal_deinit returns when its threads have left their callbacks),   *)
(* the queue and the controller last.                                      *)
(***************************************************************************)
ClearGlobal ==
    /\ MainAt("clear")
    /\ g_controller' = FALSE
    /\ mpc' = "rbus_close"
    /\ UNCHANGED <<shutdown_requested, mutex, queue, batched,
                   halVars, signalVars, handled, missed, crashed, bpc>>

RbusClose ==
    /\ MainAt("rbus_close")
    /\ \A b \in BusThread : bpc[b] = "idle"
    /\ mpc' = "hal_deinit"
    /\ UNCHANGED <<g_controller, shutdown_requested, mutex, queue, batched,
                   halVars, signalVars, handled, missed, crashed, bpc>>

\* Variant with a fault: the HAL's threads are not waited for.
HalDeinitAtOnce ==
    /\ MainAt("hal_deinit")
    /\ mpc' = "free"
    /\ UNCHANGED <<g_controller, shutdown_requested, mutex, queue, batched,
                   halVars, signalVars, handled, missed, crashed, bpc>>

HalDeinit ==
    /\ MainAt("hal_deinit")
    /\ \A t \in HalThread : hpc[t] = "idle"
    /\ mpc' = "free"
    /\ UNCHANGED <<g_controller, shutdown_requested, mutex, queue, batched,
                   halVars, signalVars, handled, missed, crashed, bpc>>

FreeQueue ==
    /\ MainAt("free")
    /\ queue' = <<>>
    /\ missed' = [missed EXCEPT !["freed"] = {queue[i] : i \in DOMAIN queue}]
    /\ mpc' = "gone"
    /\ UNCHANGED <<g_controller, shutdown_requested, mutex, batched,
                   halVars, signalVars, handled, crashed, bpc>>

-----------------------------------------------------------------------------
(***************************************************************************)
(* signal_handler and eponMgr_controller_shutdown, which does nothing      *)
(* without g_controller.                                                   *)
(***************************************************************************)
Deliver(w) ==
    /\ spc = "idle"
    /\ mpc \in SignalPoints
    /\ g_controller
    /\ sthread' = w
    /\ spc' = "lock"
    /\ UNCHANGED <<mpc, g_controller, shutdown_requested, mutex, queue, batched,
                   halVars, handled, missed, crashed, bpc>>

ShutdownLock ==
    /\ spc = "lock"
    /\ g_controller
    /\ mutex = Nobody
    /\ mutex' = "handler"
    /\ spc' = "set"
    /\ UNCHANGED <<mpc, g_controller, shutdown_requested, queue, batched,
                   halVars, sthread, handled, missed, crashed, bpc>>

\* Variant with a fault: the early return of a second request keeps the mutex.
ShutdownSetKeepsMutex ==
    /\ spc = "set"
    /\ g_controller
    /\ shutdown_requested' = TRUE
    /\ mutex' = IF shutdown_requested THEN mutex ELSE Nobody
    /\ spc' = IF shutdown_requested THEN "idle" ELSE "wake"
    /\ sthread' = IF shutdown_requested THEN "other" ELSE sthread
    /\ UNCHANGED <<mpc, g_controller, queue, batched,
                   halVars, handled, missed, crashed, bpc>>

ShutdownSet ==
    /\ spc = "set"
    /\ g_controller
    /\ shutdown_requested' = TRUE
    /\ mutex' = Nobody
    /\ spc' = IF shutdown_requested THEN "idle" ELSE "wake"
    /\ sthread' = IF shutdown_requested THEN "other" ELSE sthread
    /\ UNCHANGED <<mpc, g_controller, queue, batched,
                   halVars, handled, missed, crashed, bpc>>

ShutdownWake ==
    /\ spc = "wake"
    /\ g_controller
    /\ WakeMain
    /\ spc' = "idle"
    /\ sthread' = "other"
    /\ UNCHANGED <<g_controller, shutdown_requested, mutex, queue, batched,
                   halVars, handled, missed, crashed, bpc>>

-----------------------------------------------------------------------------
(***************************************************************************)
(* The TR-181 handlers of the poller's parameters, as far as ctrl->mutex   *)
(* goes.  A GET locks it, reads the configuration and unlocks it.  A SET   *)
(* locks it to get at the poller; set_enabled and set_interval lock it a   *)
(* second time around the configuration, on the same thread.  Unlocking    *)
(* does nothing once g_controller is NULL, and frees the mutex whoever     *)
(* owns it when it is not.                                                 *)
(***************************************************************************)
outsideBus == <<mpc, g_controller, shutdown_requested, queue, batched,
                halVars, signalVars, handled, missed, crashed>>

\* eponMgr_rbus_register_tr181 comes before g_controller is published, rbus_close
\* after it is cleared.
BusOpen == mpc \notin {"hal_init", "hal_deinit", "free", "gone"}

BusAt(b, p) == bpc[b] = p /\ ~Suspended(b)
GoTo(b, p) == bpc' = [bpc EXCEPT ![b] = p]

\* The first test of g_controller.  A GET that finds it NULL unlocks nevertheless;
\* a SET returns an error.
Receive(b) ==
    /\ BusOpen
    /\ BusAt(b, "idle")
    /\ IF g_controller THEN GoTo(b, "lock") ELSE GoTo(b, "unlock")
    /\ UNCHANGED <<mutex, outsideBus>>

BusLock(b) ==
    /\ BusAt(b, "lock")
    /\ g_controller
    /\ mutex = Nobody
    /\ mutex' = b
    /\ GoTo(b, "in")
    /\ UNCHANGED outsideBus

\* A SET that was not refused has changed the poller and asks for the configuration;
\* without g_controller it gets none and goes on to the unlock.
BusSetConfig(b) ==
    /\ BusAt(b, "in")
    /\ g_controller
    /\ GoTo(b, "relock")
    /\ UNCHANGED <<mutex, outsideBus>>

\* The second lock of a SET: its own thread owns the mutex, unless a GET unlocked it.
BusRelock(b) ==
    /\ BusAt(b, "relock")
    /\ g_controller
    /\ mutex = Nobody
    /\ mutex' = b
    /\ GoTo(b, "config")
    /\ UNCHANGED outsideBus

\* eponMgr_controller_unlock_persistence_config and ..._unlock_stats_poller.
BusUnlock(b) ==
    /\ \E p \in {"in", "config", "unlock"} : BusAt(b, p)
    /\ mutex' = IF g_controller THEN Nobody ELSE mutex
    /\ GoTo(b, IF bpc[b] = "config" THEN "unlock" ELSE "idle")
    /\ UNCHANGED outsideBus

\* A callback or a handler that passed its NULL test and finds g_controller
\* cleared at the next read dereferences NULL; the process dies there.
NullDereference ==
    /\ ~g_controller
    /\ \/ \E t \in HalThread : hpc[t] # "idle"
       \/ spc # "idle"
       \/ \E b \in BusThread : bpc[b] \in {"lock", "relock"}
    /\ crashed' = TRUE
    /\ UNCHANGED <<mpc, g_controller, shutdown_requested, mutex, queue, batched,
                   halVars, signalVars, handled, missed, bpc>>

-----------------------------------------------------------------------------
Hal(t) == Raise(t) \/ CallbackPush(t) \/ CallbackSignal(t)

Main ==
    \/ HalInit \/ Publish \/ ResetFlags \/ RunLock \/ RunBegin
    \/ LoopTest \/ ProcessOne \/ QueueDrained \/ BeginWait \/ WaitTimeout
    \/ LeaveLock \/ LeaveUnlock \/ ClearGlobal \/ RbusClose \/ HalDeinit \/ FreeQueue

BusHandler(b) ==
    BusLock(b) \/ BusSetConfig(b) \/ BusRelock(b) \/ BusUnlock(b)
Bus(b) == Receive(b) \/ BusHandler(b)

Interrupted == {"main", "other"} \cup BusThread
Handler == ShutdownLock \/ ShutdownSet \/ ShutdownWake

Next ==
    /\ ~crashed
    /\ \/ \E t \in HalThread : Hal(t)
       \/ Main
       \/ \E w \in Interrupted : Deliver(w)
       \/ Handler
       \/ \E b \in BusThread : Bus(b)
       \/ NullDereference

Spec == Init /\ [][Next]_vars

(***************************************************************************)
(* The scheduler runs every thread that can run.  A timed wait ends after  *)
(* 500 ms at the latest, which the fairness of Main includes.  Neither the *)
(* HAL nor the bus nor a user has to raise anything, so Raise, Receive and *)
(* Deliver are not fair.  The main thread and the signal handler get       *)
(* ctrl->mutex if it is free again and again, which is what strong         *)
(* fairness says: requests of the bus do not follow each other so closely  *)
(* that the mutex is never free when the waiting thread is woken.          *)
(***************************************************************************)
Fairness ==
    /\ SF_vars(~crashed /\ Main)
    /\ SF_vars(~crashed /\ Handler)
    /\ \A b \in BusThread : WF_vars(~crashed /\ BusHandler(b))

FairSpec == Spec /\ Fairness

-----------------------------------------------------------------------------
InQueue(e) == \E i \in DOMAIN queue : queue[i] = e
WasHandled(e) == \E i \in DOMAIN handled : handled[i] = e
RunReturned == mpc \in {"clear", "rbus_close", "hal_deinit", "free", "gone"}

\* The state stays within its types; the queue never exceeds its capacity.
TypeOK ==
    /\ mpc \in MainPoint
    /\ g_controller \in BOOLEAN /\ shutdown_requested \in BOOLEAN
    /\ mutex \in {Nobody, "main", "handler"} \cup BusThread
    /\ queue \in Seq(Event) /\ Len(queue) <= Capacity
    /\ batched \in 0 .. Batch
    /\ hpc \in [HalThread -> {"idle", "push", "signal"}]
    /\ raised \in [HalThread -> 0 .. MaxEvents]
    /\ spc \in {"idle", "lock", "set", "wake"}
    /\ sthread \in Interrupted
    /\ handled \in Seq(Event)
    /\ missed \in [Loss -> SUBSET Event]
    /\ crashed \in BOOLEAN
    /\ bpc \in [BusThread -> BusPoint]

\* Each event a callback was entered with is at exactly one place: it is still
\* being pushed, queued, processed, or was let go for one of the three reasons
\* the code has (no g_controller, queue full, queue freed).
EachEventInOnePlace ==
    \A t \in HalThread : \A n \in 1 .. raised[t] :
        LET e == EventOf(t, n)
            places == {p \in {"pushing", "queued", "handled"} \cup Loss :
                         CASE p = "pushing" -> hpc[t] = "push" /\ n = raised[t]
                           [] p = "queued"  -> InQueue(e)
                           [] p = "handled" -> WasHandled(e)
                           [] OTHER -> e \in missed[p]}
        IN  Cardinality(places) = 1

\* eponMgr_controller_destroy frees the queue and the controller only when no
\* callback is still using them.
NoCallbackOutlivesQueue ==
    mpc = "gone" => \A t \in HalThread : hpc[t] = "idle"

Delivery == INSTANCE EventDelivery WITH
                Source <- HalThread,
                sent <- raised,
                delivered <- handled,
                lost <- UNION {missed[l] : l \in Loss}

\* Callbacks, queue and event loop together deliver events as EventDelivery
\* promises: whatever is overtaken has been given up, for one of the reasons the
\* code has, and what has been given up is never handled after all.
ImplementsDelivery == Delivery!DeliverySpec

\* The signal handler interrupted the thread that holds ctrl->mutex: each waits for
\* the other for good.
HandlerBlocksItself == spc = "lock" /\ mutex = sthread

\* A SET waits for the ctrl->mutex that its own thread owns.
SetBlocksItself == \E b \in BusThread : mutex = b /\ bpc[b] = "relock"

\* The main thread, or the handler that interrupted it, waits for ctrl->mutex.
MainWantsMutex == mpc \in {"run", "leave"} \/ (spc = "lock" /\ sthread = "main")

\* What the code lets stop the main thread for good: it wants ctrl->mutex, which a
\* thread keeps that blocks itself, or a NULL pointer ended the process.
MainStops == (MainWantsMutex /\ (HandlerBlocksItself \/ SetBlocksItself)) \/ crashed

\* A queued event is processed unless a shutdown is requested, although the
\* wakeup may be lost and a pass of the loop handles only Batch events.  What can
\* prevent it is MainStops: not a SET that keeps ctrl->mutex while the main thread
\* goes on without it, and not a GET that unlocks the mutex for its owner.
QueuedEventIsHandled ==
    \A e \in Event :
        InQueue(e) ~> (WasHandled(e) \/ shutdown_requested \/ MainStops)

\* A request that stands when the main thread is in its event loop ends
\* eponMgr_controller_run: the loop is left, ctrl->mutex locked once more and
\* released.  What can prevent it is MainStops: a thread that blocked itself, a SET
\* included, before the main thread, or a handler on it, got ctrl->mutex.
RequestInLoopEndsRun ==
    (shutdown_requested /\ mpc \in LoopPoint) ~> (RunReturned \/ MainStops)

\* Once eponMgr_controller_shutdown has set its flag, eponMgr_controller_run
\* returns, wherever the main thread was.
ShutdownEndsRun == spc = "wake" ~> RunReturned
=============================================================================
