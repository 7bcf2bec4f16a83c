----------------------------- MODULE Lifecycle ------------------------------
(***************************************************************************)
(* The life of the process, from main() to its exit: what                  *)
(* eponMgr_controller_init brings up, step by step, what its error path    *)
(* leaves behind, what eponMgr_controller_destroy takes down and in which  *)
(* order, beside the threads that use it: TR-181 handlers on bus threads,  *)
(* HAL callbacks, the poller.  Telemetry, the bus connection and the two   *)
(* global pointers are modelled here; the work done between start and stop *)
(* is in the other modules.                                                *)
(***************************************************************************)
EXTENDS Integers, Sequences

CONSTANTS BusThread,   \* the threads on which the bus library runs handlers
          Setter,      \* bound: those on which a SET of the poller arrives
          HalThread,   \* the threads on which the HAL runs callbacks
          Nobody       \* the owner of a free mutex

Thread == {"main", "poller"} \cup BusThread \cup HalThread

ASSUME LifecycleAssumption ==
    /\ BusThread \cap HalThread = {}
    /\ {"main", "poller"} \cap (BusThread \cup HalThread) = {}
    /\ Nobody \notin Thread
    /\ Setter \subseteq BusThread

VARIABLES
    pc,             \* where each thread is
    object,         \* what has been allocated, and freed
    g_controller, g_eponData, g_rbus_handle,   \* the global pointers are set
    bus,            \* the connection to the bus is open
    served,         \* the TR-181 elements are registered
    hal,            \* the HAL is initialised
    initialized,    \* g_state.initialized of the telemetry module
    t2,             \* the telemetry library is initialised
    dataMutex, ctrlMutex,   \* who holds eponData->mutex and ctrl->mutex
    stopping,       \* poller->shutdown_requested
    sent,           \* history: the markers main() has raised
    crashed         \* a thread dereferenced a global pointer that was NULL

globals == <<g_controller, g_eponData, g_rbus_handle>>
outside == <<bus, served, hal>>
telemetry == <<initialized, t2>>
mutexes == <<dataMutex, ctrlMutex>>
vars == <<pc, object, globals, outside, telemetry, mutexes, stopping, sent, crashed>>

Object == {"ctrl", "config", "queue", "data", "poller"}

BringUp == {"start", "t2_init", "alloc", "rbus", "config", "queue", "data", "hal",
            "wrong_mode", "version", "poller", "register", "sync", "publish",
            "success", "run", "begin", "start_poller"}
TakeDown == {"leave", "left", "stopped", "clear", "unregister", "bus_close", "stop",
             "join", "free_poller", "hal_deinit", "clear_data", "free_data",
             "free_queue", "free_ctrl"}
MainPoint == BringUp \cup {"loop"} \cup TakeDown
             \cup {"error", "failure", "cleanup", "t2_uninit", "exit"}
SetPoint == {"set_lock", "set_wait", "in_set", "set_join", "set_config", "set_relock",
             "set_rewait", "in_save", "set_free", "set_end", "set_unlock"}
BusPoint == {"idle", "data_lock", "data_wait", "in_data", "data_unlock",
             "get_lock", "get_wait", "in_config", "get_unlock", "mark", "send"}
            \cup SetPoint
HalPoint == {"idle", "push", "signal", "mark", "send"}
PollerPoint == {"none", "created", "collect", "fill", "sync", "sync_lock", "in_sync",
                "mark", "send", "sleep", "ended"}

Init ==
    /\ pc = [t \in Thread |-> CASE t = "main" -> "start"
                                [] t = "poller" -> "none"
                                [] OTHER -> "idle"]
    /\ object = [o \in Object |-> "none"]
    /\ g_controller = FALSE /\ g_eponData = FALSE /\ g_rbus_handle = FALSE
    /\ bus = FALSE /\ served = FALSE /\ hal = FALSE
    /\ initialized = FALSE /\ t2 = FALSE
    /\ dataMutex = Nobody /\ ctrlMutex = Nobody
    /\ stopping = FALSE
    /\ sent = <<>>
    /\ crashed = FALSE

Moves(t, p, q) == pc[t] = p /\ pc' = [pc EXCEPT ![t] = q]
Main(p, q) == Moves("main", p, q)
Frees(S) == object' = [o \in Object |-> IF o \in S /\ object[o] = "live"
                                          THEN "freed" ELSE object[o]]

-----------------------------------------------------------------------------
(***************************************************************************)
(* main() and eponMgr_controller_init.                                     *)
(***************************************************************************)
\* eponMgr_telemetry_init sets its flag first and opens the library after.
TelemetryInit ==
    /\ Main("start", "t2_init")
    /\ initialized' = TRUE
    /\ UNCHANGED <<object, globals, outside, t2, mutexes, stopping, sent, crashed>>

T2Init ==
    /\ Main("t2_init", "alloc")
    /\ t2' = TRUE
    /\ UNCHANGED <<object, globals, outside, initialized, mutexes, stopping, sent, crashed>>

\* A step of init that allocates object o (and sets it up).
Allocates(p, o, q) ==
    /\ Main(p, q)
    /\ object' = [object EXCEPT ![o] = "live"]
    /\ UNCHANGED <<globals, outside, telemetry, mutexes, stopping, sent, crashed>>

\* Variant with a fault: the controller is published before it is complete.
AllocPublishes ==
    /\ Main("alloc", "rbus")
    /\ object' = [object EXCEPT !["ctrl"] = "live"]
    /\ g_controller' = TRUE
    /\ UNCHANGED <<g_eponData, g_rbus_handle, outside, telemetry, mutexes,
                   stopping, sent, crashed>>

AllocController == Allocates("alloc", "ctrl", "rbus")
LoadConfig      == Allocates("config", "config", "queue")
InitQueue       == Allocates("queue", "queue", "data")
InitPoller      == Allocates("poller", "poller", "register")

OpenBus ==
    /\ Main("rbus", "config")
    /\ bus' = TRUE
    /\ UNCHANGED <<object, globals, served, hal, telemetry, mutexes, stopping, sent, crashed>>

\* eponMgr_data_init publishes the context it is given.
InitData ==
    /\ Main("data", "hal")
    /\ object' = [object EXCEPT !["data"] = "live"]
    /\ g_eponData' = TRUE
    /\ UNCHANGED <<g_controller, g_rbus_handle, outside, telemetry, mutexes,
                   stopping, sent, crashed>>

\* eponMgr_data_hal_init, under the data mutex nobody else can hold yet.
InitHal ==
    /\ Main("hal", "version")
    /\ hal' = TRUE
    /\ UNCHANGED <<object, globals, bus, served, telemetry, mutexes, stopping, sent, crashed>>

CheckVersion ==
    /\ Main("version", "poller")
    /\ UNCHANGED <<object, globals, outside, telemetry, mutexes, stopping, sent, crashed>>

\* eponMgr_tr181_init keeps the handle, then registers the elements ...
RegisterTr181 ==
    /\ Main("register", "sync")
    /\ g_rbus_handle' = TRUE
    /\ served' = TRUE
    /\ UNCHANGED <<object, g_controller, g_eponData, bus, hal, telemetry, mutexes,
                   stopping, sent, crashed>>

RegisterFails ==
    /\ Main("register", "error")
    /\ g_rbus_handle' = TRUE
    /\ UNCHANGED <<object, g_controller, g_eponData, outside, telemetry, mutexes,
                   stopping, sent, crashed>>

\* Variant with a fault: the data mutex is not released.
SyncTablesKeepsMutex ==
    /\ Main("sync", "publish")
    /\ dataMutex = Nobody
    /\ dataMutex' = "main"
    /\ UNCHANGED <<object, globals, outside, telemetry, ctrlMutex, stopping, sent, crashed>>

\* ... and registers the rows known so far under the data mutex.
SyncTables ==
    /\ Main("sync", "publish")
    /\ dataMutex = Nobody
    /\ UNCHANGED <<object, globals, outside, telemetry, mutexes, stopping, sent, crashed>>

Publish ==
    /\ Main("publish", "success")
    /\ g_controller' = TRUE
    /\ UNCHANGED <<object, g_eponData, g_rbus_handle, outside, telemetry, mutexes,
                   stopping, sent, crashed>>

\* The steps that fail with nothing to undo but what came before.
StepFails ==
    /\ \/ Main("alloc", "failure")
       \/ \E p \in {"rbus", "config", "queue", "data", "version", "poller"} : Main(p, "error")
       \/ Main("hal", "wrong_mode")
    /\ UNCHANGED <<object, globals, outside, telemetry, mutexes, stopping, sent, crashed>>

\* Variant with a fault: the error path ends telemetry too early.
ErrorPathEndsTelemetry ==
    /\ Main("error", "failure")
    /\ Frees({"poller", "config", "ctrl"})
    /\ initialized' = FALSE
    /\ UNCHANGED <<globals, outside, t2, mutexes, stopping, sent, crashed>>

\* The label error frees poller, configuration and controller.  The bus, the
\* HAL, the queue and the data context, with g_eponData, stay as they are.
ErrorPath ==
    /\ Main("error", "failure")
    /\ Frees({"poller", "config", "ctrl"})
    /\ UNCHANGED <<globals, outside, telemetry, mutexes, stopping, sent, crashed>>

\* A marker raised by main(): dispatch drops it when not initialised.
Marks(p, marker, q) ==
    /\ Main(p, q)
    /\ sent' = IF initialized THEN Append(sent, marker) ELSE sent
    /\ UNCHANGED <<object, globals, outside, telemetry, mutexes, stopping, crashed>>

RaiseHalFailed == Marks("wrong_mode", "HAL_FAILED", "error")
RaiseFailure   == Marks("failure", "INIT_FAILURE", "cleanup")
RaiseSuccess   == Marks("success", "INIT_SUCCESS", "run")
RaiseShutdown  == Marks("stopped", "SHUTDOWN", "clear")

-----------------------------------------------------------------------------
(***************************************************************************)
(* eponMgr_controller_run; its loop is in module Controller.               *)
(***************************************************************************)
MainLocks(p, q) ==
    /\ Main(p, q)
    /\ ctrlMutex = Nobody
    /\ ctrlMutex' = "main"
    /\ UNCHANGED <<object, globals, outside, telemetry, dataMutex, stopping, sent, crashed>>

MainUnlocks(p, q) ==
    /\ Main(p, q)
    /\ ctrlMutex' = Nobody
    /\ UNCHANGED <<object, globals, outside, telemetry, dataMutex, stopping, sent, crashed>>

RunLock     == MainLocks("run", "begin")
RunBegin    == MainUnlocks("begin", "start_poller")
LeaveLock   == MainLocks("leave", "left")
LeaveUnlock == MainUnlocks("left", "stopped")

\* A thread started beside one that has not set running yet, or before the join
\* of the last one has returned, is not followed here; see StatsPoller.
CanStart == /\ pc["poller"] \in {"none", "ended"}
            /\ \A b \in BusThread : pc[b] # "set_join"

\* eponMgr_stats_poller_start, called by thread t, which goes on to q.
StartsPoller(t, q) ==
    /\ CanStart
    /\ pc' = [pc EXCEPT ![t] = q, !["poller"] = "created"]
    /\ stopping' = FALSE
    /\ UNCHANGED <<object, globals, outside, telemetry, mutexes, sent, crashed>>

\* The poller's thread is created when the configuration enables it.
StartPoller ==
    /\ pc["main"] = "start_poller"
    /\ \/ StartsPoller("main", "loop")
       \/ /\ Main("start_poller", "loop")
          /\ UNCHANGED <<object, globals, outside, telemetry, mutexes, stopping, sent, crashed>>

ShutdownRequested ==
    /\ Main("loop", "leave")
    /\ UNCHANGED <<object, globals, outside, telemetry, mutexes, stopping, sent, crashed>>

-----------------------------------------------------------------------------
(***************************************************************************)
(* eponMgr_controller_destroy and the end of main().                       *)
(***************************************************************************)
\* Variant with a fault: both global pointers are cleared first.
ClearBoth ==
    /\ Main("clear", "unregister")
    /\ g_controller' = FALSE
    /\ g_eponData' = FALSE
    /\ UNCHANGED <<object, g_rbus_handle, outside, telemetry, mutexes,
                   stopping, sent, crashed>>

ClearController ==
    /\ Main("clear", "unregister")
    /\ g_controller' = FALSE
    /\ UNCHANGED <<object, g_eponData, g_rbus_handle, outside, telemetry, mutexes,
                   stopping, sent, crashed>>

\* eponMgr_tr181_cleanup: the elements go, then its copy of the handle.
UnregisterTr181 ==
    /\ Main("unregister", "bus_close")
    /\ served' = FALSE
    /\ g_rbus_handle' = FALSE
    /\ UNCHANGED <<object, g_controller, g_eponData, bus, hal, telemetry, mutexes,
                   stopping, sent, crashed>>

\* rbus_close is taken to return when the library's threads have ended.
CloseBus ==
    /\ Main("bus_close", "stop")
    /\ \A b \in BusThread : pc[b] = "idle"
    /\ bus' = FALSE
    /\ UNCHANGED <<object, globals, served, hal, telemetry, mutexes, stopping, sent, crashed>>

\* eponMgr_stats_poller_stop returns at once when running is not set: there is
\* no thread, or it has not got to its first lines yet.
PollerRuns == pc["poller"] \notin {"none", "created", "ended"}

\* Variant with a fault: the request to stop is not made.
StopUnasked ==
    /\ PollerRuns
    /\ Main("stop", "join")
    /\ UNCHANGED <<object, globals, outside, telemetry, mutexes, stopping, sent, crashed>>

StopPoller ==
    /\ PollerRuns
    /\ Main("stop", "join")
    /\ stopping' = TRUE
    /\ UNCHANGED <<object, globals, outside, telemetry, mutexes, sent, crashed>>

StopIdlePoller ==
    /\ ~PollerRuns
    /\ Main("stop", "free_poller")
    /\ UNCHANGED <<object, globals, outside, telemetry, mutexes, stopping, sent, crashed>>

\* Variant with a fault: the thread is asked to stop and not waited for.
DetachPoller ==
    /\ Main("join", "free_poller")
    /\ UNCHANGED <<object, globals, outside, telemetry, mutexes, stopping, sent, crashed>>

JoinPoller ==
    /\ Main("join", "free_poller")
    /\ pc["poller"] = "ended"
    /\ UNCHANGED <<object, globals, outside, telemetry, mutexes, stopping, sent, crashed>>

FreesThen(p, S, q) ==
    /\ Main(p, q)
    /\ Frees(S)
    /\ UNCHANGED <<globals, outside, telemetry, mutexes, stopping, sent, crashed>>

FreePoller     == FreesThen("free_poller", {"poller"}, "hal_deinit")
FreeQueue      == FreesThen("free_queue", {"queue"}, "free_ctrl")
FreeController == FreesThen("free_ctrl", {"config", "ctrl"}, "cleanup")

\* epon_hal_deinit is taken to return when the HAL's threads have ended.
DeinitHal ==
    /\ Main("hal_deinit", "clear_data")
    /\ \A h \in HalThread : pc[h] = "idle"
    /\ hal' = FALSE
    /\ UNCHANGED <<object, globals, bus, served, telemetry, mutexes, stopping, sent, crashed>>

\* eponMgr_data_destroy clears the global pointer without the mutex ...
ClearData ==
    /\ Main("clear_data", "free_data")
    /\ g_eponData' = FALSE
    /\ UNCHANGED <<object, g_controller, g_rbus_handle, outside, telemetry, mutexes,
                   stopping, sent, crashed>>

\* ... and takes it to free the context.
FreeData == dataMutex = Nobody /\ FreesThen("free_data", {"data"}, "free_queue")

\* eponMgr_telemetry_cleanup, in the order of eponMgr_telemetry_init.
TelemetryCleanup ==
    /\ Main("cleanup", "t2_uninit")
    /\ initialized' = FALSE
    /\ UNCHANGED <<object, globals, outside, t2, mutexes, stopping, sent, crashed>>

T2Uninit ==
    /\ Main("t2_uninit", "exit")
    /\ t2' = FALSE
    /\ UNCHANGED <<object, globals, outside, initialized, mutexes, stopping, sent, crashed>>

-----------------------------------------------------------------------------
(***************************************************************************)
(* What every thread does: raise a marker, fail.                           *)
(***************************************************************************)
Steps(t, p, q) ==
    /\ Moves(t, p, q)
    /\ UNCHANGED <<object, globals, outside, telemetry, mutexes, stopping, sent, crashed>>

\* dispatch reads the flag under its mutex and sends after it has unlocked.
Dispatch(t, after) ==
    \/ Steps(t, "mark", IF initialized THEN "send" ELSE after)
    \/ Steps(t, "send", after)

Crashes(t, p) ==
    /\ pc[t] = p
    /\ crashed' = TRUE
    /\ UNCHANGED <<pc, object, globals, outside, telemetry, mutexes, stopping, sent>>

-----------------------------------------------------------------------------
(***************************************************************************)
(* A bus thread runs a handler: one that works on the data context (GET of *)
(* a parameter, Reset, FactoryReset, which raise a marker), the GET of the *)
(* poller's configuration or the SET of it.  Each global pointer is tested *)
(* and then read again.                                                    *)
(***************************************************************************)
HandlerStarts(b) ==
    /\ served
    /\ \/ Steps(b, "idle", IF g_eponData THEN "data_lock" ELSE "idle")
       \/ Steps(b, "idle", IF g_controller THEN "get_lock" ELSE "get_unlock")
       \/ b \in Setter /\ g_controller /\ Steps(b, "idle", "set_lock")
       \/ g_eponData /\ Steps(b, "idle", "mark")

DataLock(b) == g_eponData /\ Steps(b, "data_lock", "data_wait")

DataLocked(b) ==
    /\ Moves(b, "data_wait", "in_data")
    /\ dataMutex = Nobody
    /\ dataMutex' = b
    /\ UNCHANGED <<object, globals, outside, telemetry, ctrlMutex, stopping, sent, crashed>>

\* The global pointer is read once more to return it; under the mutex the handler
\* reads entries, asks the HAL and registers rows.
DataWork(b) == g_eponData /\ Steps(b, "in_data", "data_unlock")

\* eponMgr_data_unlock does nothing once the global pointer is cleared.
DataUnlock(b) ==
    /\ Moves(b, "data_unlock", "idle")
    /\ dataMutex' = IF g_eponData THEN Nobody ELSE dataMutex
    /\ UNCHANGED <<object, globals, outside, telemetry, ctrlMutex, stopping, sent, crashed>>

\* Lock and unlock of ctrl->mutex: the unlock does nothing once g_controller is
\* cleared, and frees the mutex of whoever has it before.
CtrlLocked(b, p, q) ==
    /\ Moves(b, p, q)
    /\ ctrlMutex = Nobody
    /\ ctrlMutex' = b
    /\ UNCHANGED <<object, globals, outside, telemetry, dataMutex, stopping, sent, crashed>>

CtrlUnlocked(b, p, q) ==
    /\ Moves(b, p, q)
    /\ ctrlMutex' = IF g_controller THEN Nobody ELSE ctrlMutex
    /\ UNCHANGED <<object, globals, outside, telemetry, dataMutex, stopping, sent, crashed>>

GetLock(b) == g_controller /\ Steps(b, "get_lock", "get_wait")

GetLocked(b) == CtrlLocked(b, "get_wait", "in_config")

\* g_controller->config is read to return it, after the lock.
GetRead(b) == g_controller /\ Steps(b, "in_config", "get_unlock")

\* The GET unlocks even when its lock call found no controller.
GetUnlock(b) == CtrlUnlocked(b, "get_unlock", "idle")

\* eponMgr_controller_get_stats_poller: the SET holds ctrl->mutex to its end.
SetLock(b) == g_controller /\ Steps(b, "set_lock", "set_wait")

SetLocked(b) == CtrlLocked(b, "set_wait", "in_set")

\* A value is refused, a running thread is stopped first, or the setter is called.
SetBegin(b) ==
    /\ g_controller
    /\ \/ Steps(b, "in_set", "set_unlock")
       \/ Steps(b, "in_set", "set_config")
       \/ /\ PollerRuns
          /\ Moves(b, "in_set", "set_join")
          /\ stopping' = TRUE
          /\ UNCHANGED <<object, globals, outside, telemetry, mutexes, sent, crashed>>

SetJoined(b) == pc["poller"] = "ended" /\ Steps(b, "set_join", "set_config")

\* The setter saves under ctrl->mutex, which its caller has: it locks it a second
\* time, unless the controller is no longer published.
SetConfig(b) == Steps(b, "set_config", IF g_controller THEN "set_relock" ELSE "set_end")
SetRelock(b) == g_controller /\ Steps(b, "set_relock", "set_rewait")
SetRelocked(b) == CtrlLocked(b, "set_rewait", "in_save")
SetSave(b) == g_controller /\ Steps(b, "in_save", "set_free")

SetSaved(b) == CtrlUnlocked(b, "set_free", "set_end")

\* Enabling starts a thread when none runs.
SetEnd(b) ==
    \/ Steps(b, "set_end", "set_unlock")
    \/ pc[b] = "set_end" /\ StartsPoller(b, "set_unlock")

SetUnlock(b) == CtrlUnlocked(b, "set_unlock", "idle")

Set(b) ==
    \/ SetLock(b) \/ SetLocked(b) \/ SetBegin(b) \/ SetJoined(b) \/ SetConfig(b)
    \/ SetRelock(b) \/ SetRelocked(b) \/ SetSave(b) \/ SetSaved(b) \/ SetEnd(b)
    \/ SetUnlock(b)

HandlerCrashes(b) ==
    \/ ~g_eponData /\ (Crashes(b, "data_lock") \/ Crashes(b, "in_data"))
    \/ /\ ~g_controller
       /\ \E p \in {"get_lock", "in_config", "set_lock", "in_set", "set_relock", "in_save"} :
            Crashes(b, p)

Handler(b) ==
    \/ DataLock(b) \/ DataLocked(b) \/ DataWork(b) \/ DataUnlock(b)
    \/ GetLock(b) \/ GetLocked(b) \/ GetRead(b) \/ GetUnlock(b)
    \/ Set(b)
    \/ Dispatch(b, "idle")
    \/ HandlerCrashes(b)

-----------------------------------------------------------------------------
(***************************************************************************)
(* A HAL thread runs a callback; a full queue makes it raise a marker.     *)
(***************************************************************************)
CallbackStarts(h) == hal /\ g_controller /\ Steps(h, "idle", "push")

Callback(h) ==
    \/ g_controller /\ (Steps(h, "push", "signal") \/ Steps(h, "push", "mark"))
    \/ g_controller /\ Steps(h, "signal", "idle")
    \/ ~g_controller /\ (Crashes(h, "push") \/ Crashes(h, "signal"))
    \/ Dispatch(h, "idle")

-----------------------------------------------------------------------------
(***************************************************************************)
(* The poller's thread; it uses its own pointer to the data context, and   *)
(* eponMgr_tr181_sync_veip_table uses the global one.  At "sleep" it is    *)
(* before a test of shutdown_requested.  One on a freed poller is not      *)
(* followed.                                                               *)
(***************************************************************************)
PollerLocks(p, q) ==
    /\ Moves("poller", p, q)
    /\ dataMutex = Nobody
    /\ dataMutex' = "poller"
    /\ UNCHANGED <<object, globals, outside, telemetry, ctrlMutex, stopping, sent, crashed>>

PollerUnlocks(p, q) ==
    /\ Moves("poller", p, q)
    /\ dataMutex' = Nobody
    /\ UNCHANGED <<object, globals, outside, telemetry, ctrlMutex, stopping, sent, crashed>>

Poller ==
    /\ object["poller"] = "live"
    /\ \/ Steps("poller", "created", "sleep")
       \/ PollerLocks("collect", "fill")
       \/ \E q \in {"sync", "mark", "sleep"} : PollerUnlocks("fill", q)
       \/ Steps("poller", "sync", IF g_rbus_handle /\ g_eponData THEN "sync_lock" ELSE "sleep")
       \/ g_eponData /\ PollerLocks("sync_lock", "in_sync")
       \/ PollerUnlocks("in_sync", "mark") \/ PollerUnlocks("in_sync", "sleep")
       \/ Dispatch("poller", "sleep")
       \/ stopping /\ Steps("poller", "sleep", "ended")
       \/ ~stopping /\ Steps("poller", "sleep", "collect")

-----------------------------------------------------------------------------
MainStep ==
    \/ TelemetryInit \/ T2Init \/ AllocController \/ OpenBus \/ LoadConfig \/ InitQueue
    \/ InitData \/ InitHal \/ CheckVersion \/ InitPoller \/ RegisterTr181 \/ RegisterFails
    \/ SyncTables \/ Publish \/ StepFails \/ ErrorPath
    \/ RaiseHalFailed \/ RaiseFailure \/ RaiseSuccess \/ RaiseShutdown
    \/ RunLock \/ RunBegin \/ StartPoller \/ LeaveLock \/ LeaveUnlock
    \/ ClearController \/ UnregisterTr181 \/ CloseBus \/ StopPoller \/ StopIdlePoller
    \/ JoinPoller \/ FreePoller \/ DeinitHal \/ ClearData \/ FreeData \/ FreeQueue
    \/ FreeController \/ TelemetryCleanup \/ T2Uninit

Next ==
    /\ ~crashed /\ pc["main"] # "exit"
    /\ \/ MainStep \/ ShutdownRequested
       \/ \E b \in BusThread : HandlerStarts(b) \/ Handler(b)
       \/ \E h \in HalThread : CallbackStarts(h) \/ Callback(h)
       \/ Poller

Spec == Init /\ [][Next]_vars

(***************************************************************************)
(* The scheduler runs every thread that can run.  Nobody has to start a    *)
(* request or a callback, or to ask for a shutdown.  A handler that waits  *)
(* for the data mutex gets it in the end: the poller, which could take it  *)
(* again and again, sleeps for a minute or more in between.                *)
(***************************************************************************)
Alive == ~crashed /\ pc["main"] # "exit"

Fairness ==
    /\ WF_vars(Alive /\ MainStep)
    /\ \A b \in BusThread : WF_vars(Alive /\ Handler(b)) /\ SF_vars(Alive /\ DataLocked(b))
    /\ \A h \in HalThread : WF_vars(Alive /\ Callback(h))
    /\ WF_vars(Alive /\ Poller)

FairSpec == Spec /\ Fairness

-----------------------------------------------------------------------------
\* The state stays within its types, and an object is freed at most once.
TypeOK ==
    /\ pc \in [Thread -> MainPoint \cup BusPoint \cup HalPoint \cup PollerPoint]
    /\ pc["main"] \in MainPoint /\ pc["poller"] \in PollerPoint
    /\ \A b \in BusThread : pc[b] \in BusPoint
    /\ \A h \in HalThread : pc[h] \in HalPoint
    /\ object \in [Object -> {"none", "live", "freed"}]
    /\ \A flag \in {g_controller, g_eponData, g_rbus_handle, bus, served, hal,
                    initialized, t2, stopping, crashed} : flag \in BOOLEAN
    /\ dataMutex \in {Nobody, "poller"} \cup BusThread
    /\ ctrlMutex \in {Nobody, "main"} \cup BusThread
    /\ sent \in Seq({"HAL_FAILED", "INIT_FAILURE", "INIT_SUCCESS", "SHUTDOWN"})

\* The poller was freed without a stop: its thread had not set running yet.
Missed == object["poller"] = "freed" /\ ~stopping

\* A handler's unlock found g_controller cleared and kept the mutex.
Abandoned == ctrlMutex \in BusThread /\ pc[ctrlMutex] = "idle"

Live(S) == \A o \in S : object[o] = "live"

\* What a thread uses where it stands is allocated and not freed: the data
\* context and the bus under a handler, the queue and the controller under a
\* callback, both contexts under a poller that is not Missed.  A start that
\* fails half-way (its error path stops neither HAL nor bus) is no exception.
NothingUsedAfterFree ==
    /\ \A b \in BusThread :
         /\ pc[b] # "idle" => bus
         /\ pc[b] \in {"data_lock", "data_wait", "in_data", "data_unlock"} => Live({"data"})
         /\ pc[b] \in {"get_lock", "get_wait", "in_config", "get_unlock"} => Live({"ctrl", "config"})
         /\ pc[b] \in SetPoint => Live({"ctrl", "config", "poller"})
    /\ \A h \in HalThread : pc[h] \in {"push", "signal"} => Live({"ctrl", "queue"})
    /\ pc["poller"] \notin {"none", "ended"} => Missed \/ Live({"poller", "data"})

\* A marker that dispatch let pass finds the telemetry library open, although
\* the test and the send are not one step under the module's mutex.
MarkersReachT2 ==
    /\ \A t \in Thread : pc[t] = "send" => t2 \/ (t = "poller" /\ Missed)
    /\ initialized /\ pc["main"] \in {"wrong_mode", "failure", "success", "stopped"} => t2

\* Every end of the process is reported: a failed start by one marker of
\* failure, a complete run by a marker at its start and one at its end.
ExitIsReported ==
    pc["main"] = "exit" =>
        sent \in {<<"INIT_FAILURE">>, <<"HAL_FAILED", "INIT_FAILURE">>,
                  <<"INIT_SUCCESS", "SHUTDOWN">>}

\* A handler that has returned does not leave the data mutex locked, although
\* its unlock does nothing once eponMgr_data_destroy has cleared g_eponData.
DataMutexReturned ==
    /\ dataMutex \in BusThread => pc[dataMutex] \in {"in_data", "data_unlock"}
    /\ object["data"] = "freed" => dataMutex = Nobody

\* A SET waits at its second lock for the mutex it took at its first, and the
\* controller through which another thread could unlock it is not published.
SetBlocksItself ==
    ~g_controller /\ ctrlMutex \in BusThread /\ pc[ctrlMutex] = "set_rewait"

\* A shutdown is completed: when eponMgr_controller_run has returned, handlers,
\* callbacks and the poller let the process come to its end, unless one of these
\* four faults strikes: a global pointer found cleared, ctrl->mutex kept by a
\* handler that has returned, ctrl->mutex kept by a SET that locks it twice, for
\* which rbus_close waits for ever, a poller that was not stopped.
ShutdownCompletes ==
    pc["main"] = "stopped" ~>
        (pc["main"] = "exit" \/ crashed \/ Abandoned \/ SetBlocksItself \/ Missed)
=============================================================================
