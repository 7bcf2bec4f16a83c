---------------------------- MODULE StatsPoller ----------------------------
(***************************************************************************)
(* The statistics poller (eponMgr_stats_poller.c), the threads that start, *)
(* stop and reconfigure it, and the locks between them: the poller's own   *)
(* mutex and ctrl->mutex, which eponMgr_controller_get_stats_poller and    *)
(* eponMgr_controller_lock_persistence_config both take.                   *)
(*                                                                         *)
(* No thread blocks while it owns the poller's mutex, except in the        *)
(* condition wait, which releases it: a section under that mutex is one    *)
(* action.  ctrl->mutex is a plain mutex held across calls: its owner is   *)
(* kept, a second lock by its owner waits like anybody else's, and an      *)
(* unlock by a thread that does not own it frees it all the same.          *)
(***************************************************************************)
EXTENDS Integers, FiniteSets

CONSTANTS Bus,          \* the bus threads that run the TR-181 handlers
          Interval,     \* the polling intervals a SET may carry
          MinInterval,  \* 60 s
          MaxInterval,  \* 3600 s
          MaxThreads,   \* bound: poller threads ever created
          MaxRequests,  \* bound: TR-181 requests served per bus thread
          Nobody        \* the owner of a free mutex

ValidInterval == {i \in Interval : MinInterval <= i /\ i <= MaxInterval}

ASSUME PollerAssumption ==
    /\ Interval \subseteq Nat /\ MinInterval \in Nat /\ MaxInterval \in Nat
    /\ ValidInterval # {}
    /\ MaxThreads \in Nat \ {0} /\ MaxRequests \in Nat
    /\ Nobody \notin Bus \cup {"main"} /\ "main" \notin Bus

VARIABLES
    g_controller,   \* the global controller pointer is set
    mutex,          \* who owns ctrl->mutex
    config_enabled, \* ctrl->config->stats_poller_enabled
    poller,         \* the fields of eponMgr_stats_poller_t
    tpc,            \* where each poller thread is
    slept,          \* the interval each poller thread read at the loop's top
    mpc,            \* where the main thread is
    bpc,            \* where each bus thread is
    request,        \* the request each bus thread serves
    served,         \* requests each bus thread has begun
    joins,          \* the thread each caller of stats_poller_stop waits for
    stolen          \* history: a thread unlocked ctrl->mutex for its owner

busVars == <<bpc, request, served>>
vars == <<g_controller, mutex, config_enabled, poller, tpc, slept, mpc, busVars, joins,
          stolen>>

Thread == 1 .. MaxThreads
NoThread == 0

Request == [op : {"get", "enable", "disable"}, value : {0}]
           \cup [op : {"interval"}, value : Interval]
NoRequest == [op |-> "get", value |-> 0]

\* eponMgr_stats_poller_init, with what eponMgr_persistence_load accepted; the
\* TR-181 parameters are registered, g_controller is about to be published.
Init ==
    /\ g_controller = FALSE
    /\ mutex = Nobody
    /\ config_enabled \in BOOLEAN
    /\ \E i \in ValidInterval :
          poller = [enabled |-> config_enabled, interval |-> i, running |-> FALSE,
                    shutdown |-> FALSE, thread |-> NoThread, freed |-> FALSE]
    /\ tpc = [t \in Thread |-> "none"]
    /\ slept = [t \in Thread |-> 0]
    /\ mpc = "publish"
    /\ bpc = [b \in Bus |-> "idle"]
    /\ request = [b \in Bus |-> NoRequest]
    /\ served = [b \in Bus |-> 0]
    /\ joins = [c \in Bus \cup {"main"} |-> NoThread]
    /\ stolen = FALSE

-----------------------------------------------------------------------------
(***************************************************************************)
(* stats_poller_thread.  What a thread does on a freed poller is not       *)
(* followed any further.                                                   *)
(***************************************************************************)
ThreadAt(t, p) == tpc[t] = p /\ ~poller.freed
ThreadGoes(t, p) ==
    /\ tpc' = [tpc EXCEPT ![t] = p]
    /\ UNCHANGED <<g_controller, mutex, config_enabled, mpc, busVars, joins, stolen>>

ThreadBegin(t) ==
    /\ ThreadAt(t, "created")
    /\ poller' = [poller EXCEPT !.running = TRUE]
    /\ ThreadGoes(t, "top")
    /\ UNCHANGED slept

\* Variant with a fault: the test of enabled is inverted.
ThreadTopInverted(t) ==
    /\ ThreadAt(t, "top")
    /\ slept' = [slept EXCEPT ![t] = poller.interval]
    /\ ThreadGoes(t, IF poller.shutdown THEN "exit"
                     ELSE IF poller.enabled THEN "rearm" ELSE "collect")
    /\ UNCHANGED poller

\* Variant with a fault: the interval is read before the loop only.
ThreadTopReadsOnce(t) ==
    /\ ThreadAt(t, "top")
    /\ slept' = [slept EXCEPT ![t] = IF @ = 0 THEN poller.interval ELSE @]
    /\ ThreadGoes(t, IF poller.shutdown THEN "exit"
                     ELSE IF poller.enabled THEN "collect" ELSE "rearm")
    /\ UNCHANGED poller

ThreadTop(t) ==
    /\ ThreadAt(t, "top")
    /\ slept' = [slept EXCEPT ![t] = poller.interval]
    /\ ThreadGoes(t, IF poller.shutdown THEN "exit"
                     ELSE IF poller.enabled THEN "collect" ELSE "rearm")
    /\ UNCHANGED poller

\* collect_all_stats: its result only chooses a log line and a telemetry event.
ThreadCollect(t) ==
    /\ ThreadAt(t, "collect")
    /\ ThreadGoes(t, "rearm")
    /\ UNCHANGED <<poller, slept>>

\* Locks and waits for the interval read at the top, with no test in between.
ThreadSleep(t) ==
    /\ ThreadAt(t, "rearm")
    /\ ThreadGoes(t, "sleep")
    /\ UNCHANGED <<poller, slept>>

\* Variant with a fault: pthread_cond_wait, which no timeout ends.
ThreadWaitsForever(t) == ThreadAt(t, "sleep") /\ FALSE /\ UNCHANGED vars

ThreadTimeout(t) ==
    /\ ThreadAt(t, "sleep")
    /\ ThreadGoes(t, "woken")
    /\ UNCHANGED <<poller, slept>>

ThreadAfterWait(t) ==
    /\ ThreadAt(t, "woken")
    /\ ThreadGoes(t, IF poller.shutdown THEN "exit" ELSE "top")
    /\ UNCHANGED <<poller, slept>>

ThreadExit(t) ==
    /\ ThreadAt(t, "exit")
    /\ poller' = [poller EXCEPT !.running = FALSE]
    /\ ThreadGoes(t, "ended")
    /\ UNCHANGED slept

-----------------------------------------------------------------------------
(***************************************************************************)
(* The poller's operations, as the updates they make.                      *)
(***************************************************************************)
\* pthread_cond_signal on the poller's condition: one sleeper wakes, if any.
SignalThread ==
    LET sleepers == {t \in Thread : tpc[t] = "sleep"}
    IN  \/ sleepers = {} /\ UNCHANGED tpc
        \/ \E t \in sleepers : tpc' = [tpc EXCEPT ![t] = "woken"]

\* The first half of eponMgr_stats_poller_start; running is left to the new thread
\* to set.
StartRefused == poller.running /\ UNCHANGED poller
StartAllowed == ~poller.running /\ poller' = [poller EXCEPT !.shutdown = FALSE]

\* The second half, without the poller's mutex: pthread_create, which may fail.
CreateThread ==
    \E t \in Thread :
        /\ \A u \in Thread : tpc[u] = "none" <=> u >= t
        /\ poller' = [poller EXCEPT !.thread = t]
        /\ tpc' = [tpc EXCEPT ![t] = "created"]
CreateFails == UNCHANGED <<poller, tpc>>

\* eponMgr_stats_poller_stop.  The thread to join is read when the poller's mutex
\* is free again.
StopIdle == ~poller.running /\ UNCHANGED <<poller, tpc>>
StopRunning ==
    /\ poller.running
    /\ poller' = [poller EXCEPT !.shutdown = TRUE]
    /\ SignalThread

JoinBegin(c) == joins' = [joins EXCEPT ![c] = poller.thread]
Joined(c) == tpc[joins[c]] = "ended"

-----------------------------------------------------------------------------
(***************************************************************************)
(* The main thread: g_controller is published, eponMgr_controller_run      *)
(* starts the thread if it is configured, the event loop (module           *)
(* Controller) runs until a shutdown, eponMgr_controller_destroy stops the *)
(* poller and frees it.                                                    *)
(***************************************************************************)
MainGoes(p, q) ==
    /\ mpc = p
    /\ mpc' = q
    /\ UNCHANGED <<slept, config_enabled, busVars, stolen>>

Publish ==
    /\ MainGoes("publish", "run")
    /\ g_controller' = TRUE
    /\ UNCHANGED <<mutex, poller, tpc, joins>>

MainLock(p, q) ==
    /\ MainGoes(p, q)
    /\ mutex = Nobody
    /\ mutex' = "main"
    /\ UNCHANGED <<g_controller, poller, tpc, joins>>
MainUnlock(p, q) ==
    /\ MainGoes(p, q)
    /\ mutex' = Nobody
    /\ UNCHANGED <<g_controller, poller, tpc, joins>>

\* eponMgr_controller_run updates its flags under ctrl->mutex, first and last.
RunLock == MainLock("run", "begin")
RunBegin == MainUnlock("begin", "start")
RunStart ==
    /\ \/ config_enabled /\ StartAllowed /\ MainGoes("start", "create")
       \/ config_enabled /\ StartRefused /\ MainGoes("start", "loop")
       \/ ~config_enabled /\ UNCHANGED poller /\ MainGoes("start", "loop")
    /\ UNCHANGED <<g_controller, mutex, tpc, joins>>
RunCreate ==
    /\ MainGoes("create", "loop")
    /\ CreateThread \/ CreateFails
    /\ UNCHANGED <<g_controller, mutex, joins>>
ShutdownRequest ==
    /\ MainGoes("loop", "leave")
    /\ UNCHANGED <<g_controller, mutex, poller, tpc, joins>>
LeaveLock == MainLock("leave", "left")
LeaveUnlock == MainUnlock("left", "clear")

ClearGlobal ==
    /\ MainGoes("clear", "rbus_close")
    /\ g_controller' = FALSE
    /\ UNCHANGED <<mutex, poller, tpc, joins>>

\* eponMgr_rbus_cleanup; the bus library is taken to wait for its handlers.
RbusCleanup ==
    /\ \A b \in Bus : bpc[b] = "idle"
    /\ MainGoes("rbus_close", "stop")
    /\ UNCHANGED <<g_controller, mutex, poller, tpc, joins>>

\* eponMgr_stats_poller_destroy.
DestroyStop ==
    /\ \/ StopRunning /\ MainGoes("stop", "stopping")
       \/ StopIdle /\ MainGoes("stop", "free")
    /\ UNCHANGED <<g_controller, mutex, joins>>

DestroyJoin ==
    /\ MainGoes("stopping", "join")
    /\ JoinBegin("main")
    /\ UNCHANGED <<g_controller, mutex, poller, tpc>>

DestroyJoined ==
    /\ MainGoes("join", "free")
    /\ Joined("main")
    /\ UNCHANGED <<g_controller, mutex, poller, tpc, joins>>

DestroyFree ==
    /\ MainGoes("free", "gone")
    /\ poller' = [poller EXCEPT !.freed = TRUE]
    /\ UNCHANGED <<g_controller, mutex, tpc, joins>>

-----------------------------------------------------------------------------
(***************************************************************************)
(* The TR-181 handlers of the poller's parameters, on a bus thread.        *)
(***************************************************************************)
BusOpen == mpc \notin {"stop", "stopping", "join", "free", "gone"}

BusGoes(b, p, q) ==
    /\ bpc[b] = p
    /\ bpc' = [bpc EXCEPT ![b] = q]
    /\ UNCHANGED <<g_controller, slept, mpc, served>>
KeepsMutex == UNCHANGED <<mutex, stolen>>

\* The NULL test of eponMgr_controller_get_stats_poller (SET) and of
\* eponMgr_controller_lock_persistence_config (GET).  A SET that finds NULL
\* returns; a GET unlocks before it returns.
Receive(b) ==
    /\ BusOpen
    /\ bpc[b] = "idle"
    /\ served[b] < MaxRequests
    /\ served' = [served EXCEPT ![b] = @ + 1]
    /\ \E r \in Request :
          /\ request' = [request EXCEPT ![b] = r]
          /\ bpc' = [bpc EXCEPT ![b] = IF g_controller THEN "lock"
                                       ELSE IF r.op = "get" THEN "unlock" ELSE "idle"]
    /\ UNCHANGED <<g_controller, mutex, config_enabled, poller, tpc, slept, mpc, joins,
                   stolen>>

\* A GET reads the configuration and goes on to unlock.
TakeMutex(b) ==
    /\ BusGoes(b, "lock", CASE request[b].op = "get" -> "unlock"
                           [] request[b].op = "interval" -> "interval"
                           [] OTHER -> "enable")
    /\ g_controller
    /\ mutex = Nobody
    /\ mutex' = b
    /\ UNCHANGED <<config_enabled, poller, tpc, request, joins, stolen>>

\* eponMgr_stats_poller_is_running decides what a SET of Enable does.
SetEnable(b) ==
    LET starts == request[b].op = "enable" /\ ~poller.running
        stops == request[b].op = "disable" /\ poller.running
    IN  /\ BusGoes(b, "enable", IF stops THEN "stop" ELSE "flag")
        /\ request' = [request EXCEPT ![b].op = IF starts THEN "start" ELSE @]
        /\ KeepsMutex /\ UNCHANGED <<config_enabled, poller, tpc, joins>>

SetStop(b) ==
    /\ \/ StopRunning /\ BusGoes(b, "stop", "stopping")
       \/ StopIdle /\ BusGoes(b, "stop", "flag")
    /\ KeepsMutex /\ UNCHANGED <<config_enabled, request, joins>>

SetJoin(b) ==
    /\ BusGoes(b, "stopping", "join")
    /\ JoinBegin(b)
    /\ KeepsMutex /\ UNCHANGED <<config_enabled, poller, tpc, request>>

SetJoined(b) ==
    /\ BusGoes(b, "join", "flag")
    /\ Joined(b)
    /\ KeepsMutex /\ UNCHANGED <<config_enabled, poller, tpc, request, joins>>

\* The first half of eponMgr_stats_poller_set_enabled ...
SetFlag(b) ==
    /\ BusGoes(b, "flag", "config")
    /\ poller' = [poller EXCEPT !.enabled = request[b].op # "disable"]
    /\ KeepsMutex /\ UNCHANGED <<config_enabled, tpc, request, joins>>

\* Variant with a fault: the early return keeps ctrl->mutex.
IntervalRefusedKeepsMutex(b) ==
    /\ BusGoes(b, "interval", "idle")
    /\ request[b].value \notin ValidInterval
    /\ KeepsMutex /\ UNCHANGED <<config_enabled, poller, tpc, request, joins>>

\* ... and of eponMgr_stats_poller_set_interval.
IntervalRefused(b) ==
    /\ BusGoes(b, "interval", "unlock")
    /\ request[b].value \notin ValidInterval
    /\ KeepsMutex /\ UNCHANGED <<config_enabled, poller, tpc, request, joins>>

\* Variant with a fault: the upper limit is not checked.
SetIntervalNoMax(b) ==
    /\ BusGoes(b, "interval", "config")
    /\ request[b].value >= MinInterval
    /\ poller' = [poller EXCEPT !.interval = request[b].value]
    /\ SignalThread
    /\ KeepsMutex /\ UNCHANGED <<config_enabled, request, joins>>

SetInterval(b) ==
    /\ BusGoes(b, "interval", "config")
    /\ request[b].value \in ValidInterval
    /\ poller' = [poller EXCEPT !.interval = request[b].value]
    /\ SignalThread
    /\ KeepsMutex /\ UNCHANGED <<config_enabled, request, joins>>

\* Their second half persists the value under ctrl->mutex, which the handler
\* owns already.  It is skipped when g_controller is NULL.
AfterPersist(b) == IF request[b].op = "start" THEN "start" ELSE "unlock"

\* Variant with a fault: the mutex is not taken again.
ConfigUnlocked(b) ==
    /\ BusGoes(b, "config", AfterPersist(b))
    /\ KeepsMutex /\ UNCHANGED <<config_enabled, poller, tpc, request, joins>>

ConfigTest(b) ==
    /\ BusGoes(b, "config", IF g_controller THEN "relock" ELSE AfterPersist(b))
    /\ KeepsMutex /\ UNCHANGED <<config_enabled, poller, tpc, request, joins>>

\* eponMgr_persistence_save may fail: then a start is not attempted.
Relock(b) ==
    /\ BusGoes(b, "relock", "persisted")
    /\ g_controller
    /\ mutex = Nobody
    /\ mutex' = b
    /\ config_enabled' = IF request[b].op = "interval" THEN config_enabled
                         ELSE request[b].op # "disable"
    /\ \/ UNCHANGED request
       \/ request' = [request EXCEPT ![b].op = IF @ = "start" THEN "enable" ELSE @]
    /\ UNCHANGED <<poller, tpc, joins, stolen>>

\* Both unlock functions do nothing when g_controller is NULL.
UnlockMutex(b) ==
    /\ mutex' = IF g_controller THEN Nobody ELSE mutex
    /\ stolen' = (stolen \/ (g_controller /\ mutex \notin {Nobody, b}))

UnlockConfig(b) ==
    /\ BusGoes(b, "persisted", AfterPersist(b))
    /\ UnlockMutex(b)
    /\ UNCHANGED <<config_enabled, poller, tpc, request, joins>>

SetStart(b) ==
    /\ \/ StartAllowed /\ BusGoes(b, "start", "create")
       \/ StartRefused /\ BusGoes(b, "start", "unlock")
    /\ KeepsMutex /\ UNCHANGED <<config_enabled, tpc, request, joins>>

SetCreate(b) ==
    /\ BusGoes(b, "create", "unlock")
    /\ CreateThread \/ CreateFails
    /\ KeepsMutex /\ UNCHANGED <<config_enabled, request, joins>>

Return(b) ==
    /\ BusGoes(b, "unlock", "idle")
    /\ UnlockMutex(b)
    /\ UNCHANGED <<config_enabled, poller, tpc, request, joins>>

\* g_controller is read again to lock and to return a field of it: a handler
\* that finds it cleared there dereferences NULL and the process dies.
NullDereference(b) ==
    /\ ~g_controller
    /\ \E p \in {"lock", "relock"} : BusGoes(b, p, "crashed")
    /\ KeepsMutex /\ UNCHANGED <<config_enabled, poller, tpc, request, joins>>

-----------------------------------------------------------------------------
Alive == \A b \in Bus : bpc[b] # "crashed"

PollerThread(t) ==
    \/ ThreadBegin(t) \/ ThreadTop(t) \/ ThreadCollect(t) \/ ThreadSleep(t)
    \/ ThreadTimeout(t) \/ ThreadAfterWait(t) \/ ThreadExit(t)

Main ==
    \/ Publish \/ RunLock \/ RunBegin \/ RunStart \/ RunCreate \/ LeaveLock
    \/ LeaveUnlock \/ ClearGlobal \/ RbusCleanup \/ DestroyStop \/ DestroyJoin
    \/ DestroyJoined \/ DestroyFree

Handler(b) ==
    \/ TakeMutex(b) \/ SetEnable(b) \/ SetStop(b) \/ SetJoin(b) \/ SetJoined(b)
    \/ SetFlag(b) \/ IntervalRefused(b) \/ SetInterval(b) \/ ConfigTest(b) \/ Relock(b)
    \/ UnlockConfig(b) \/ SetStart(b) \/ SetCreate(b) \/ Return(b)

Next ==
    /\ Alive
    /\ \/ \E t \in Thread : PollerThread(t)
       \/ Main
       \/ ShutdownRequest
       \/ \E b \in Bus : Receive(b) \/ Handler(b) \/ NullDereference(b)

Spec == Init /\ [][Next]_vars

(***************************************************************************)
(* Every thread that can run does run; the poller's wait ends after its    *)
(* interval.  Nobody has to send a request or to stop the program.         *)
(***************************************************************************)
Fairness ==
    /\ \A t \in Thread : WF_vars(Alive /\ PollerThread(t))
    /\ WF_vars(Alive /\ Main)
    /\ \A b \in Bus : WF_vars(Alive /\ Handler(b))

FairSpec == Spec /\ Fairness

-----------------------------------------------------------------------------
LiveThread == {t \in Thread : tpc[t] \notin {"none", "ended"}}

\* The state stays within its types; the interval the poller works with is
\* always one the TR-181 parameter allows, whoever set it.
TypeOK ==
    /\ g_controller \in BOOLEAN /\ config_enabled \in BOOLEAN
    /\ mutex \in {Nobody, "main"} \cup Bus
    /\ poller \in [enabled : BOOLEAN, interval : ValidInterval, running : BOOLEAN,
                   shutdown : BOOLEAN, thread : 0 .. MaxThreads, freed : BOOLEAN]
    /\ tpc \in [Thread -> {"none", "created", "top", "collect", "rearm", "sleep",
                           "woken", "exit", "ended"}]
    /\ slept \in [Thread -> {0} \cup ValidInterval]
    /\ mpc \in {"publish", "run", "begin", "start", "create", "loop", "leave", "left",
                "clear", "rbus_close", "stop", "stopping", "join", "free", "gone"}
    /\ bpc \in [Bus -> {"idle", "lock", "enable", "stop", "stopping", "join", "flag",
                        "interval", "config", "relock", "persisted", "start", "create",
                        "unlock", "crashed"}]
    /\ request \in [Bus -> Request \cup [op : {"start"}, value : {0}]]
    /\ served \in [Bus -> 0 .. MaxRequests]
    /\ joins \in [Bus \cup {"main"} -> 0 .. MaxThreads]
    /\ stolen \in BOOLEAN

\* A handler that has returned left ctrl->mutex free, on every path through
\* it, unless the controller was being destroyed.
MutexReleasedOnReturn ==
    \A b \in Bus : bpc[b] = "idle" /\ mutex = b => ~g_controller

Joining(c) == IF c = "main" THEN mpc = "join" ELSE bpc[c] = "join"

\* A stop request stands until the thread it was meant for has ended: no start
\* clears shutdown_requested, or puts another thread in its place, before
\* pthread_join has returned.  It takes ctrl->mutex stolen from a handler to let
\* another handler start the poller at such a time.
StopRequestStands ==
    \A c \in Bus \cup {"main"} :
        Joining(c) /\ joins[c] \in LiveThread => poller.shutdown \/ stolen

\* eponMgr_stats_poller_stop returns: a thread that missed the wakeup because
\* it was collecting sees the request when its interval is over.
JoinReturns ==
    /\ (mpc = "join") ~> (mpc # "join" \/ ~Alive)
    /\ \A b \in Bus : (bpc[b] = "join") ~> (bpc[b] # "join" \/ stolen \/ ~Alive)

\* The poller's thread collects again after every wait, for as long as it is
\* enabled and not stopped, whatever becomes of the handlers and ctrl->mutex.
PollingContinues ==
    \A t \in Thread :
        (tpc[t] = "sleep") ~>
            (tpc[t] = "collect" \/ ~poller.enabled \/ poller.shutdown
               \/ poller.freed \/ ~Alive)

\* A new interval is in force after the thread's present sleep at the latest,
\* although the wakeup that eponMgr_stats_poller_set_interval sends may find the
\* thread collecting.
NewIntervalIsUsed ==
    \A t \in Thread : \A i \in ValidInterval :
        (LiveThread = {t} /\ poller.interval = i) ~>
            (slept[t] = i \/ poller.interval # i \/ poller.shutdown
               \/ poller.freed \/ ~Alive)

\* A SET of Enable or PollingInterval is answered ("Starts/stops poller thread
\* on change", "Applied immediately to running poller"), at least while the
\* controller is up and some other thread does not end the process.
SetReturns ==
    \A b \in Bus : (bpc[b] \in {"enable", "interval"})
                       ~> (bpc[b] = "idle" \/ ~g_controller \/ ~Alive)
=============================================================================
