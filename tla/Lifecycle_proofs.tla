-------------------------- MODULE Lifecycle_proofs --------------------------
(***************************************************************************)
(* Proofs about Lifecycle, for any number of bus and HAL threads.  Where   *)
(* main() is decides which objects exist, which pointers are published and *)
(* which threads may be at work; what the run checks follows from that.    *)
(* Then what the threads wait for, and that the waits of the shutdown are  *)
(* for threads with a bounded number of steps left.                        *)
(***************************************************************************)
EXTENDS Lifecycle, SequenceTheorems, TLAPS

\* The points of main() at which handlers may run, and those between which
\* each object is live, by the order of eponMgr_controller_init and _destroy.
Serving   == {"sync", "publish", "success", "run", "begin", "start_poller", "loop",
              "leave", "left", "stopped", "clear", "unregister", "bus_close"}
HasPoller == Serving \cup {"register", "stop", "join", "free_poller"}
HasData   == HasPoller \cup {"hal", "wrong_mode", "version", "poller",
                             "hal_deinit", "clear_data", "free_data"}
HasQueue  == HasData \cup {"data", "free_queue"}
HasConfig == HasQueue \cup {"queue", "free_ctrl"}
HasCtrl   == HasConfig \cup {"rbus", "config"}
HasBus    == Serving \cup {"config", "queue", "data", "hal", "version", "poller", "register"}

\* Those at which g_controller may be set, a callback be under way, the
\* poller's thread exist, and those after the poller has been freed.
Published == Serving \ {"sync", "publish", "unregister", "bus_close"}
Calling   == Published \cup {"unregister", "bus_close", "stop", "join",
                             "free_poller", "hal_deinit"}
End       == {"cleanup", "t2_uninit", "exit"}
Freeing   == {"hal_deinit", "clear_data", "free_data", "free_queue", "free_ctrl"}
Stopping  == {"join", "free_poller"} \cup Freeing \cup End
Threaded  == Serving \cup {"stop"} \cup Stopping

PollerGone == pc["poller"] \in {"none", "ended"}

\* What exists at each point of main().
Owned(m) ==
    /\ m \in HasPoller => object["poller"] = "live"
    /\ m \in HasData => object["data"] = "live"
    /\ m \in HasQueue => object["queue"] = "live"
    /\ m \in HasConfig => object["config"] = "live"
    /\ m \in HasCtrl => object["ctrl"] = "live"
    /\ m \in Freeing => object["poller"] = "freed"
    /\ object["data"] = "freed" => /\ m \in {"free_queue", "free_ctrl"} \cup End
                                   /\ object["poller"] = "freed"

\* What is set up outside the process, and which pointers lead to it.
Connected(m) ==
    /\ m \in HasBus => bus
    /\ m \in HasData \ {"free_data"} => g_eponData
    /\ g_controller => m \in Published
    /\ served => m \in Serving \ {"bus_close"}
    /\ initialized <=> m \notin {"start", "t2_uninit", "exit"}
    /\ t2 <=> m \notin {"start", "t2_init", "exit"}

\* Who may be at work.  A poller that is not gone when its memory is freed was
\* never asked to stop.
AtWork(m) ==
    /\ \A b \in BusThread : pc[b] # "idle" => m \in Serving
    /\ \A h \in HalThread : pc[h] # "idle" => m \in Calling
    /\ pc["poller"] # "none" => m \in Threaded
    /\ pc["poller"] = "created" => ~stopping
    /\ m = "free_poller" /\ stopping => PollerGone
    /\ m \in Freeing \cup End => PollerGone \/ Missed

\* The data mutex has one owner, who is where the code holds it; once the data
\* context is freed it has none.
Owns(t) == pc[t] \in {"in_data", "data_unlock", "fill", "in_sync"}
MutexInv ==
    /\ \A t \in BusThread \cup {"poller"} : Owns(t) <=> dataMutex = t
    /\ object["data"] = "freed" => dataMutex = Nobody

\* The markers main() has raised by each point.
Reported(m) ==
    /\ m \in {"error", "failure"} => sent \in {<<>>, <<"HAL_FAILED">>}
    /\ m \in {"run", "begin", "start_poller", "loop", "leave", "left", "stopped"}
          => sent = <<"INIT_SUCCESS">>
    /\ m \in TakeDown \ {"leave", "left", "stopped"} => sent = <<"INIT_SUCCESS", "SHUTDOWN">>
    /\ m \in End => sent \in {<<"INIT_FAILURE">>, <<"HAL_FAILED", "INIT_FAILURE">>,
                              <<"INIT_SUCCESS", "SHUTDOWN">>}
    /\ m \in BringUp \ {"run", "begin", "start_poller"} => sent = <<>>

IInv ==
    /\ TypeOK
    /\ Owned(pc["main"]) /\ Connected(pc["main"]) /\ AtWork(pc["main"])
    /\ MutexInv /\ Reported(pc["main"])

\* Where main() goes: up, down after a failure, through its loop, down in the end.
Starts ==
    \/ TelemetryInit \/ T2Init \/ AllocController \/ OpenBus \/ LoadConfig
    \/ InitQueue \/ InitData \/ InitHal \/ CheckVersion \/ InitPoller
    \/ RegisterTr181 \/ RegisterFails \/ SyncTables \/ Publish \/ RaiseSuccess
Fails ==
    \/ StepFails \/ RaiseHalFailed \/ ErrorPath \/ RaiseFailure
Runs ==
    \/ RunLock \/ RunBegin \/ StartPoller \/ ShutdownRequested \/ LeaveLock
    \/ LeaveUnlock \/ RaiseShutdown
TakesDown ==
    \/ ClearController \/ UnregisterTr181 \/ CloseBus \/ StopPoller
    \/ StopIdlePoller \/ JoinPoller \/ FreePoller \/ DeinitHal \/ ClearData
    \/ FreeData \/ FreeQueue \/ FreeController \/ TelemetryCleanup \/ T2Uninit

\* A step of main().
MainMoves == Starts \/ Fails \/ Runs \/ TakesDown

\* A step of another thread.
ThreadMoves ==
    \/ \E b \in BusThread : HandlerStarts(b) \/ Handler(b)
    \/ \E h \in HalThread : CallbackStarts(h) \/ Callback(h)
    \/ Poller

LEMMA StepCases == [Next]_vars => MainMoves \/ ThreadMoves \/ UNCHANGED vars
  BY DEF Next, MainStep, MainMoves, ThreadMoves, Starts, Fails, Runs, TakesDown

\* main() leaves the other threads where they are, but for the poller it creates,
\* and never takes the data mutex for longer than a step.
LEMMA MainFrame ==
    ASSUME TypeOK, MainMoves
    PROVE  /\ \A t \in BusThread \cup HalThread : pc'[t] = pc[t]
           /\ pc'["poller"] # pc["poller"] =>
                 /\ pc["main"] = "start_poller" /\ CanStart
                 /\ pc'["poller"] = "created" /\ ~stopping'
           /\ dataMutex' = dataMutex /\ crashed' = crashed
           /\ object'["data"] = "freed" => object["data"] = "freed" \/ dataMutex = Nobody
<1> USE LifecycleAssumption DEF TypeOK, Thread, Object
<1>1. CASE Starts
  BY <1>1
  DEF Starts, TelemetryInit, T2Init, AllocController, OpenBus, LoadConfig,
    InitQueue, InitData, InitHal, CheckVersion, InitPoller, RegisterTr181,
    RegisterFails, SyncTables, Publish, RaiseSuccess, Allocates, Marks, Main,
    Moves, mutexes
<1>2. CASE Fails
  BY <1>2
  DEF Fails, StepFails, RaiseHalFailed, ErrorPath, RaiseFailure, Marks, Frees,
    Main, Moves, mutexes
<1>3. CASE Runs
  BY <1>3
  DEF Runs, RunLock, RunBegin, StartPoller, StartsPoller, ShutdownRequested, LeaveLock,
    LeaveUnlock, RaiseShutdown, MainLocks, MainUnlocks, Marks, Main, Moves, mutexes
<1>4. CASE TakesDown
  BY <1>4
  DEF TakesDown, ClearController, UnregisterTr181, CloseBus, StopPoller,
    StopIdlePoller, JoinPoller, FreePoller, DeinitHal, ClearData, FreeData,
    FreeQueue, FreeController, TelemetryCleanup, T2Uninit, FreesThen, Frees,
    PollerRuns, Main, Moves, mutexes
<1>5. QED
  BY <1>1, <1>2, <1>3, <1>4 DEF MainMoves

\* The step of a handler that stays within its thread.
Stays(b) ==
    /\ pc[b] # "idle" \/ served
    /\ pc' = pc \/ \E q \in BusPoint : q # "set_join" /\ pc' = [pc EXCEPT ![b] = q]
    /\ UNCHANGED <<object, globals, outside, telemetry, stopping, sent>>
    /\ crashed' \in {crashed, TRUE}

\* A step of a handler stays within its thread, or stops or starts the poller's.
LEMMA HandlerShape ==
    ASSUME NEW b \in BusThread, HandlerStarts(b) \/ Handler(b)
    PROVE  \/ Stays(b)
           \/ /\ PollerRuns /\ Moves(b, "in_set", "set_join") /\ stopping' = TRUE
              /\ UNCHANGED <<object, globals, outside, telemetry, sent, crashed>>
           \/ pc[b] = "set_end" /\ StartsPoller(b, "set_unlock")
<1> USE DEF Stays, Steps, Moves, BusPoint, SetPoint
<1>1. CASE HandlerStarts(b)
  BY <1>1 DEF HandlerStarts
<1>2. CASE DataLock(b) \/ DataLocked(b) \/ DataWork(b) \/ DataUnlock(b)
  BY <1>2 DEF DataLock, DataLocked, DataWork, DataUnlock
<1>3. CASE GetLock(b) \/ GetLocked(b) \/ GetRead(b) \/ GetUnlock(b)
  BY <1>3 DEF GetLock, GetLocked, GetRead, GetUnlock, CtrlLocked, CtrlUnlocked
<1>4. CASE SetLock(b) \/ SetLocked(b) \/ SetJoined(b) \/ SetConfig(b) \/ SetRelock(b)
  BY <1>4 DEF SetLock, SetLocked, SetJoined, SetConfig, SetRelock, CtrlLocked
<1>5. CASE SetRelocked(b) \/ SetSave(b) \/ SetSaved(b) \/ SetUnlock(b)
  BY <1>5 DEF SetRelocked, SetSave, SetSaved, SetUnlock, CtrlLocked, CtrlUnlocked
<1>6. CASE SetBegin(b)
  BY <1>6 DEF SetBegin
<1>7. CASE SetEnd(b)
  BY <1>7 DEF SetEnd
<1>8. CASE Dispatch(b, "idle")
  BY <1>8 DEF Dispatch
<1>9. CASE HandlerCrashes(b)
  BY <1>9 DEF HandlerCrashes, Crashes
<1>10. QED
  BY <1>1, <1>2, <1>3, <1>4, <1>5, <1>6, <1>7, <1>8, <1>9 DEF Handler, Set

\* A handler moves its own thread; a SET may also stop or start the poller's.
LEMMA HandlerFrame ==
    ASSUME TypeOK, NEW b \in BusThread, HandlerStarts(b) \/ Handler(b)
    PROVE  /\ \A t \in Thread \ {b, "poller"} : pc'[t] = pc[t]
           /\ pc' \in [Thread -> MainPoint \cup BusPoint \cup HalPoint \cup PollerPoint]
           /\ pc'[b] \in BusPoint
           /\ pc[b] # "idle" \/ served
           /\ \/ /\ pc'["poller"] = pc["poller"] /\ stopping' = stopping
                 /\ pc'[b] = "set_join" => pc[b] = "set_join"
              \/ /\ pc'["poller"] = pc["poller"] /\ stopping' /\ PollerRuns
                 /\ pc[b] = "in_set"
              \/ /\ CanStart /\ pc'["poller"] = "created" /\ ~stopping'
                 /\ pc[b] = "set_end" /\ pc'[b] = "set_unlock"
           /\ stopping' \in BOOLEAN /\ crashed' \in BOOLEAN
           /\ UNCHANGED <<object, globals, outside, telemetry, sent>>
<1> DEFINE Point == MainPoint \cup BusPoint \cup HalPoint \cup PollerPoint
<1>1. /\ pc \in [Thread -> Point] /\ pc[b] \in BusPoint
      /\ stopping \in BOOLEAN /\ crashed \in BOOLEAN
  BY DEF TypeOK
<1>2. /\ b \in Thread /\ "poller" \in Thread /\ b # "poller"
      /\ {"idle", "set_join", "set_unlock"} \subseteq BusPoint
      /\ "created" \in PollerPoint
  BY LifecycleAssumption DEF Thread, BusPoint, SetPoint, PollerPoint
<1> HIDE DEF Point
<1>3. CASE Stays(b)
  <2>1. pc' = pc \/ \E q \in BusPoint : q # "set_join" /\ pc' = [pc EXCEPT ![b] = q]
    BY <1>3 DEF Stays
  <2>2. /\ \A t \in Thread \ {b} : pc'[t] = pc[t]
        /\ pc' \in [Thread -> Point] /\ pc'[b] \in BusPoint
        /\ pc'[b] = "set_join" => pc[b] = "set_join"
    BY <1>1, <1>2, <2>1 DEF Point
  <2>3. QED
    BY <1>1, <1>2, <1>3, <2>2 DEF Stays, Point
<1>4. CASE /\ PollerRuns /\ Moves(b, "in_set", "set_join") /\ stopping' = TRUE
           /\ UNCHANGED <<object, globals, outside, telemetry, sent, crashed>>
  <2>1. /\ \A t \in Thread \ {b} : pc'[t] = pc[t]
        /\ pc' \in [Thread -> Point] /\ pc'[b] \in BusPoint /\ pc[b] = "in_set"
    BY <1>1, <1>2, <1>4 DEF Moves, Point
  <2>2. QED
    BY <1>1, <1>2, <1>4, <2>1 DEF Point
<1>5. CASE pc[b] = "set_end" /\ StartsPoller(b, "set_unlock")
  <2>1. pc' = [pc EXCEPT ![b] = "set_unlock", !["poller"] = "created"]
    BY <1>5 DEF StartsPoller
  <2>2. /\ \A t \in Thread \ {b, "poller"} : pc'[t] = pc[t]
        /\ pc' \in [Thread -> Point] /\ pc'[b] = "set_unlock" /\ pc'["poller"] = "created"
    BY <1>1, <1>2, <2>1 DEF Point
  <2>3. QED
    BY <1>1, <1>2, <1>5, <2>2 DEF StartsPoller, Point
<1>6. QED
  BY <1>3, <1>4, <1>5, HandlerShape

\* A handler takes a mutex that is free, and frees one.
LEMMA HandlerMutexes ==
    ASSUME TypeOK, NEW b \in BusThread, HandlerStarts(b) \/ Handler(b)
    PROVE  /\ dataMutex' \in {dataMutex, b, Nobody}
           /\ ctrlMutex' \in {ctrlMutex, b, Nobody}
  BY DEF HandlerStarts, Handler, DataLock, DataLocked, DataWork, DataUnlock, GetLock,
    GetLocked, GetRead, GetUnlock, Set, SetLock, SetLocked, SetBegin, SetJoined, SetConfig,
    SetRelock, SetRelocked, SetSave, SetSaved, SetEnd, SetUnlock, StartsPoller,
    CtrlLocked, CtrlUnlocked, HandlerCrashes, Steps, Dispatch, Crashes, mutexes

\* The other threads change what they share with main() in the mutexes only; a SET
\* also asks the poller to stop, or not to.
LEMMA ThreadFrame ==
    ASSUME TypeOK, ThreadMoves
    PROVE  /\ pc'["main"] = pc["main"]
           /\ UNCHANGED <<object, globals, outside, telemetry, sent>>
           /\ ~(\E b \in BusThread : HandlerStarts(b) \/ Handler(b)) => stopping' = stopping
<1> USE LifecycleAssumption
    DEF TypeOK, Thread, Steps, Dispatch, Crashes, Moves, globals, outside, telemetry, mutexes
<1>1. ASSUME NEW b \in BusThread, HandlerStarts(b) \/ Handler(b)
      PROVE  /\ pc'["main"] = pc["main"]
             /\ UNCHANGED <<object, globals, outside, telemetry, sent>>
  <2>1. "main" \in Thread \ {b, "poller"}
    OBVIOUS
  <2>2. QED
    BY <1>1, <2>1, HandlerFrame
<1>2. ASSUME NEW h \in HalThread, CallbackStarts(h) \/ Callback(h)
      PROVE  /\ pc'["main"] = pc["main"]
             /\ UNCHANGED <<object, globals, outside, telemetry, stopping, sent>>
  BY <1>2 DEF CallbackStarts, Callback
<1>3. ASSUME Poller
      PROVE  /\ pc'["main"] = pc["main"]
             /\ UNCHANGED <<object, globals, outside, telemetry, stopping, sent>>
  BY <1>3 DEF Poller, PollerLocks, PollerUnlocks
<1>4. QED
  BY <1>1, <1>2, <1>3 DEF ThreadMoves

-----------------------------------------------------------------------------
\* main() before its first step satisfies the invariant.
LEMMA InitInv == Init => IInv
<1> SUFFICES ASSUME Init PROVE IInv
  OBVIOUS
<1> USE LifecycleAssumption DEF Init, Thread
<1>1. pc["main"] = "start" /\ pc["poller"] = "none"
      /\ \A t \in BusThread \cup HalThread : pc[t] = "idle"
  OBVIOUS
<1>2. TypeOK
  <2>1. pc \in [Thread -> {"start", "none", "idle"}]
    OBVIOUS
  <2>2. pc \in [Thread -> MainPoint \cup BusPoint \cup HalPoint \cup PollerPoint]
    BY <2>1 DEF MainPoint, BringUp, BusPoint, PollerPoint
  <2>3. /\ pc["main"] \in MainPoint /\ pc["poller"] \in PollerPoint
        /\ \A b \in BusThread : pc[b] \in BusPoint
        /\ \A h \in HalThread : pc[h] \in HalPoint
    BY <1>1 DEF MainPoint, BringUp, BusPoint, HalPoint, PollerPoint
  <2>4. object \in [Object -> {"none", "live", "freed"}]
    OBVIOUS
  <2>5. sent \in Seq({"HAL_FAILED", "INIT_FAILURE", "INIT_SUCCESS", "SHUTDOWN"})
    OBVIOUS
  <2>6. QED
    BY <2>2, <2>3, <2>4, <2>5 DEF TypeOK
<1>3. \A o \in Object : object[o] = "none"
  OBVIOUS
<1>4. Owned("start")
  BY <1>3
  DEF Owned, Object, HasPoller, HasData, HasQueue, HasConfig, HasCtrl, Serving, Freeing
<1>5. Connected("start")
  BY DEF Connected, HasPoller, HasData, HasBus, Serving
<1>6. AtWork("start") /\ MutexInv
  BY <1>1 DEF AtWork, MutexInv, Owns, Freeing, End
<1>7. Reported("start")
  BY DEF Reported, TakeDown, End
<1>8. QED
  BY <1>1, <1>2, <1>4, <1>5, <1>6, <1>7 DEF IInv

\* Each action keeps the state within its types.
LEMMA TypeStep == IInv /\ [Next]_vars => TypeOK'
<1> SUFFICES ASSUME IInv, [Next]_vars PROVE TypeOK'
  OBVIOUS
<1> USE LifecycleAssumption
    DEF IInv, TypeOK, Thread, Object, MainPoint, BringUp, TakeDown, BusPoint, SetPoint,
      HalPoint, PollerPoint
<1>1. CASE Starts
  <2>1. CASE TelemetryInit
    BY <2>1
    DEF TelemetryInit, Main, Moves, globals, outside, telemetry, mutexes
  <2>2. CASE T2Init
    BY <2>2
    DEF T2Init, Main, Moves, globals, outside, telemetry, mutexes
  <2>3. CASE AllocController
    BY <2>3
    DEF AllocController, Allocates, Main, Moves, globals, outside, telemetry,
      mutexes
  <2>4. CASE OpenBus
    BY <2>4
    DEF OpenBus, Main, Moves, globals, outside, telemetry, mutexes
  <2>5. CASE LoadConfig
    BY <2>5
    DEF LoadConfig, Allocates, Main, Moves, globals, outside, telemetry, mutexes
  <2>6. CASE InitQueue
    BY <2>6
    DEF InitQueue, Allocates, Main, Moves, globals, outside, telemetry, mutexes
  <2>7. CASE InitData
    BY <2>7
    DEF InitData, Main, Moves, globals, outside, telemetry, mutexes
  <2>8. CASE InitHal
    BY <2>8
    DEF InitHal, Main, Moves, globals, outside, telemetry, mutexes
  <2>9. CASE CheckVersion
    BY <2>9
    DEF CheckVersion, Main, Moves, globals, outside, telemetry, mutexes
  <2>10. CASE InitPoller
    BY <2>10
    DEF InitPoller, Allocates, Main, Moves, globals, outside, telemetry, mutexes
  <2>11. CASE RegisterTr181
    BY <2>11
    DEF RegisterTr181, Main, Moves, globals, outside, telemetry, mutexes
  <2>12. CASE RegisterFails
    BY <2>12
    DEF RegisterFails, Main, Moves, globals, outside, telemetry, mutexes
  <2>13. CASE SyncTables
    BY <2>13
    DEF SyncTables, Main, Moves, globals, outside, telemetry, mutexes
  <2>14. CASE Publish
    BY <2>14
    DEF Publish, Main, Moves, globals, outside, telemetry, mutexes
  <2>15. CASE RaiseSuccess
    BY <2>15
    DEF RaiseSuccess, Marks, Main, Moves, globals, outside, telemetry, mutexes
  <2>16. QED
    BY <1>1, <2>1, <2>2, <2>3, <2>4, <2>5, <2>6, <2>7, <2>8, <2>9, <2>10, <2>11,
      <2>12, <2>13, <2>14, <2>15 DEF Starts
<1>2. CASE Fails
  <2>1. CASE StepFails
    <3>1. pc["main"] \in MainPoint /\ \E q \in {"error", "failure", "wrong_mode"} :
             pc' = [pc EXCEPT !["main"] = q]
      BY <2>1 DEF StepFails, Main, Moves
    <3>2. QED
      BY <2>1, <3>1 DEF StepFails, globals, outside, telemetry, mutexes
  <2>2. CASE RaiseHalFailed
    BY <2>2
    DEF RaiseHalFailed, Marks, Main, Moves, globals, outside, telemetry, mutexes
  <2>3. CASE ErrorPath
    BY <2>3
    DEF ErrorPath, Frees, Main, Moves, globals, outside, telemetry, mutexes
  <2>4. CASE RaiseFailure
    BY <2>4
    DEF RaiseFailure, Marks, Main, Moves, globals, outside, telemetry, mutexes
  <2>5. QED
    BY <1>2, <2>1, <2>2, <2>3, <2>4 DEF Fails
<1>3. CASE Runs
  <2>1. CASE RunLock
    BY <2>1
    DEF RunLock, MainLocks, Main, Moves, globals, outside, telemetry, mutexes
  <2>2. CASE RunBegin
    BY <2>2
    DEF RunBegin, MainUnlocks, Main, Moves, globals, outside, telemetry, mutexes
  <2>3. CASE StartPoller
    <3>1. CASE Main("start_poller", "loop")
          /\ UNCHANGED <<object, globals, outside, telemetry, mutexes, stopping, sent, crashed>>
      BY <3>1 DEF Main, Moves, globals, outside, telemetry, mutexes
    <3>2. CASE StartsPoller("main", "loop")
      <4>1. pc' = [pc EXCEPT !["main"] = "loop", !["poller"] = "created"]
        BY <3>2 DEF StartsPoller
      <4>2. /\ pc' \in [Thread -> MainPoint \cup BusPoint \cup HalPoint \cup PollerPoint]
            /\ pc'["main"] \in MainPoint /\ pc'["poller"] \in PollerPoint
            /\ \A t \in BusThread \cup HalThread : pc'[t] = pc[t]
        BY <4>1
      <4>3. /\ UNCHANGED <<object, globals, outside, telemetry, mutexes, sent, crashed>>
            /\ stopping' = FALSE
        BY <3>2 DEF StartsPoller
      <4>4. QED
        BY <4>2, <4>3 DEF globals, outside, telemetry, mutexes
    <3>3. QED
      BY <2>3, <3>1, <3>2 DEF StartPoller
  <2>4. CASE ShutdownRequested
    BY <2>4
    DEF ShutdownRequested, Main, Moves, globals, outside, telemetry, mutexes
  <2>5. CASE LeaveLock
    BY <2>5
    DEF LeaveLock, MainLocks, Main, Moves, globals, outside, telemetry, mutexes
  <2>6. CASE LeaveUnlock
    BY <2>6
    DEF LeaveUnlock, MainUnlocks, Main, Moves, globals, outside, telemetry, mutexes
  <2>7. CASE RaiseShutdown
    BY <2>7
    DEF RaiseShutdown, Marks, Main, Moves, globals, outside, telemetry, mutexes
  <2>8. QED
    BY <1>3, <2>1, <2>2, <2>3, <2>4, <2>5, <2>6, <2>7 DEF Runs
<1>4. CASE TakesDown
  <2>1. CASE ClearController
    BY <2>1
    DEF ClearController, Main, Moves, globals, outside, telemetry, mutexes
  <2>2. CASE UnregisterTr181
    BY <2>2
    DEF UnregisterTr181, Main, Moves, globals, outside, telemetry, mutexes
  <2>3. CASE CloseBus
    BY <2>3
    DEF CloseBus, Main, Moves, globals, outside, telemetry, mutexes
  <2>4. CASE StopPoller
    BY <2>4
    DEF StopPoller, PollerRuns, Main, Moves, globals, outside, telemetry, mutexes
  <2>5. CASE StopIdlePoller
    BY <2>5
    DEF StopIdlePoller, PollerRuns, Main, Moves, globals, outside, telemetry,
      mutexes
  <2>6. CASE JoinPoller
    BY <2>6
    DEF JoinPoller, Main, Moves, globals, outside, telemetry, mutexes
  <2>7. CASE FreePoller
    BY <2>7
    DEF FreePoller, FreesThen, Frees, Main, Moves, globals, outside, telemetry,
      mutexes
  <2>8. CASE DeinitHal
    BY <2>8
    DEF DeinitHal, Main, Moves, globals, outside, telemetry, mutexes
  <2>9. CASE ClearData
    BY <2>9
    DEF ClearData, Main, Moves, globals, outside, telemetry, mutexes
  <2>10. CASE FreeData
    BY <2>10
    DEF FreeData, FreesThen, Frees, Main, Moves, globals, outside, telemetry,
      mutexes
  <2>11. CASE FreeQueue
    BY <2>11
    DEF FreeQueue, FreesThen, Frees, Main, Moves, globals, outside, telemetry,
      mutexes
  <2>12. CASE FreeController
    BY <2>12
    DEF FreeController, FreesThen, Frees, Main, Moves, globals, outside, telemetry,
      mutexes
  <2>13. CASE TelemetryCleanup
    BY <2>13
    DEF TelemetryCleanup, Main, Moves, globals, outside, telemetry, mutexes
  <2>14. CASE T2Uninit
    BY <2>14
    DEF T2Uninit, Main, Moves, globals, outside, telemetry, mutexes
  <2>15. QED
    BY <1>4, <2>1, <2>2, <2>3, <2>4, <2>5, <2>6, <2>7, <2>8, <2>9, <2>10, <2>11,
      <2>12, <2>13, <2>14 DEF TakesDown
<1>5. ASSUME NEW b \in BusThread, HandlerStarts(b) \/ Handler(b) PROVE TypeOK'
  <2>1. /\ UNCHANGED <<object, globals, outside, telemetry, sent>>
        /\ stopping' \in BOOLEAN /\ crashed' \in BOOLEAN
    BY <1>5, HandlerFrame
  <2>2. dataMutex' \in {dataMutex, b, Nobody} /\ ctrlMutex' \in {ctrlMutex, b, Nobody}
    BY <1>5, HandlerMutexes
  <2>3. /\ pc' \in [Thread -> MainPoint \cup BusPoint \cup HalPoint \cup PollerPoint]
        /\ pc'["main"] \in MainPoint /\ pc'["poller"] \in PollerPoint
        /\ \A t \in BusThread : pc'[t] \in BusPoint
        /\ \A t \in HalThread : pc'[t] \in HalPoint
    <3>1. pc' \in [Thread -> MainPoint \cup BusPoint \cup HalPoint \cup PollerPoint]
          /\ pc'[b] \in BusPoint /\ pc'["poller"] \in {pc["poller"], "created"}
          /\ \A t \in Thread \ {b, "poller"} : pc'[t] = pc[t]
      BY <1>5, HandlerFrame
    <3>2. /\ "main" \in Thread \ {b, "poller"} /\ "poller" \notin BusThread
          /\ \A h \in HalThread : h \in Thread \ {b, "poller"}
          /\ \A c \in BusThread \ {b} : c \in Thread \ {b, "poller"}
      OBVIOUS
    <3>3. "created" \in PollerPoint
      OBVIOUS
    <3>4. /\ pc["main"] \in MainPoint /\ pc["poller"] \in PollerPoint
          /\ \A c \in BusThread : pc[c] \in BusPoint
          /\ \A h \in HalThread : pc[h] \in HalPoint
      OBVIOUS
    <3> HIDE DEF IInv, TypeOK, Thread, MainPoint, BusPoint, HalPoint, PollerPoint
    <3>5. QED
      BY <3>1, <3>2, <3>3, <3>4
  <2>4. QED
    BY <2>1, <2>2, <2>3 DEF globals, outside, telemetry
<1>6. ASSUME NEW h \in HalThread, CallbackStarts(h) \/ Callback(h) PROVE TypeOK'
  <2>1. UNCHANGED <<object, globals, outside, telemetry, stopping, sent>>
    BY <1>6 DEF CallbackStarts, Callback, Steps, Dispatch, Crashes
  <2>2. (pc' = pc \/ \E q \in HalPoint : pc' = [pc EXCEPT ![h] = q]) /\ crashed' \in BOOLEAN
    BY <1>6 DEF CallbackStarts, Callback, Steps, Dispatch, Crashes, Moves
  <2>3. UNCHANGED mutexes
    BY <1>6 DEF CallbackStarts, Callback, Steps, Dispatch, Crashes
  <2>4. /\ pc' \in [Thread -> MainPoint \cup BusPoint \cup HalPoint \cup PollerPoint]
        /\ pc'["main"] \in MainPoint /\ pc'["poller"] \in PollerPoint
        /\ \A t \in BusThread : pc'[t] \in BusPoint
        /\ \A t \in HalThread : pc'[t] \in HalPoint
    <3>1. CASE pc' = pc
      BY <3>1
    <3>2. CASE \E q \in HalPoint : pc' = [pc EXCEPT ![h] = q]
      BY <3>2
    <3>3. QED
      BY <2>2, <3>1, <3>2
  <2>5. QED
    BY <2>1, <2>2, <2>3, <2>4 DEF globals, outside, telemetry, mutexes
<1>7. CASE Poller
  <2>1. UNCHANGED <<object, globals, outside, telemetry, stopping, sent>>
    BY <1>7 DEF Poller, PollerLocks, PollerUnlocks, Steps, Dispatch
  <2>2. \E q \in PollerPoint : pc' = [pc EXCEPT !["poller"] = q]
    BY <1>7 DEF Poller, PollerLocks, PollerUnlocks, Steps, Dispatch, Moves
  <2>3. dataMutex' \in {dataMutex, "poller", Nobody} /\ UNCHANGED <<ctrlMutex, crashed>>
    BY <1>7 DEF Poller, PollerLocks, PollerUnlocks, Steps, Dispatch, mutexes
  <2>4. QED
    BY <2>1, <2>2, <2>3 DEF globals, outside, telemetry
<1>8. CASE UNCHANGED vars
  BY <1>8 DEF vars, globals, outside, telemetry, mutexes
<1>9. QED
  BY StepCases, <1>1, <1>2, <1>3, <1>4, <1>5, <1>6, <1>7, <1>8 DEF MainMoves, ThreadMoves

\* main() allocates and frees each object once, at the points that bound its life.
LEMMA OwnedStep == IInv /\ [Next]_vars => Owned(pc["main"])'
<1> SUFFICES ASSUME IInv, [Next]_vars PROVE Owned(pc["main"])'
  OBVIOUS
<1> USE LifecycleAssumption
    DEF IInv, TypeOK, Thread, Object, Owned, HasPoller, HasData, HasQueue,
      HasConfig, HasCtrl, Serving, Freeing, End
<1>1. CASE Starts
  <2>1. CASE TelemetryInit
    BY <2>1
    DEF TelemetryInit, Main, Moves
  <2>2. CASE T2Init
    BY <2>2
    DEF T2Init, Main, Moves
  <2>3. CASE AllocController
    BY <2>3
    DEF AllocController, Allocates, Main, Moves
  <2>4. CASE OpenBus
    BY <2>4
    DEF OpenBus, Main, Moves
  <2>5. CASE LoadConfig
    BY <2>5
    DEF LoadConfig, Allocates, Main, Moves
  <2>6. CASE InitQueue
    BY <2>6
    DEF InitQueue, Allocates, Main, Moves
  <2>7. CASE InitData
    BY <2>7
    DEF InitData, Main, Moves
  <2>8. CASE InitHal
    BY <2>8
    DEF InitHal, Main, Moves
  <2>9. CASE CheckVersion
    BY <2>9
    DEF CheckVersion, Main, Moves
  <2>10. CASE InitPoller
    BY <2>10
    DEF InitPoller, Allocates, Main, Moves
  <2>11. CASE RegisterTr181
    BY <2>11
    DEF RegisterTr181, Main, Moves
  <2>12. CASE RegisterFails
    BY <2>12
    DEF RegisterFails, Main, Moves
  <2>13. CASE SyncTables
    BY <2>13
    DEF SyncTables, Main, Moves
  <2>14. CASE Publish
    BY <2>14
    DEF Publish, Main, Moves
  <2>15. CASE RaiseSuccess
    BY <2>15
    DEF RaiseSuccess, Marks, Main, Moves
  <2>16. QED
    BY <1>1, <2>1, <2>2, <2>3, <2>4, <2>5, <2>6, <2>7, <2>8, <2>9, <2>10, <2>11,
      <2>12, <2>13, <2>14, <2>15 DEF Starts
<1>2. CASE Fails
  <2>1. CASE StepFails
    BY <2>1
    DEF StepFails, Main, Moves
  <2>2. CASE RaiseHalFailed
    BY <2>2
    DEF RaiseHalFailed, Marks, Main, Moves
  <2>3. CASE ErrorPath
    BY <2>3
    DEF ErrorPath, Frees, Main, Moves
  <2>4. CASE RaiseFailure
    BY <2>4
    DEF RaiseFailure, Marks, Main, Moves
  <2>5. QED
    BY <1>2, <2>1, <2>2, <2>3, <2>4 DEF Fails
<1>3. CASE Runs
  BY <1>3
  DEF Runs, RunLock, RunBegin, StartPoller, StartsPoller, ShutdownRequested, LeaveLock,
    LeaveUnlock, RaiseShutdown, MainLocks, MainUnlocks, Marks, Main, Moves
<1>4. CASE TakesDown
  <2>1. CASE ClearController
    BY <2>1
    DEF ClearController, Main, Moves
  <2>2. CASE UnregisterTr181
    BY <2>2
    DEF UnregisterTr181, Main, Moves
  <2>3. CASE CloseBus
    BY <2>3
    DEF CloseBus, Main, Moves
  <2>4. CASE StopPoller
    BY <2>4
    DEF StopPoller, PollerRuns, Main, Moves
  <2>5. CASE StopIdlePoller
    BY <2>5
    DEF StopIdlePoller, PollerRuns, Main, Moves
  <2>6. CASE JoinPoller
    BY <2>6
    DEF JoinPoller, Main, Moves
  <2>7. CASE FreePoller
    BY <2>7
    DEF FreePoller, FreesThen, Frees, Main, Moves
  <2>8. CASE DeinitHal
    BY <2>8
    DEF DeinitHal, Main, Moves
  <2>9. CASE ClearData
    BY <2>9
    DEF ClearData, Main, Moves
  <2>10. CASE FreeData
    BY <2>10
    DEF FreeData, FreesThen, Frees, Main, Moves
  <2>11. CASE FreeQueue
    BY <2>11
    DEF FreeQueue, FreesThen, Frees, Main, Moves
  <2>12. CASE FreeController
    BY <2>12
    DEF FreeController, FreesThen, Frees, Main, Moves
  <2>13. CASE TelemetryCleanup
    BY <2>13
    DEF TelemetryCleanup, Main, Moves
  <2>14. CASE T2Uninit
    BY <2>14
    DEF T2Uninit, Main, Moves
  <2>15. QED
    BY <1>4, <2>1, <2>2, <2>3, <2>4, <2>5, <2>6, <2>7, <2>8, <2>9, <2>10, <2>11,
      <2>12, <2>13, <2>14 DEF TakesDown
<1>5. CASE ThreadMoves
  BY <1>5, ThreadFrame DEF IInv
<1>6. CASE UNCHANGED vars
  BY <1>6 DEF vars, Owned
<1>7. QED
  BY <1>1, <1>2, <1>3, <1>4, <1>5, <1>6, StepCases DEF MainMoves

\* Each flag and pointer is set and cleared where main() is at the bounds of its use.
LEMMA ConnectedStep == IInv /\ [Next]_vars => Connected(pc["main"])'
<1> SUFFICES ASSUME IInv, [Next]_vars PROVE Connected(pc["main"])'
  OBVIOUS
<1> USE LifecycleAssumption
    DEF IInv, TypeOK, Thread, Connected, HasPoller, HasData, HasBus, Serving,
      Published, globals, outside, telemetry
<1>1. CASE Starts
  <2>1. CASE TelemetryInit
    BY <2>1
    DEF TelemetryInit, Main, Moves
  <2>2. CASE T2Init
    BY <2>2
    DEF T2Init, Main, Moves
  <2>3. CASE AllocController
    BY <2>3
    DEF AllocController, Allocates, Main, Moves
  <2>4. CASE OpenBus
    BY <2>4
    DEF OpenBus, Main, Moves
  <2>5. CASE LoadConfig
    BY <2>5
    DEF LoadConfig, Allocates, Main, Moves
  <2>6. CASE InitQueue
    BY <2>6
    DEF InitQueue, Allocates, Main, Moves
  <2>7. CASE InitData
    BY <2>7
    DEF InitData, Main, Moves
  <2>8. CASE InitHal
    BY <2>8
    DEF InitHal, Main, Moves
  <2>9. CASE CheckVersion
    BY <2>9
    DEF CheckVersion, Main, Moves
  <2>10. CASE InitPoller
    BY <2>10
    DEF InitPoller, Allocates, Main, Moves
  <2>11. CASE RegisterTr181
    BY <2>11
    DEF RegisterTr181, Main, Moves
  <2>12. CASE RegisterFails
    BY <2>12
    DEF RegisterFails, Main, Moves
  <2>13. CASE SyncTables
    BY <2>13
    DEF SyncTables, Main, Moves
  <2>14. CASE Publish
    BY <2>14
    DEF Publish, Main, Moves
  <2>15. CASE RaiseSuccess
    BY <2>15
    DEF RaiseSuccess, Marks, Main, Moves
  <2>16. QED
    BY <1>1, <2>1, <2>2, <2>3, <2>4, <2>5, <2>6, <2>7, <2>8, <2>9, <2>10, <2>11,
      <2>12, <2>13, <2>14, <2>15 DEF Starts
<1>2. CASE Fails
  <2>1. CASE StepFails
    BY <2>1
    DEF StepFails, Main, Moves
  <2>2. CASE RaiseHalFailed
    BY <2>2
    DEF RaiseHalFailed, Marks, Main, Moves
  <2>3. CASE ErrorPath
    BY <2>3
    DEF ErrorPath, Frees, Main, Moves
  <2>4. CASE RaiseFailure
    BY <2>4
    DEF RaiseFailure, Marks, Main, Moves
  <2>5. QED
    BY <1>2, <2>1, <2>2, <2>3, <2>4 DEF Fails
<1>3. CASE Runs
  BY <1>3
  DEF Runs, RunLock, RunBegin, StartPoller, StartsPoller, ShutdownRequested, LeaveLock,
    LeaveUnlock, RaiseShutdown, MainLocks, MainUnlocks, Marks, Main, Moves
<1>4. CASE TakesDown
  <2>1. CASE ClearController
    BY <2>1
    DEF ClearController, Main, Moves
  <2>2. CASE UnregisterTr181
    BY <2>2
    DEF UnregisterTr181, Main, Moves
  <2>3. CASE CloseBus
    BY <2>3
    DEF CloseBus, Main, Moves
  <2>4. CASE StopPoller
    BY <2>4
    DEF StopPoller, PollerRuns, Main, Moves
  <2>5. CASE StopIdlePoller
    BY <2>5
    DEF StopIdlePoller, PollerRuns, Main, Moves
  <2>6. CASE JoinPoller
    BY <2>6
    DEF JoinPoller, Main, Moves
  <2>7. CASE FreePoller
    BY <2>7
    DEF FreePoller, FreesThen, Frees, Main, Moves
  <2>8. CASE DeinitHal
    BY <2>8
    DEF DeinitHal, Main, Moves
  <2>9. CASE ClearData
    BY <2>9
    DEF ClearData, Main, Moves
  <2>10. CASE FreeData
    BY <2>10
    DEF FreeData, FreesThen, Frees, Main, Moves
  <2>11. CASE FreeQueue
    BY <2>11
    DEF FreeQueue, FreesThen, Frees, Main, Moves
  <2>12. CASE FreeController
    BY <2>12
    DEF FreeController, FreesThen, Frees, Main, Moves
  <2>13. CASE TelemetryCleanup
    BY <2>13
    DEF TelemetryCleanup, Main, Moves
  <2>14. CASE T2Uninit
    BY <2>14
    DEF T2Uninit, Main, Moves
  <2>15. QED
    BY <1>4, <2>1, <2>2, <2>3, <2>4, <2>5, <2>6, <2>7, <2>8, <2>9, <2>10, <2>11,
      <2>12, <2>13, <2>14 DEF TakesDown
<1>5. CASE ThreadMoves
  BY <1>5, ThreadFrame DEF IInv
<1>6. CASE UNCHANGED vars
  BY <1>6 DEF vars, globals
<1>7. QED
  BY <1>1, <1>2, <1>3, <1>4, <1>5, <1>6, StepCases DEF MainMoves

\* Appending to the histories of at most one marker.
LEMMA Appended ==
    ASSUME NEW x, NEW y
    PROVE  Append(<<>>, y) = <<y>> /\ Append(<<x>>, y) = <<x, y>>
<1> DEFINE S == {x, y}
<1>1. <<>> \in Seq(S) /\ <<x>> \in Seq(S) /\ <<y>> \in Seq(S) /\ <<x, y>> \in Seq(S)
  OBVIOUS
<1>2. Append(<<>>, y) = <<y>>
  <2>1. Append(<<>>, y) \in Seq(S) /\ Len(Append(<<>>, y)) = 1 /\ Append(<<>>, y)[1] = y
    BY <1>1, AppendProperties
  <2>2. QED
    BY <1>1, <2>1, SeqEqual
<1>3. Append(<<x>>, y) = <<x, y>>
  <2>1. /\ Append(<<x>>, y) \in Seq(S) /\ Len(Append(<<x>>, y)) = 2
        /\ Append(<<x>>, y)[1] = x /\ Append(<<x>>, y)[2] = y
    BY <1>1, AppendProperties
  <2>2. Len(<<x, y>>) = 2 /\ <<x, y>>[1] = x /\ <<x, y>>[2] = y
    OBVIOUS
  <2>3. \A i \in 1 .. 2 : Append(<<x>>, y)[i] = <<x, y>>[i]
    BY <2>1, <2>2
  <2> HIDE DEF S
  <2>4. QED
    BY <1>1, <2>1, <2>2, <2>3, SeqEqual
<1>4. QED
  BY <1>2, <1>3

\* main() raises its markers once each and in order.
LEMMA ReportedStep == IInv /\ [Next]_vars => Reported(pc["main"])'
<1> SUFFICES ASSUME IInv, [Next]_vars PROVE Reported(pc["main"])'
  OBVIOUS
<1> USE LifecycleAssumption
    DEF IInv, TypeOK, Thread, Reported, Connected, TakeDown, BringUp, End
<1>1. CASE Starts
  <2>1. CASE TelemetryInit
    BY <2>1
    DEF TelemetryInit, Main, Moves, telemetry
  <2>2. CASE T2Init
    BY <2>2
    DEF T2Init, Main, Moves, telemetry
  <2>3. CASE AllocController
    BY <2>3
    DEF AllocController, Allocates, Main, Moves, telemetry
  <2>4. CASE OpenBus
    BY <2>4
    DEF OpenBus, Main, Moves, telemetry
  <2>5. CASE LoadConfig
    BY <2>5
    DEF LoadConfig, Allocates, Main, Moves, telemetry
  <2>6. CASE InitQueue
    BY <2>6
    DEF InitQueue, Allocates, Main, Moves, telemetry
  <2>7. CASE InitData
    BY <2>7
    DEF InitData, Main, Moves, telemetry
  <2>8. CASE InitHal
    BY <2>8
    DEF InitHal, Main, Moves, telemetry
  <2>9. CASE CheckVersion
    BY <2>9
    DEF CheckVersion, Main, Moves, telemetry
  <2>10. CASE InitPoller
    BY <2>10
    DEF InitPoller, Allocates, Main, Moves, telemetry
  <2>11. CASE RegisterTr181
    BY <2>11
    DEF RegisterTr181, Main, Moves, telemetry
  <2>12. CASE RegisterFails
    BY <2>12
    DEF RegisterFails, Main, Moves, telemetry
  <2>13. CASE SyncTables
    BY <2>13
    DEF SyncTables, Main, Moves, telemetry
  <2>14. CASE Publish
    BY <2>14
    DEF Publish, Main, Moves, telemetry
  <2>15. CASE RaiseSuccess
    BY <2>15
    DEF RaiseSuccess, Marks, Main, Moves, telemetry
  <2>16. QED
    BY <1>1, <2>1, <2>2, <2>3, <2>4, <2>5, <2>6, <2>7, <2>8, <2>9, <2>10, <2>11,
      <2>12, <2>13, <2>14, <2>15 DEF Starts
<1>2. CASE Fails
  <2>1. CASE StepFails
    BY <2>1
    DEF StepFails, Main, Moves, telemetry
  <2>2. CASE RaiseHalFailed
    BY <2>2
    DEF RaiseHalFailed, Marks, Main, Moves, telemetry
  <2>3. CASE ErrorPath
    BY <2>3
    DEF ErrorPath, Frees, Main, Moves, telemetry
  <2>4. CASE RaiseFailure
    <3>1. pc["main"] = "failure" /\ pc'["main"] = "cleanup" /\ sent \in {<<>>, <<"HAL_FAILED">>}
          /\ sent' = Append(sent, "INIT_FAILURE")
      BY <2>4 DEF RaiseFailure, Marks, Main, Moves
    <3>2. sent' \in {<<"INIT_FAILURE">>, <<"HAL_FAILED", "INIT_FAILURE">>}
      BY <3>1, Appended
    <3>3. QED
      BY <3>1, <3>2
  <2>5. QED
    BY <1>2, <2>1, <2>2, <2>3, <2>4 DEF Fails
<1>3. CASE Runs
  <2>1. CASE RunLock
    BY <2>1
    DEF RunLock, MainLocks, Main, Moves, telemetry
  <2>2. CASE RunBegin
    BY <2>2
    DEF RunBegin, MainUnlocks, Main, Moves, telemetry
  <2>3. CASE StartPoller
    BY <2>3
    DEF StartPoller, StartsPoller, Main, Moves, telemetry
  <2>4. CASE ShutdownRequested
    BY <2>4
    DEF ShutdownRequested, Main, Moves, telemetry
  <2>5. CASE LeaveLock
    BY <2>5
    DEF LeaveLock, MainLocks, Main, Moves, telemetry
  <2>6. CASE LeaveUnlock
    BY <2>6
    DEF LeaveUnlock, MainUnlocks, Main, Moves, telemetry
  <2>7. CASE RaiseShutdown
    <3>1. pc["main"] = "stopped" /\ pc'["main"] = "clear" /\ sent = <<"INIT_SUCCESS">>
          /\ sent' = Append(sent, "SHUTDOWN")
      BY <2>7 DEF RaiseShutdown, Marks, Main, Moves
    <3>2. sent' = <<"INIT_SUCCESS", "SHUTDOWN">>
      BY <3>1, Appended
    <3>3. QED
      BY <3>1, <3>2
  <2>8. QED
    BY <1>3, <2>1, <2>2, <2>3, <2>4, <2>5, <2>6, <2>7 DEF Runs
<1>4. CASE TakesDown
  <2>1. CASE ClearController
    BY <2>1
    DEF ClearController, Main, Moves, telemetry
  <2>2. CASE UnregisterTr181
    BY <2>2
    DEF UnregisterTr181, Main, Moves, telemetry
  <2>3. CASE CloseBus
    BY <2>3
    DEF CloseBus, Main, Moves, telemetry
  <2>4. CASE StopPoller
    BY <2>4
    DEF StopPoller, PollerRuns, Main, Moves, telemetry
  <2>5. CASE StopIdlePoller
    BY <2>5
    DEF StopIdlePoller, PollerRuns, Main, Moves, telemetry
  <2>6. CASE JoinPoller
    BY <2>6
    DEF JoinPoller, Main, Moves, telemetry
  <2>7. CASE FreePoller
    BY <2>7
    DEF FreePoller, FreesThen, Frees, Main, Moves, telemetry
  <2>8. CASE DeinitHal
    BY <2>8
    DEF DeinitHal, Main, Moves, telemetry
  <2>9. CASE ClearData
    BY <2>9
    DEF ClearData, Main, Moves, telemetry
  <2>10. CASE FreeData
    BY <2>10
    DEF FreeData, FreesThen, Frees, Main, Moves, telemetry
  <2>11. CASE FreeQueue
    BY <2>11
    DEF FreeQueue, FreesThen, Frees, Main, Moves, telemetry
  <2>12. CASE FreeController
    BY <2>12
    DEF FreeController, FreesThen, Frees, Main, Moves, telemetry
  <2>13. CASE TelemetryCleanup
    BY <2>13
    DEF TelemetryCleanup, Main, Moves, telemetry
  <2>14. CASE T2Uninit
    BY <2>14
    DEF T2Uninit, Main, Moves, telemetry
  <2>15. QED
    BY <1>4, <2>1, <2>2, <2>3, <2>4, <2>5, <2>6, <2>7, <2>8, <2>9, <2>10, <2>11,
      <2>12, <2>13, <2>14 DEF TakesDown
<1>5. CASE ThreadMoves
  BY <1>5, ThreadFrame DEF IInv
<1>6. CASE UNCHANGED vars
  BY <1>6 DEF vars, Reported
<1>7. QED
  BY <1>1, <1>2, <1>3, <1>4, <1>5, <1>6, StepCases DEF MainMoves

-----------------------------------------------------------------------------
\* Handlers, callbacks and the poller are at work only while main() keeps what
\* they use: rbus_close, epon_hal_deinit and the join wait for them.
LEMMA AtWorkStep == IInv /\ [Next]_vars => AtWork(pc["main"])'
<1> SUFFICES ASSUME IInv, [Next]_vars PROVE AtWork(pc["main"])'
  OBVIOUS
<1> USE LifecycleAssumption
    DEF IInv, TypeOK, Thread, Object, AtWork, PollerGone, Missed
<1>1. CASE Starts
  <2> USE <1>1, MainFrame DEF MainMoves
  <2>1. CASE TelemetryInit
    BY <2>1
    DEF TelemetryInit, Main, Moves, Serving, Published, Calling, Threaded,
      Stopping, Freeing, End, Connected, Owned, PollerRuns
  <2>2. CASE T2Init
    BY <2>2
    DEF T2Init, Main, Moves, Serving, Published, Calling, Threaded, Stopping,
      Freeing, End, Connected, Owned, PollerRuns
  <2>3. CASE AllocController
    BY <2>3
    DEF AllocController, Allocates, Main, Moves, Serving, Published, Calling,
      Threaded, Stopping, Freeing, End, Connected, Owned, PollerRuns
  <2>4. CASE OpenBus
    BY <2>4
    DEF OpenBus, Main, Moves, Serving, Published, Calling, Threaded, Stopping,
      Freeing, End, Connected, Owned, PollerRuns
  <2>5. CASE LoadConfig
    BY <2>5
    DEF LoadConfig, Allocates, Main, Moves, Serving, Published, Calling, Threaded,
      Stopping, Freeing, End, Connected, Owned, PollerRuns
  <2>6. CASE InitQueue
    BY <2>6
    DEF InitQueue, Allocates, Main, Moves, Serving, Published, Calling, Threaded,
      Stopping, Freeing, End, Connected, Owned, PollerRuns
  <2>7. CASE InitData
    BY <2>7
    DEF InitData, Main, Moves, Serving, Published, Calling, Threaded, Stopping,
      Freeing, End, Connected, Owned, PollerRuns
  <2>8. CASE InitHal
    BY <2>8
    DEF InitHal, Main, Moves, Serving, Published, Calling, Threaded, Stopping,
      Freeing, End, Connected, Owned, PollerRuns
  <2>9. CASE CheckVersion
    BY <2>9
    DEF CheckVersion, Main, Moves, Serving, Published, Calling, Threaded, Stopping,
      Freeing, End, Connected, Owned, PollerRuns
  <2>10. CASE InitPoller
    BY <2>10
    DEF InitPoller, Allocates, Main, Moves, Serving, Published, Calling, Threaded,
      Stopping, Freeing, End, Connected, Owned, PollerRuns
  <2>11. CASE RegisterTr181
    BY <2>11
    DEF RegisterTr181, Main, Moves, Serving, Published, Calling, Threaded,
      Stopping, Freeing, End, Connected, Owned, PollerRuns
  <2>12. CASE RegisterFails
    BY <2>12
    DEF RegisterFails, Main, Moves, Serving, Published, Calling, Threaded,
      Stopping, Freeing, End, Connected, Owned, PollerRuns
  <2>13. CASE SyncTables
    BY <2>13
    DEF SyncTables, Main, Moves, Serving, Published, Calling, Threaded, Stopping,
      Freeing, End, Connected, Owned, PollerRuns
  <2>14. CASE Publish
    BY <2>14
    DEF Publish, Main, Moves, Serving, Published, Calling, Threaded, Stopping,
      Freeing, End, Connected, Owned, PollerRuns
  <2>15. CASE RaiseSuccess
    BY <2>15
    DEF RaiseSuccess, Marks, Main, Moves, Serving, Published, Calling, Threaded,
      Stopping, Freeing, End, Connected, Owned, PollerRuns
  <2>16. QED
    BY <2>1, <2>2, <2>3, <2>4, <2>5, <2>6, <2>7, <2>8, <2>9, <2>10, <2>11, <2>12,
      <2>13, <2>14, <2>15 DEF Starts
<1>2. CASE Fails
  <2> USE <1>2, MainFrame DEF MainMoves
  <2>1. CASE StepFails
    BY <2>1
    DEF StepFails, Main, Moves, Serving, Published, Calling, Threaded, Stopping,
      Freeing, End, Connected, Owned, PollerRuns
  <2>2. CASE RaiseHalFailed
    BY <2>2
    DEF RaiseHalFailed, Marks, Main, Moves, Serving, Published, Calling, Threaded,
      Stopping, Freeing, End, Connected, Owned, PollerRuns
  <2>3. CASE ErrorPath
    BY <2>3
    DEF ErrorPath, Frees, Main, Moves, Serving, Published, Calling, Threaded,
      Stopping, Freeing, End, Connected, Owned, PollerRuns
  <2>4. CASE RaiseFailure
    BY <2>4
    DEF RaiseFailure, Marks, Main, Moves, Serving, Published, Calling, Threaded,
      Stopping, Freeing, End, Connected, Owned, PollerRuns
  <2>5. QED
    BY <2>1, <2>2, <2>3, <2>4 DEF Fails
<1>3. CASE Runs
  <2> USE <1>3, MainFrame DEF MainMoves
  <2>1. CASE RunLock
    BY <2>1
    DEF RunLock, MainLocks, Main, Moves, Serving, Published, Calling, Threaded,
      Stopping, Freeing, End, Connected, Owned, PollerRuns
  <2>2. CASE RunBegin
    BY <2>2
    DEF RunBegin, MainUnlocks, Main, Moves, Serving, Published, Calling, Threaded,
      Stopping, Freeing, End, Connected, Owned, PollerRuns
  <2>3. CASE StartPoller
    BY <2>3
    DEF StartPoller, StartsPoller, CanStart, Main, Moves, Serving, Published, Calling,
      Threaded, Stopping, Freeing, End, Connected, Owned, PollerRuns
  <2>4. CASE ShutdownRequested
    BY <2>4
    DEF ShutdownRequested, Main, Moves, Serving, Published, Calling, Threaded,
      Stopping, Freeing, End, Connected, Owned, PollerRuns
  <2>5. CASE LeaveLock
    BY <2>5
    DEF LeaveLock, MainLocks, Main, Moves, Serving, Published, Calling, Threaded,
      Stopping, Freeing, End, Connected, Owned, PollerRuns
  <2>6. CASE LeaveUnlock
    BY <2>6
    DEF LeaveUnlock, MainUnlocks, Main, Moves, Serving, Published, Calling,
      Threaded, Stopping, Freeing, End, Connected, Owned, PollerRuns
  <2>7. CASE RaiseShutdown
    BY <2>7
    DEF RaiseShutdown, Marks, Main, Moves, Serving, Published, Calling, Threaded,
      Stopping, Freeing, End, Connected, Owned, PollerRuns
  <2>8. QED
    BY <2>1, <2>2, <2>3, <2>4, <2>5, <2>6, <2>7 DEF Runs
<1>4. CASE TakesDown
  <2> USE <1>4, MainFrame DEF MainMoves
  <2>1. CASE ClearController
    BY <2>1
    DEF ClearController, Main, Moves, Serving, Published, Calling, Threaded,
      Stopping, Freeing, End, Connected, Owned, PollerRuns
  <2>2. CASE UnregisterTr181
    BY <2>2
    DEF UnregisterTr181, Main, Moves, Serving, Published, Calling, Threaded,
      Stopping, Freeing, End, Connected, Owned, PollerRuns
  <2>3. CASE CloseBus
    BY <2>3
    DEF CloseBus, Main, Moves, Serving, Published, Calling, Threaded, Stopping,
      Freeing, End, Connected, Owned, PollerRuns
  <2>4. CASE StopPoller
    BY <2>4
    DEF StopPoller, Main, Moves, Serving, Published, Calling, Threaded, Stopping,
      Freeing, End, Connected, Owned, PollerRuns
  <2>5. CASE StopIdlePoller
    BY <2>5
    DEF StopIdlePoller, Main, Moves, Serving, Published, Calling, Threaded,
      Stopping, Freeing, End, Connected, Owned, PollerRuns
  <2>6. CASE JoinPoller
    BY <2>6
    DEF JoinPoller, Main, Moves, Serving, Published, Calling, Threaded, Stopping,
      Freeing, End, Connected, Owned, PollerRuns
  <2>7. CASE FreePoller
    <3>1. /\ pc["main"] = "free_poller" /\ pc'["main"] = "hal_deinit"
          /\ pc'["poller"] = pc["poller"] /\ stopping' = stopping
          /\ \A t \in BusThread \cup HalThread : pc'[t] = pc[t]
      BY <2>7 DEF FreePoller, FreesThen, Main, Moves
    <3>2. object'["poller"] = "freed"
      BY <2>7 DEF FreePoller, FreesThen, Frees, Main, Moves, Owned, HasPoller
    <3>3. QED
      BY <3>1, <3>2
      DEF Serving, Published, Calling, Threaded, Stopping, Freeing, End
  <2>8. CASE DeinitHal
    BY <2>8
    DEF DeinitHal, Main, Moves, Serving, Published, Calling, Threaded, Stopping,
      Freeing, End, Connected, Owned, PollerRuns
  <2>9. CASE ClearData
    BY <2>9
    DEF ClearData, Main, Moves, Serving, Published, Calling, Threaded, Stopping,
      Freeing, End, Connected, Owned, PollerRuns
  <2>10. CASE FreeData
    BY <2>10
    DEF FreeData, FreesThen, Frees, Main, Moves, Serving, Published, Calling,
      Threaded, Stopping, Freeing, End, Connected, Owned, PollerRuns
  <2>11. CASE FreeQueue
    BY <2>11
    DEF FreeQueue, FreesThen, Frees, Main, Moves, Serving, Published, Calling,
      Threaded, Stopping, Freeing, End, Connected, Owned, PollerRuns
  <2>12. CASE FreeController
    BY <2>12
    DEF FreeController, FreesThen, Frees, Main, Moves, Serving, Published, Calling,
      Threaded, Stopping, Freeing, End, Connected, Owned, PollerRuns
  <2>13. CASE TelemetryCleanup
    BY <2>13
    DEF TelemetryCleanup, Main, Moves, Serving, Published, Calling, Threaded,
      Stopping, Freeing, End, Connected, Owned, PollerRuns
  <2>14. CASE T2Uninit
    BY <2>14
    DEF T2Uninit, Main, Moves, Serving, Published, Calling, Threaded, Stopping,
      Freeing, End, Connected, Owned, PollerRuns
  <2>15. QED
    BY <2>1, <2>2, <2>3, <2>4, <2>5, <2>6, <2>7, <2>8, <2>9, <2>10, <2>11, <2>12,
      <2>13, <2>14 DEF TakesDown
<1>5. ASSUME NEW b \in BusThread, HandlerStarts(b) \/ Handler(b) PROVE AtWork(pc["main"])'
  <2>0. TypeOK
    OBVIOUS
  <2> DEFINE m == pc["main"]
  <2>1. pc'["main"] = m /\ object' = object
    BY <1>5, <2>0, ThreadFrame DEF ThreadMoves
  <2>2. \A t \in Thread \ {b, "poller"} : pc'[t] = pc[t]
    BY <1>5, <2>0, HandlerFrame
  <2>3. pc[b] # "idle" \/ served
    BY <1>5, <2>0, HandlerFrame
  <2>4. m \in Serving
    BY <2>3 DEF Connected
  <2>5. m \in Threaded /\ m # "free_poller" /\ m \notin Freeing \cup End
    BY <2>4 DEF Threaded, Serving, Freeing, End
  <2>6. \/ pc'["poller"] = pc["poller"] /\ stopping' = stopping
        \/ pc'["poller"] = pc["poller"] /\ pc["poller"] # "created"
        \/ pc'["poller"] = "created" /\ ~stopping'
    BY <1>5, <2>0, HandlerFrame DEF PollerRuns
  <2>7. pc'["poller"] = "created" => ~stopping'
    BY <2>6
  <2>8. \A c \in BusThread : pc'[c] # "idle" => m \in Serving
    BY <2>4
  <2>9. \A h \in HalThread : pc'[h] # "idle" => m \in Calling
    BY <2>2
  <2> HIDE DEF m
  <2>10. QED
    BY <2>1, <2>5, <2>7, <2>8, <2>9
<1>6. ASSUME NEW h \in HalThread, CallbackStarts(h) \/ Callback(h) PROVE AtWork(pc["main"])'
  <2>1. pc'["main"] = pc["main"] /\ UNCHANGED <<object, stopping>>
    BY <1>6 DEF CallbackStarts, Callback, Steps, Dispatch, Crashes, Moves
  <2>2. \A t \in Thread \ {h} : pc'[t] = pc[t]
    BY <1>6 DEF CallbackStarts, Callback, Steps, Dispatch, Crashes, Moves
  <2>3. pc[h] # "idle" \/ g_controller
    BY <1>6 DEF CallbackStarts, Callback, Steps, Dispatch, Crashes, Moves
  <2>4. pc["main"] \in Calling
    BY <2>3 DEF Connected, Calling
  <2>5. QED
    BY <2>1, <2>2, <2>4
<1>7. CASE Poller
  <2>1. pc'["main"] = pc["main"] /\ UNCHANGED <<object, stopping>>
    BY <1>7 DEF Poller, PollerLocks, PollerUnlocks, Steps, Dispatch, Moves
  <2>2. \A t \in Thread \ {"poller"} : pc'[t] = pc[t]
    BY <1>7 DEF Poller, PollerLocks, PollerUnlocks, Steps, Dispatch, Moves
  <2>3. object["poller"] = "live" /\ ~PollerGone
    BY <1>7 DEF Poller, PollerLocks, PollerUnlocks, Steps, Dispatch, Moves
  <2>4. pc["main"] \in Threaded \ (Freeing \cup End)
    BY <2>3
  <2>5. ~(pc["main"] = "free_poller" /\ stopping) /\ pc'["poller"] # "created"
    BY <1>7, <2>3 DEF Poller, PollerLocks, PollerUnlocks, Steps, Dispatch, Moves
  <2>6. QED
    BY <2>1, <2>2, <2>4, <2>5
<1>8. CASE UNCHANGED vars
  BY <1>8 DEF vars
<1>9. QED
  BY <1>1, <1>2, <1>3, <1>4, <1>5, <1>6, <1>7, <1>8, StepCases DEF MainMoves, ThreadMoves

\* main() withdraws a request to stop by starting the poller only.
LEMMA MainAsks ==
    ASSUME MainMoves
    PROVE  stopping => stopping' \/ CanStart
<1>1. CASE Starts \/ Fails
  BY <1>1
  DEF Starts, TelemetryInit, T2Init, AllocController, OpenBus, LoadConfig,
    InitQueue, InitData, InitHal, CheckVersion, InitPoller, RegisterTr181,
    RegisterFails, SyncTables, Publish, RaiseSuccess, Allocates,
    Fails, StepFails, RaiseHalFailed, ErrorPath, RaiseFailure, Marks
<1>2. CASE Runs
  BY <1>2
  DEF Runs, RunLock, RunBegin, StartPoller, StartsPoller, ShutdownRequested, LeaveLock,
    LeaveUnlock, RaiseShutdown, MainLocks, MainUnlocks, Marks
<1>3. CASE TakesDown
  BY <1>3
  DEF TakesDown, ClearController, UnregisterTr181, CloseBus, StopPoller,
    StopIdlePoller, JoinPoller, FreePoller, DeinitHal, ClearData, FreeData,
    FreeQueue, FreeController, TelemetryCleanup, T2Uninit, FreesThen
<1>4. QED
  BY <1>1, <1>2, <1>3 DEF MainMoves

\* A handler's step as far as the data mutex goes.
LEMMA DataHandler ==
    ASSUME TypeOK, g_eponData, NEW b \in BusThread, HandlerStarts(b) \/ Handler(b)
    PROVE  \/ (Owns(b)' <=> Owns(b)) /\ dataMutex' = dataMutex
           \/ dataMutex = Nobody /\ dataMutex' = b /\ Owns(b)'
           \/ Owns(b) /\ dataMutex' = Nobody /\ ~Owns(b)'
<1>1. pc \in [Thread -> MainPoint \cup BusPoint \cup HalPoint \cup PollerPoint]
      /\ b \in Thread /\ b # "poller"
  BY LifecycleAssumption DEF TypeOK, Thread
<1> USE DEF Steps, Crashes, Moves, mutexes, Owns
<1>2. CASE HandlerStarts(b)
  BY <1>1, <1>2 DEF HandlerStarts
<1>3. CASE DataLock(b) \/ DataLocked(b) \/ DataWork(b) \/ DataUnlock(b)
  BY <1>1, <1>3 DEF DataLock, DataLocked, DataWork, DataUnlock
<1>4. CASE GetLock(b) \/ GetLocked(b) \/ GetRead(b) \/ GetUnlock(b)
  BY <1>1, <1>4 DEF GetLock, GetLocked, GetRead, GetUnlock, CtrlLocked, CtrlUnlocked
<1>5. CASE SetLock(b) \/ SetLocked(b) \/ SetJoined(b) \/ SetConfig(b) \/ SetRelock(b)
  BY <1>1, <1>5 DEF SetLock, SetLocked, SetJoined, SetConfig, SetRelock, CtrlLocked
<1>6. CASE SetRelocked(b) \/ SetSave(b) \/ SetSaved(b) \/ SetUnlock(b)
  BY <1>1, <1>6 DEF SetRelocked, SetSave, SetSaved, SetUnlock, CtrlLocked, CtrlUnlocked
<1>7. CASE SetBegin(b) \/ SetEnd(b)
  BY <1>1, <1>7 DEF SetBegin, SetEnd, StartsPoller
<1>8. CASE Dispatch(b, "idle")
  BY <1>1, <1>8 DEF Dispatch
<1>9. CASE HandlerCrashes(b)
  BY <1>1, <1>9 DEF HandlerCrashes
<1>10. QED
  BY <1>2, <1>3, <1>4, <1>5, <1>6, <1>7, <1>8, <1>9 DEF Handler, Set

\* The data mutex is taken when it is free and given back by its owner: wherever
\* a handler may be, g_eponData is set, so its unlock does unlock.
LEMMA MutexStep == IInv /\ [Next]_vars => MutexInv'
<1> SUFFICES ASSUME IInv, [Next]_vars PROVE MutexInv'
  OBVIOUS
<1> USE LifecycleAssumption DEF IInv, TypeOK, Thread, MutexInv, Owns
<1>1. CASE MainMoves
  <2>1. dataMutex' = dataMutex /\ \A b \in BusThread : pc'[b] = pc[b]
    BY <1>1, MainFrame
  <2>2. Owns("poller") <=> Owns("poller")'
    <3>1. CanStart => ~Owns("poller")
      BY DEF CanStart
    <3>2. QED
      BY <1>1, <3>1, MainFrame
  <2>3. object'["data"] = "freed" => dataMutex' = Nobody
    BY <1>1, MainFrame
  <2>4. QED
    BY <2>1, <2>2, <2>3
<1>2. ASSUME NEW b \in BusThread, HandlerStarts(b) \/ Handler(b) PROVE MutexInv'
  <2>0. TypeOK
    OBVIOUS
  <2>1. pc["main"] \in Serving
    BY <1>2, <2>0, HandlerFrame DEF AtWork, Connected
  <2>2. g_eponData /\ object["data"] # "freed"
    BY <2>1 DEF Connected, Owned, HasData, HasPoller, Serving
  <2>3. object' = object
    BY <1>2, <2>0, HandlerFrame
  <2>4. ASSUME NEW t \in BusThread \cup {"poller"}, t # b PROVE Owns(t)' <=> Owns(t)
    <3>1. \/ pc'[t] = pc[t]
          \/ t = "poller" /\ CanStart /\ pc'["poller"] = "created"
      BY <1>2, <2>0, <2>4, HandlerFrame
    <3>2. QED
      BY <3>1 DEF CanStart
  <2>5. \/ (Owns(b)' <=> Owns(b)) /\ dataMutex' = dataMutex
        \/ dataMutex = Nobody /\ dataMutex' = b /\ Owns(b)'
        \/ Owns(b) /\ dataMutex' = Nobody /\ ~Owns(b)'
    BY <1>2, <2>0, <2>2, DataHandler
  <2>6. \A t \in BusThread \cup {"poller"} : t # Nobody /\ (Owns(t) <=> dataMutex = t)
    OBVIOUS
  <2> HIDE DEF Owns
  <2>7. QED
    BY <2>2, <2>3, <2>4, <2>5, <2>6
<1>3. ASSUME NEW h \in HalThread, CallbackStarts(h) \/ Callback(h) PROVE MutexInv'
  BY <1>3 DEF CallbackStarts, Callback, Steps, Dispatch, Crashes, Moves, mutexes
<1>4. CASE Poller
  <2>1. \A t \in Thread \ {"poller"} : pc'[t] = pc[t]
    BY <1>4 DEF Poller, PollerLocks, PollerUnlocks, Steps, Dispatch, Moves
  <2>2. \/ (Owns("poller")' <=> Owns("poller")) /\ dataMutex' = dataMutex
        \/ dataMutex = Nobody /\ dataMutex' = "poller" /\ Owns("poller")'
        \/ Owns("poller") /\ dataMutex' = Nobody /\ ~Owns("poller")'
    BY <1>4 DEF Poller, PollerLocks, PollerUnlocks, Steps, Dispatch, Moves, mutexes
  <2>3. object'["data"] # "freed"
    <3>1. object' = object
      BY <1>4, ThreadFrame DEF ThreadMoves
    <3>2. object["poller"] = "live"
      BY <1>4 DEF Poller
    <3>3. object["data"] # "freed"
      <4>1. Owned(pc["main"])
        OBVIOUS
      <4>2. QED
        BY <3>2, <4>1 DEF Owned
    <3>4. QED
      BY <3>1, <3>3
  <2>4. ASSUME NEW b \in BusThread PROVE Owns(b)' <=> dataMutex' = b
    <3>1. b # "poller" /\ b # Nobody /\ pc'[b] = pc[b]
      BY <2>1
    <3>2. (Owns(b) <=> dataMutex = b) /\ (Owns("poller") <=> dataMutex = "poller")
      OBVIOUS
    <3>3. Owns(b)' <=> Owns(b)
      BY <3>1
    <3> HIDE DEF Owns
    <3>4. QED
      BY <2>2, <3>1, <3>2, <3>3
  <2>5. Owns("poller")' <=> dataMutex' = "poller"
    BY <2>2
  <2>6. QED
    BY <2>3, <2>4, <2>5
<1>5. CASE UNCHANGED vars
  BY <1>5 DEF vars, mutexes
<1>6. QED
  BY <1>1, <1>2, <1>3, <1>4, <1>5, StepCases DEF ThreadMoves

-----------------------------------------------------------------------------
\* The inductive invariant holds in every state of every run.
THEOREM Invariance == Spec => []IInv
<1>1. IInv /\ [Next]_vars => IInv'
  BY TypeStep, OwnedStep, ConnectedStep, AtWorkStep, MutexStep, ReportedStep DEF IInv
<1>2. QED
  BY InitInv, <1>1, PTL DEF Spec

\* The state stays within its types, with any number of threads.
THEOREM TypeCorrect == Spec => []TypeOK
<1>1. IInv => TypeOK
  BY DEF IInv
<1>2. QED
  BY Invariance, <1>1, PTL

\* What a handler, a callback or the poller uses where it stands has been
\* allocated and not freed, after a failed start and during destruction too.
THEOREM NoUseAfterFree == Spec => []NothingUsedAfterFree
<1>1. IInv => NothingUsedAfterFree
  <2> SUFFICES ASSUME IInv PROVE NothingUsedAfterFree
    OBVIOUS
  <2> USE DEF IInv, AtWork, Owned, Live
  <2>1. pc["main"] \in Serving => bus /\ Live({"ctrl", "config", "data", "poller"})
    BY DEF Connected, HasBus, HasCtrl, HasConfig, HasQueue, HasData, HasPoller
  <2>2. pc["main"] \in Calling => Live({"ctrl", "queue"})
    BY DEF Calling, Published, HasCtrl, HasConfig, HasQueue, HasData, HasPoller, Serving
  <2>3. pc["main"] \in Threaded \ (Freeing \cup End) => Live({"poller", "data"})
    BY DEF Threaded, Stopping, HasData, HasPoller, Serving
  <2>4. PollerGone \/ Missed \/ pc["main"] \in Threaded \ (Freeing \cup End)
    BY DEF PollerGone
  <2>5. QED
    BY <2>1, <2>2, <2>3, <2>4 DEF NothingUsedAfterFree, PollerGone, SetPoint
<1>2. QED
  BY Invariance, <1>1, PTL

\* A marker on its way finds the telemetry library open, although dispatch tests
\* its flag and sends in two steps.
THEOREM MarkersArrive == Spec => []MarkersReachT2
<1>1. IInv => MarkersReachT2
  <2> SUFFICES ASSUME IInv PROVE MarkersReachT2
    OBVIOUS
  <2> USE LifecycleAssumption DEF IInv, AtWork, Connected
  <2>1. \A b \in BusThread : pc[b] = "send" => t2
    BY DEF Serving
  <2>2. \A h \in HalThread : pc[h] = "send" => t2
    BY DEF Calling, Published, Serving
  <2>3. pc["poller"] = "send" => t2 \/ Missed
    BY DEF Threaded, Serving, Stopping, Freeing, End, PollerGone
  <2>4. pc["main"] # "send"
    BY DEF TypeOK, MainPoint, BringUp, TakeDown
  <2>5. QED
    BY <2>1, <2>2, <2>3, <2>4 DEF MarkersReachT2, Thread
<1>2. QED
  BY Invariance, <1>1, PTL

\* Every end of the process has been reported by the markers of its kind.
THEOREM EveryExitReported == Spec => []ExitIsReported
<1>1. IInv => ExitIsReported
  BY DEF IInv, Reported, End, ExitIsReported
<1>2. QED
  BY Invariance, <1>1, PTL

\* No handler that has returned, and nobody once the context is freed, has the
\* data mutex.
THEOREM DataMutexIsReturned == Spec => []DataMutexReturned
<1>1. IInv => DataMutexReturned
  <2> SUFFICES ASSUME IInv PROVE DataMutexReturned
    OBVIOUS
  <2> USE LifecycleAssumption DEF IInv, MutexInv, Owns
  <2>1. ASSUME dataMutex \in BusThread PROVE pc[dataMutex] \in {"in_data", "data_unlock"}
    BY <2>1 DEF TypeOK, BusPoint, SetPoint
  <2>2. ASSUME object["data"] = "freed" PROVE dataMutex = Nobody
    BY <2>2
  <2>3. QED
    BY <2>1, <2>2 DEF DataMutexReturned
<1>2. QED
  BY Invariance, <1>1, PTL

-----------------------------------------------------------------------------
(***************************************************************************)
(* What the threads wait for.  The data mutex has an owner by MutexInv;    *)
(* ctrl->mutex may be unlocked by a GET that began before the controller   *)
(* was published, and kept by one that ends after it was cleared.          *)
(***************************************************************************)
BeforePublish == BringUp \ {"success", "run", "begin", "start_poller"}

\* Where a handler waits for ctrl->mutex without having it, and where it has it.
CtrlWait    == {"get_lock", "get_wait", "set_lock", "set_wait"}
CtrlSection == {"in_config", "get_unlock"} \cup (SetPoint \ {"set_lock", "set_wait"})

CtrlInv ==
    /\ ctrlMutex = "main" => pc["main"] \in {"begin", "left"}
    /\ ctrlMutex \in BusThread => /\ pc[ctrlMutex] \notin CtrlWait
                                  /\ g_controller => pc[ctrlMutex] \in CtrlSection
    /\ pc["main"] \in BeforePublish =>
          /\ ctrlMutex = Nobody
          /\ \A b \in BusThread : pc[b] \notin {"get_lock", "get_wait", "in_config"} \cup SetPoint
    /\ pc["main"] = "join" => stopping
    /\ \A b \in BusThread : pc[b] = "set_join" => stopping

\* What the steps of main() do to the controller's mutex and pointer.
LEMMA CtrlMain ==
    ASSUME TypeOK, MainMoves
    PROVE  \/ /\ ctrlMutex = Nobody /\ ctrlMutex' = "main"
              /\ pc["main"] \notin BeforePublish /\ pc'["main"] \in {"begin", "left"}
              /\ g_controller' = g_controller
           \/ /\ ctrlMutex' = Nobody /\ pc["main"] \in {"begin", "left"}
              /\ pc'["main"] \in {"start_poller", "stopped"}
              /\ g_controller' = g_controller
           \/ /\ pc["main"] = "publish" /\ pc'["main"] = "success"
              /\ ctrlMutex' = ctrlMutex
           \/ /\ pc["main"] = "clear" /\ pc'["main"] = "unregister"
              /\ ctrlMutex' = ctrlMutex /\ ~g_controller'
           \/ /\ ctrlMutex' = ctrlMutex /\ g_controller' = g_controller
              /\ pc["main"] \notin {"begin", "left"} /\ pc'["main"] \notin {"begin", "left"}
              /\ pc'["main"] \in BeforePublish => pc["main"] \in BeforePublish
<1> USE LifecycleAssumption DEF TypeOK, Thread, BeforePublish, BringUp
<1>1. CASE Starts
  BY <1>1
  DEF Starts, TelemetryInit, T2Init, AllocController, OpenBus, LoadConfig,
    InitQueue, InitData, InitHal, CheckVersion, InitPoller, RegisterTr181,
    RegisterFails, SyncTables, Publish, RaiseSuccess, Allocates, Marks, Main,
    Moves, mutexes, globals
<1>2. CASE Fails
  BY <1>2
  DEF Fails, StepFails, RaiseHalFailed, ErrorPath, RaiseFailure, Marks,
    Main, Moves, mutexes, globals
<1>3. CASE Runs
  BY <1>3
  DEF Runs, RunLock, RunBegin, StartPoller, StartsPoller, ShutdownRequested, LeaveLock,
    LeaveUnlock, RaiseShutdown, MainLocks, MainUnlocks, Marks, Main, Moves, mutexes, globals
<1>4. CASE TakesDown
  BY <1>4
  DEF TakesDown, ClearController, UnregisterTr181, CloseBus, StopPoller,
    StopIdlePoller, JoinPoller, FreePoller, DeinitHal, ClearData, FreeData,
    FreeQueue, FreeController, TelemetryCleanup, T2Uninit, FreesThen,
    Main, Moves, mutexes, globals
<1>5. QED
  BY <1>1, <1>2, <1>3, <1>4 DEF MainMoves

\* main() joins a poller it has asked to stop.
LEMMA JoinAsks ==
    ASSUME TypeOK, MainMoves, pc["main"] = "join" => stopping
    PROVE  pc'["main"] = "join" => stopping'
<1> USE LifecycleAssumption DEF TypeOK, Thread
<1>1. CASE Starts \/ Fails
  BY <1>1
  DEF Starts, TelemetryInit, T2Init, AllocController, OpenBus, LoadConfig,
    InitQueue, InitData, InitHal, CheckVersion, InitPoller, RegisterTr181,
    RegisterFails, SyncTables, Publish, RaiseSuccess, Allocates,
    Fails, StepFails, RaiseHalFailed, ErrorPath, RaiseFailure, Marks, Main, Moves
<1>2. CASE Runs
  BY <1>2
  DEF Runs, RunLock, RunBegin, StartPoller, StartsPoller, ShutdownRequested, LeaveLock,
    LeaveUnlock, RaiseShutdown, MainLocks, MainUnlocks, Marks, Main, Moves
<1>3. CASE TakesDown
  BY <1>3
  DEF TakesDown, ClearController, UnregisterTr181, CloseBus, StopPoller,
    StopIdlePoller, JoinPoller, FreePoller, DeinitHal, ClearData, FreeData,
    FreeQueue, FreeController, TelemetryCleanup, T2Uninit, FreesThen, Main, Moves
<1>4. QED
  BY <1>1, <1>2, <1>3 DEF MainMoves

\* A handler's step as far as ctrl->mutex goes.
LEMMA CtrlHandler ==
    ASSUME TypeOK, NEW b \in BusThread, HandlerStarts(b) \/ Handler(b)
    PROVE  \/ /\ ctrlMutex' = ctrlMutex
              /\ pc[b] \in CtrlSection => pc'[b] \in CtrlSection \/ ~g_controller
              /\ pc'[b] \in CtrlWait => g_controller \/ pc'[b] = pc[b]
              /\ pc'[b] \in CtrlWait => pc[b] \notin CtrlSection
              /\ pc'[b] \in {"get_lock", "get_wait", "in_config"} \cup SetPoint =>
                    g_controller \/ pc[b] \in {"get_lock", "get_wait", "in_config"} \cup SetPoint
           \/ /\ ctrlMutex = Nobody /\ ctrlMutex' = b
              /\ pc[b] \in {"get_wait"} \cup SetPoint /\ pc'[b] \in CtrlSection \ CtrlWait
           \/ /\ g_controller /\ ctrlMutex' = Nobody
<1>1. pc \in [Thread -> MainPoint \cup BusPoint \cup HalPoint \cup PollerPoint]
      /\ b \in Thread /\ b # "poller"
  BY LifecycleAssumption DEF TypeOK, Thread
<1> USE DEF Steps, Crashes, Moves, mutexes, CtrlSection, CtrlWait, SetPoint
<1>2. CASE HandlerStarts(b)
  BY <1>1, <1>2 DEF HandlerStarts
<1>3. CASE DataLock(b) \/ DataLocked(b) \/ DataWork(b) \/ DataUnlock(b)
  BY <1>1, <1>3 DEF DataLock, DataLocked, DataWork, DataUnlock
<1>4. CASE GetLock(b) \/ GetLocked(b) \/ GetRead(b) \/ GetUnlock(b)
  BY <1>1, <1>4 DEF GetLock, GetLocked, GetRead, GetUnlock, CtrlLocked, CtrlUnlocked
<1>5. CASE SetLock(b) \/ SetLocked(b) \/ SetJoined(b) \/ SetConfig(b) \/ SetRelock(b)
  BY <1>1, <1>5 DEF SetLock, SetLocked, SetJoined, SetConfig, SetRelock, CtrlLocked
<1>6. CASE SetRelocked(b) \/ SetSave(b) \/ SetSaved(b) \/ SetUnlock(b)
  BY <1>1, <1>6 DEF SetRelocked, SetSave, SetSaved, SetUnlock, CtrlLocked, CtrlUnlocked
<1>7. CASE SetBegin(b) \/ SetEnd(b)
  BY <1>1, <1>7 DEF SetBegin, SetEnd, StartsPoller
<1>8. CASE Dispatch(b, "idle")
  BY <1>1, <1>8 DEF Dispatch
<1>9. CASE HandlerCrashes(b)
  BY <1>1, <1>9 DEF HandlerCrashes
<1>10. QED
  BY <1>2, <1>3, <1>4, <1>5, <1>6, <1>7, <1>8, <1>9 DEF Handler, Set

LEMMA CtrlStep ==
    ASSUME IInv, CtrlInv, [Next]_vars
    PROVE  CtrlInv'
<1> USE LifecycleAssumption DEF CtrlInv
<1>0. TypeOK
  BY DEF IInv
<1>1. CASE MainMoves
  <2>1. \A b \in BusThread : pc'[b] = pc[b] /\ pc[b] \in BusPoint
    BY <1>0, <1>1, MainFrame DEF TypeOK
  <2>2. pc'["main"] = "join" => stopping'
    BY <1>0, <1>1, JoinAsks
  <2>3. "main" \notin BusThread /\ Nobody \notin BusThread /\ Nobody # "main"
    BY DEF Thread
  <2>4. {"begin", "left", "success", "start_poller", "stopped", "unregister"}
            \cap BeforePublish = {}
    BY DEF BeforePublish, BringUp
  <2>5. "publish" \in BeforePublish /\ "clear" \notin {"begin", "left"}
    BY DEF BeforePublish, BringUp
  <2>6. \A b \in BusThread : pc'[b] = "set_join" => stopping'
    BY <1>1, <2>1, MainAsks DEF CanStart
  <2>7. /\ ctrlMutex' = "main" => pc'["main"] \in {"begin", "left"}
        /\ ctrlMutex' \in BusThread => /\ pc'[ctrlMutex'] \notin CtrlWait
                                       /\ g_controller' => pc'[ctrlMutex'] \in CtrlSection
        /\ pc'["main"] \in BeforePublish =>
              /\ ctrlMutex' = Nobody
              /\ \A b \in BusThread : pc'[b] \notin {"get_lock", "get_wait", "in_config"}
                                                     \cup SetPoint
    BY <1>0, <1>1, <2>1, <2>3, <2>4, <2>5, CtrlMain
  <2>8. QED
    BY <2>2, <2>6, <2>7
<1>2. ASSUME NEW b \in BusThread, HandlerStarts(b) \/ Handler(b) PROVE CtrlInv'
  <2>1. g_controller' = g_controller /\ pc'["main"] = pc["main"]
    BY <1>0, <1>2, ThreadFrame DEF ThreadMoves, globals
  <2>2. "main" \notin BusThread /\ Nobody \notin BusThread /\ Nobody # "main"
    BY DEF Thread
  <2>3. \A c \in BusThread \ {b} : pc'[c] = pc[c]
    BY <1>0, <1>2, HandlerFrame DEF Thread
  <2>4. pc["main"] \in BeforePublish => ~g_controller
    BY DEF IInv, Connected, Published, Serving, BeforePublish, BringUp
  <2>5. /\ ctrlMutex' = "main" => pc'["main"] \in {"begin", "left"}
        /\ pc'["main"] \in BeforePublish =>
              /\ ctrlMutex' = Nobody
              /\ \A c \in BusThread : pc'[c] \notin {"get_lock", "get_wait", "in_config"}
                                                     \cup SetPoint
    BY <1>0, <1>2, <2>1, <2>2, <2>3, <2>4, CtrlHandler
  <2>6. ctrlMutex' \in BusThread => /\ pc'[ctrlMutex'] \notin CtrlWait
                                    /\ g_controller' => pc'[ctrlMutex'] \in CtrlSection
    <3> SUFFICES ASSUME ctrlMutex' \in BusThread
                 PROVE  /\ pc'[ctrlMutex'] \notin CtrlWait
                        /\ g_controller' => pc'[ctrlMutex'] \in CtrlSection
      OBVIOUS
    <3>1. CASE ctrlMutex' = ctrlMutex /\ ctrlMutex # b
      <4>1. ctrlMutex \in BusThread \ {b}
        BY <3>1
      <4>2. pc'[ctrlMutex] = pc[ctrlMutex]
        BY <2>3, <4>1
      <4>3. QED
        BY <2>1, <3>1, <4>1, <4>2
    <3>2. CASE ctrlMutex' = ctrlMutex /\ ctrlMutex = b
      <4>1. pc[b] \notin CtrlWait /\ (g_controller => pc[b] \in CtrlSection)
        BY <3>2
      <4>2. /\ pc[b] \in CtrlSection => pc'[b] \in CtrlSection \/ ~g_controller
            /\ pc'[b] \in CtrlWait => g_controller \/ pc'[b] = pc[b]
            /\ pc'[b] \in CtrlWait => pc[b] \notin CtrlSection
        BY <1>0, <1>2, <2>2, <3>2, CtrlHandler
      <4>3. QED
        BY <2>1, <3>2, <4>1, <4>2
    <3>3. CASE ctrlMutex' # ctrlMutex
      BY <1>0, <1>2, <2>2, <3>3, CtrlHandler
    <3>4. QED
      BY <3>1, <3>2, <3>3
  <2>7. pc'["main"] # "join"
    <3>1. pc["main"] \in Serving
      BY <1>0, <1>2, HandlerFrame DEF IInv, AtWork, Connected
    <3>2. QED
      BY <2>1, <3>1 DEF Serving
  <2>8. \A c \in BusThread : pc'[c] = "set_join" => stopping'
    BY <1>0, <1>2, <2>3, HandlerFrame DEF CanStart
  <2>9. QED
    BY <2>5, <2>6, <2>7, <2>8
<1>3. CASE Poller \/ \E h \in HalThread : CallbackStarts(h) \/ Callback(h)
  <2>1. UNCHANGED <<g_controller, stopping>> /\ pc'["main"] = pc["main"]
    BY <1>0, <1>3, LifecycleAssumption
    DEF TypeOK, Thread, CallbackStarts, Callback, Poller, PollerLocks, PollerUnlocks, Steps,
      Dispatch, Crashes, Moves, globals
  <2>2. ctrlMutex' = ctrlMutex /\ \A b \in BusThread : pc'[b] = pc[b]
    BY <1>0, <1>3
    DEF TypeOK, Thread, CallbackStarts, Callback, Poller, PollerLocks, PollerUnlocks, Steps,
      Dispatch, Crashes, Moves, mutexes
  <2>3. QED
    BY <2>1, <2>2
<1>4. CASE UNCHANGED vars
  BY <1>4 DEF vars, mutexes, globals
<1>5. QED
  BY <1>1, <1>2, <1>3, <1>4, StepCases DEF ThreadMoves

LEMMA CtrlInvariance == Spec => []CtrlInv
<1>1. Init => CtrlInv
  BY LifecycleAssumption
  DEF Init, CtrlInv, Thread, BeforePublish, BringUp, CtrlWait, CtrlSection, SetPoint
<1>2. IInv /\ CtrlInv /\ [Next]_vars => CtrlInv'
  BY CtrlStep
<1>3. QED
  BY <1>1, <1>2, Invariance, PTL DEF Spec

\* Whoever has a mutex is past the wait for it: a thread inside the section the data
\* mutex guards, which takes no other; main() in one of its short sections; a handler
\* in its section or, once g_controller is cleared, the one that kept ctrl->mutex and
\* never waits for it again.  A SET may have ctrl->mutex and wait: for the poller, which
\* it has asked to stop and which does not take that mutex, or at its second lock for
\* ctrl->mutex itself.  When eponMgr_data_destroy takes the data mutex it is free,
\* except of a poller that was freed unstopped.
HoldersMove ==
    /\ dataMutex # Nobody =>
          \/ dataMutex \in BusThread /\ pc[dataMutex] \in {"in_data", "data_unlock"}
          \/ /\ dataMutex = "poller" /\ pc["poller"] \in {"fill", "in_sync"}
             /\ object["poller"] = "live" \/ Missed
    /\ ctrlMutex # Nobody =>
          \/ ctrlMutex = "main" /\ pc["main"] \in {"begin", "left"}
          \/ /\ ctrlMutex \in BusThread /\ pc[ctrlMutex] \notin CtrlWait
             /\ g_controller => pc[ctrlMutex] \in CtrlSection
    /\ \A b \in BusThread : pc[b] = "set_join" => stopping
    /\ pc["main"] = "free_data" => dataMutex = Nobody \/ Missed

\* No two of main(), handlers, callbacks and the poller ever wait for each other by way
\* of the two mutexes; the one circle is that of a SET which waits for itself.
THEOREM NoTwoWaitForEachOther == Spec => []HoldersMove
<1>1. ASSUME IInv, CtrlInv PROVE HoldersMove
  <2> USE LifecycleAssumption
  <2>0. TypeOK /\ AtWork(pc["main"]) /\ MutexInv /\ Owned(pc["main"])
    BY <1>1 DEF IInv
  <2>1. ASSUME dataMutex \in BusThread PROVE pc[dataMutex] \in {"in_data", "data_unlock"}
    BY <2>0, <2>1 DEF TypeOK, BusPoint, SetPoint, MutexInv, Owns
  <2>2. ASSUME dataMutex = "poller"
        PROVE  /\ pc["poller"] \in {"fill", "in_sync"}
               /\ object["poller"] = "live" \/ Missed
    <3>1. pc["poller"] \in {"fill", "in_sync"}
      BY <2>0, <2>2 DEF TypeOK, PollerPoint, MutexInv, Owns
    <3>2. pc["main"] \in Freeing \cup End => Missed
      BY <2>0, <3>1 DEF AtWork, PollerGone
    <3>3. pc["main"] \in Threaded \ (Freeing \cup End) => object["poller"] = "live"
      BY <2>0 DEF Owned, Threaded, Stopping, HasPoller, Serving
    <3>4. QED
      BY <2>0, <3>1, <3>2, <3>3 DEF AtWork
  <2>3. pc["main"] = "free_data" => dataMutex = Nobody \/ Missed
    <3>1. pc["main"] = "free_data" => \A b \in BusThread : pc[b] = "idle"
      BY <2>0 DEF AtWork, Serving
    <3>2. pc["main"] = "free_data" => PollerGone \/ Missed
      BY <2>0 DEF AtWork, Freeing
    <3>3. QED
      BY <2>0, <2>1, <2>2, <3>1, <3>2 DEF TypeOK, PollerGone
  <2>4. dataMutex \in {Nobody, "poller"} \cup BusThread
        /\ ctrlMutex \in {Nobody, "main"} \cup BusThread
    BY <2>0 DEF TypeOK
  <2>5. dataMutex # Nobody =>
          \/ dataMutex \in BusThread /\ pc[dataMutex] \in {"in_data", "data_unlock"}
          \/ /\ dataMutex = "poller" /\ pc["poller"] \in {"fill", "in_sync"}
             /\ object["poller"] = "live" \/ Missed
    BY <2>1, <2>2, <2>4
  <2>6. ctrlMutex # Nobody =>
          \/ ctrlMutex = "main" /\ pc["main"] \in {"begin", "left"}
          \/ /\ ctrlMutex \in BusThread /\ pc[ctrlMutex] \notin CtrlWait
             /\ g_controller => pc[ctrlMutex] \in CtrlSection
    BY <1>1, <2>4 DEF CtrlInv
  <2>7. \A b \in BusThread : pc[b] = "set_join" => stopping
    BY <1>1 DEF CtrlInv
  <2>8. QED
    BY <2>3, <2>5, <2>6, <2>7 DEF HoldersMove
<1>2. IInv /\ CtrlInv => HoldersMove
  BY <1>1
<1>3. QED
  BY Invariance, CtrlInvariance, <1>2, PTL

\* How much of its handler, its callback or its round a thread has before it.
Work(t) ==
    CASE pc[t] = "set_lock"                  -> 11
      [] pc[t] = "set_wait"                  -> 10
      [] pc[t] \in {"created", "in_set"}     -> 9
      [] pc[t] \in {"collect", "set_join"}   -> 8
      [] pc[t] \in {"fill", "set_config"}    -> 7
      [] pc[t] \in {"sync", "set_relock"}    -> 6
      [] pc[t] \in {"sync_lock", "set_rewait"}                              -> 5
      [] pc[t] \in {"data_lock", "get_lock", "push", "in_sync", "in_save"}  -> 4
      [] pc[t] \in {"data_wait", "get_wait", "mark", "set_free"}            -> 3
      [] pc[t] \in {"in_data", "in_config", "send", "set_end"}              -> 2
      [] pc[t] \in {"data_unlock", "get_unlock", "set_unlock", "signal", "sleep"} -> 1
      [] OTHER -> 0

\* Whoever steps, thread t has no more before it than it had; if it steps itself
\* and survives it has less.
Nearer(t, step) == Work(t)' <= Work(t) /\ (step /\ ~crashed' => Work(t)' < Work(t))

\* While main() waits for the bus library, for the poller or for the HAL to end their
\* threads, or a SET for the poller, none of these threads takes up anything new.
WaitsShorten ==
    /\ pc["main"] = "bus_close" =>
          \A b \in BusThread : Nearer(b, HandlerStarts(b) \/ Handler(b))
    /\ (pc["main"] = "join" \/ \E b \in BusThread : pc[b] = "set_join") =>
          Nearer("poller", Poller)
    /\ pc["main"] = "hal_deinit" =>
          \A h \in HalThread : Nearer(h, CallbackStarts(h) \/ Callback(h))

LEMMA HandlerNearer ==
    ASSUME TypeOK, ~served, NEW b \in BusThread, HandlerStarts(b) \/ Handler(b)
    PROVE  Work(b)' < Work(b) \/ (crashed' /\ pc' = pc)
<1>0. pc \in [Thread -> MainPoint \cup BusPoint \cup HalPoint \cup PollerPoint]
      /\ b \in Thread /\ b # "poller"
  BY LifecycleAssumption DEF TypeOK, Thread
<1> USE DEF Steps, Moves, Work
<1>1. CASE DataLock(b) \/ DataLocked(b) \/ DataWork(b) \/ DataUnlock(b)
  BY <1>0, <1>1 DEF DataLock, DataLocked, DataWork, DataUnlock
<1>2. CASE GetLock(b) \/ GetLocked(b) \/ GetRead(b) \/ GetUnlock(b)
  BY <1>0, <1>2 DEF GetLock, GetLocked, GetRead, GetUnlock, CtrlLocked, CtrlUnlocked
<1>3. CASE SetLock(b) \/ SetLocked(b) \/ SetJoined(b) \/ SetConfig(b) \/ SetRelock(b)
  BY <1>0, <1>3 DEF SetLock, SetLocked, SetJoined, SetConfig, SetRelock, CtrlLocked
<1>4. CASE SetRelocked(b) \/ SetSave(b) \/ SetSaved(b) \/ SetUnlock(b)
  BY <1>0, <1>4 DEF SetRelocked, SetSave, SetSaved, SetUnlock, CtrlLocked, CtrlUnlocked
<1>5. CASE SetBegin(b)
  BY <1>0, <1>5 DEF SetBegin
<1>6. CASE SetEnd(b)
  <2>1. pc[b] = "set_end" /\ pc'[b] = "set_unlock"
    BY <1>0, <1>6 DEF SetEnd, StartsPoller
  <2>2. QED
    BY <2>1
<1>7. CASE Dispatch(b, "idle")
  BY <1>0, <1>7 DEF Dispatch
<1>8. CASE HandlerCrashes(b)
  BY <1>8 DEF HandlerCrashes, Crashes
<1>9. QED
  BY <1>1, <1>2, <1>3, <1>4, <1>5, <1>6, <1>7, <1>8 DEF Handler, Set, HandlerStarts

LEMMA CallbackNearer ==
    ASSUME TypeOK, ~g_controller, NEW h \in HalThread, CallbackStarts(h) \/ Callback(h)
    PROVE  Work(h)' < Work(h) \/ (crashed' /\ pc' = pc)
<1>1. CASE Dispatch(h, "idle")
  BY <1>1, LifecycleAssumption DEF TypeOK, Thread, Steps, Dispatch, Moves, Work
<1>2. QED
  BY <1>1 DEF CallbackStarts, Callback, Crashes

LEMMA PollerNearer ==
    ASSUME TypeOK, stopping, Poller
    PROVE  Work("poller")' < Work("poller")
<1> DEFINE from == pc["poller"]
           to == pc'["poller"]
<1>1. \/ from = "sleep" /\ to = "ended"
      \/ from = "created" /\ to = "sleep"
      \/ from = "collect" /\ to = "fill"
      \/ from = "fill" /\ to \in {"sync", "mark", "sleep"}
      \/ from = "sync" /\ to \in {"sync_lock", "sleep"}
      \/ from = "sync_lock" /\ to = "in_sync"
      \/ from = "in_sync" /\ to \in {"mark", "sleep"}
      \/ from = "mark" /\ to \in {"send", "sleep"}
      \/ from = "send" /\ to = "sleep"
  BY LifecycleAssumption
  DEF Poller, PollerLocks, PollerUnlocks, Steps, Dispatch, Moves, TypeOK, Thread
<1>2. Work("poller") =
      CASE from = "set_lock"              -> 11
        [] from = "set_wait"              -> 10
        [] from \in {"created", "in_set"}   -> 9
        [] from \in {"collect", "set_join"} -> 8
        [] from \in {"fill", "set_config"}  -> 7
        [] from \in {"sync", "set_relock"}  -> 6
        [] from \in {"sync_lock", "set_rewait"}                              -> 5
        [] from \in {"data_lock", "get_lock", "push", "in_sync", "in_save"}  -> 4
        [] from \in {"data_wait", "get_wait", "mark", "set_free"}            -> 3
        [] from \in {"in_data", "in_config", "send", "set_end"}              -> 2
        [] from \in {"data_unlock", "get_unlock", "set_unlock", "signal", "sleep"} -> 1
        [] OTHER -> 0
  BY DEF Work
<1>3. Work("poller")' =
      CASE to = "set_lock"              -> 11
        [] to = "set_wait"              -> 10
        [] to \in {"created", "in_set"}   -> 9
        [] to \in {"collect", "set_join"} -> 8
        [] to \in {"fill", "set_config"}  -> 7
        [] to \in {"sync", "set_relock"}  -> 6
        [] to \in {"sync_lock", "set_rewait"}                              -> 5
        [] to \in {"data_lock", "get_lock", "push", "in_sync", "in_save"}  -> 4
        [] to \in {"data_wait", "get_wait", "mark", "set_free"}            -> 3
        [] to \in {"in_data", "in_config", "send", "set_end"}              -> 2
        [] to \in {"data_unlock", "get_unlock", "set_unlock", "signal", "sleep"} -> 1
        [] OTHER -> 0
  BY DEF Work
<1> HIDE DEF from, to
<1>4. QED
  BY <1>1, <1>2, <1>3

\* Handlers and callbacks are moved by their own steps only, the poller by its own
\* and by those who start it.
LEMMA OwnSteps ==
    ASSUME TypeOK, [Next]_vars
    PROVE  /\ \A b \in BusThread : pc'[b] = pc[b] \/ HandlerStarts(b) \/ Handler(b)
           /\ \A h \in HalThread : pc'[h] = pc[h] \/ CallbackStarts(h) \/ Callback(h)
           /\ \/ pc'["poller"] = pc["poller"] \/ Poller
              \/ /\ CanStart
                 /\ pc["main"] = "start_poller" \/ \E b \in BusThread : pc[b] = "set_end"
<1>1. CASE MainMoves
  BY <1>1, MainFrame
<1>2. ASSUME NEW b \in BusThread, HandlerStarts(b) \/ Handler(b)
      PROVE  /\ \A t \in Thread \ {b, "poller"} : pc'[t] = pc[t]
             /\ pc'["poller"] = pc["poller"] \/ (CanStart /\ pc[b] = "set_end")
  BY <1>2, HandlerFrame
<1>3. ASSUME NEW h \in HalThread, CallbackStarts(h) \/ Callback(h)
      PROVE  \A t \in Thread \ {h} : pc'[t] = pc[t]
  BY <1>3 DEF TypeOK, CallbackStarts, Callback, Steps, Dispatch, Crashes, Moves
<1>4. ASSUME Poller PROVE \A t \in Thread \ {"poller"} : pc'[t] = pc[t]
  BY <1>4 DEF TypeOK, Poller, PollerLocks, PollerUnlocks, Steps, Dispatch, Moves
<1>5. CASE UNCHANGED vars
  BY <1>5 DEF vars
<1>6. "poller" \in Thread /\ "poller" \notin BusThread \cup HalThread
      /\ BusThread \cap HalThread = {}
      /\ \A t \in BusThread \cup HalThread : t \in Thread
  BY LifecycleAssumption DEF Thread
<1>7. QED
  BY <1>1, <1>2, <1>3, <1>4, <1>5, <1>6, StepCases DEF ThreadMoves

\* The safety half of ShutdownCompletes: each wait of eponMgr_controller_destroy is
\* for threads that have a bounded number of steps left, each of which brings the
\* end of the wait nearer.  Whether such a thread takes its step is another matter:
\* see SetNeverReturns.
THEOREM EachWaitShortens == Spec => [][WaitsShorten]_vars
<1>1. ASSUME IInv, CtrlInv, [Next]_vars PROVE WaitsShorten
  <2>0. TypeOK
    BY <1>1 DEF IInv
  <2>1. ASSUME NEW t, pc'[t] = pc[t] PROVE Work(t)' = Work(t) /\ Work(t) \in Nat
    BY <2>1 DEF Work
  <2>2. ASSUME NEW b \in BusThread, pc["main"] = "bus_close"
        PROVE  Nearer(b, HandlerStarts(b) \/ Handler(b))
    <3>1. ~served
      BY <1>1, <2>2 DEF IInv, Connected
    <3>2. Work(b)' \in Nat /\ Work(b) \in Nat
      BY DEF Work
    <3>3. QED
      BY <1>1, <2>0, <2>1, <3>1, <3>2, HandlerNearer, OwnSteps DEF Nearer
  <2>3. ASSUME NEW h \in HalThread, pc["main"] = "hal_deinit"
        PROVE  Nearer(h, CallbackStarts(h) \/ Callback(h))
    <3>1. ~g_controller
      BY <1>1, <2>3 DEF IInv, Connected, Published, Serving
    <3>2. Work(h)' \in Nat /\ Work(h) \in Nat
      BY DEF Work
    <3>3. QED
      BY <1>1, <2>0, <2>1, <3>1, <3>2, CallbackNearer, OwnSteps DEF Nearer
  <2>4. ASSUME pc["main"] = "join" \/ \E b \in BusThread : pc[b] = "set_join"
        PROVE  Nearer("poller", Poller)
    <3>1. stopping
      BY <1>1, <2>4 DEF CtrlInv
    <3>2. ~(CanStart /\ (pc["main"] = "start_poller"
                          \/ \E b \in BusThread : pc[b] = "set_end"))
      BY <1>1, <2>4 DEF CanStart, IInv, AtWork, Serving
    <3>3. pc'["poller"] = pc["poller"] \/ Poller
      BY <1>1, <2>0, <3>2, OwnSteps
    <3>4. Work("poller")' \in Nat /\ Work("poller") \in Nat
      BY DEF Work
    <3>5. QED
      BY <1>1, <2>0, <2>1, <3>1, <3>3, <3>4, PollerNearer DEF Nearer
  <2>5. QED
    BY <2>2, <2>3, <2>4 DEF WaitsShorten
<1>2. IInv /\ CtrlInv /\ [Next]_vars => WaitsShorten
  BY <1>1
<1>3. QED
  BY Invariance, CtrlInvariance, <1>2, PTL DEF Spec

\* A SET waits at its second lock while somebody has ctrl->mutex.
LEMMA Rewaits ==
    ASSUME NEW b \in BusThread, HandlerStarts(b) \/ Handler(b),
           pc[b] = "set_rewait", ctrlMutex # Nobody
    PROVE  pc' = pc
  BY DEF HandlerStarts, Handler, DataLock, DataLocked, DataWork, DataUnlock, GetLock,
    GetLocked, GetRead, GetUnlock, Set, SetLock, SetLocked, SetBegin, SetJoined, SetConfig,
    SetRelock, SetRelocked, SetSave, SetSaved, SetEnd, SetUnlock, StartsPoller,
    CtrlLocked, CtrlUnlocked, HandlerCrashes, Steps, Moves, Dispatch, Crashes

\* rbus_close returns when all handlers have.
LEMMA ClosesIdle ==
    ASSUME MainMoves, pc["main"] = "bus_close"
    PROVE  \A b \in BusThread : pc[b] = "idle"
<1>1. CASE Starts \/ Fails
  BY <1>1
  DEF Starts, TelemetryInit, T2Init, AllocController, OpenBus, LoadConfig,
    InitQueue, InitData, InitHal, CheckVersion, InitPoller, RegisterTr181,
    RegisterFails, SyncTables, Publish, RaiseSuccess, Allocates,
    Fails, StepFails, RaiseHalFailed, ErrorPath, RaiseFailure, Marks, Main, Moves
<1>2. CASE Runs
  BY <1>2
  DEF Runs, RunLock, RunBegin, StartPoller, ShutdownRequested, LeaveLock,
    LeaveUnlock, RaiseShutdown, MainLocks, MainUnlocks, Marks, Main, Moves
<1>3. CASE TakesDown
  BY <1>3
  DEF TakesDown, ClearController, UnregisterTr181, CloseBus, StopPoller,
    StopIdlePoller, JoinPoller, FreePoller, DeinitHal, ClearData, FreeData,
    FreeQueue, FreeController, TelemetryCleanup, T2Uninit, FreesThen, Main, Moves
<1>4. QED
  BY <1>1, <1>2, <1>3 DEF MainMoves

\* The wait of rbus_close for a SET that waits for the mutex it has.
WaitStays ==
    pc["main"] = "bus_close" /\ SetBlocksItself =>
        pc'["main"] = "bus_close" /\ SetBlocksItself'

\* The wait that does not end: once g_controller is cleared nobody unlocks ctrl->mutex
\* for the SET, so whatever the other threads do, rbus_close does not return.
THEOREM SetNeverReturns == Spec => [][WaitStays]_vars
<1>1. ASSUME IInv, [Next]_vars, pc["main"] = "bus_close", SetBlocksItself
      PROVE  pc'["main"] = "bus_close" /\ SetBlocksItself'
  <2>0. TypeOK /\ ~g_controller /\ ctrlMutex \in BusThread /\ pc[ctrlMutex] = "set_rewait"
    BY <1>1 DEF IInv, SetBlocksItself
  <2>1. "main" \notin BusThread /\ Nobody \notin BusThread /\ "poller" \notin BusThread
        /\ BusThread \cap HalThread = {} /\ BusThread \subseteq Thread
    BY LifecycleAssumption DEF Thread
  <2>2. ASSUME NEW b \in BusThread, HandlerStarts(b) \/ Handler(b)
        PROVE  pc'["main"] = pc["main"] /\ SetBlocksItself'
    <3>1. pc'["main"] = pc["main"] /\ g_controller' = g_controller
      BY <2>0, <2>2, ThreadFrame DEF ThreadMoves, globals
    <3>2. ctrlMutex' = ctrlMutex
      BY <2>0, <2>1, <2>2, CtrlHandler
    <3>3. CASE b = ctrlMutex
      BY <2>0, <2>1, <2>2, <3>1, <3>2, <3>3, Rewaits DEF SetBlocksItself
    <3>4. CASE b # ctrlMutex
      BY <2>0, <2>1, <2>2, <3>1, <3>2, <3>4, HandlerFrame DEF SetBlocksItself
    <3>5. QED
      BY <3>3, <3>4, <3>1
  <2>3. CASE MainMoves
    <3>1. pc["main"] = "bus_close" => pc[ctrlMutex] = "idle"
      BY <1>1, <2>0, <2>3, ClosesIdle
    <3>2. QED
      BY <1>1, <2>0, <3>1
  <2>4. CASE Poller \/ \E h \in HalThread : CallbackStarts(h) \/ Callback(h)
    <3>1. /\ pc'["main"] = pc["main"] /\ UNCHANGED <<g_controller, ctrlMutex>>
          /\ \A b \in BusThread : pc'[b] = pc[b]
      BY <2>0, <2>1, <2>4, LifecycleAssumption
      DEF TypeOK, Thread, CallbackStarts, Callback, Poller, PollerLocks, PollerUnlocks,
        Steps, Dispatch, Crashes, Moves, mutexes, globals
    <3>2. QED
      BY <1>1, <2>0, <3>1 DEF SetBlocksItself
  <2>5. CASE UNCHANGED vars
    BY <1>1, <2>5 DEF vars, globals, mutexes, SetBlocksItself
  <2>6. QED
    BY <1>1, <2>2, <2>3, <2>4, <2>5, StepCases DEF ThreadMoves
<1>2. IInv /\ [Next]_vars => WaitStays
  BY <1>1 DEF WaitStays
<1>3. QED
  BY Invariance, <1>2, PTL DEF Spec
=============================================================================
