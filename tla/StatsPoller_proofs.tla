------------------------- MODULE StatsPoller_proofs -------------------------
(***************************************************************************)
(* Proofs about StatsPoller, for any number of bus threads, poller threads *)
(* and requests, and any limits of the interval.  The handlers exclude     *)
(* each other by ctrl->mutex as long as nobody unlocks it for its owner:   *)
(* that is why the one that stops the poller is never overtaken by one     *)
(* that starts it, and why a SET, which locks that mutex once more, never  *)
(* stores anything.  Then which threads there are, and how many steps the  *)
(* one somebody joins has left.                                            *)
(***************************************************************************)
EXTENDS StatsPoller, TLAPS

\* While main() is at these points g_controller is set; while it is at those no
\* poller thread exists; and at the last ones the bus has closed.
Serving == {"run", "begin", "start", "create", "loop", "leave", "left", "clear"}
Early   == {"publish", "run", "begin", "start", "create"}
Closed  == {"stop", "stopping", "join", "free", "gone"}

\* Where a handler owns ctrl->mutex, unless it was stolen.
Owning == {"enable", "stop", "stopping", "join", "flag", "interval", "config", "relock",
           "start", "create"}

-----------------------------------------------------------------------------
\* g_controller is set from its publication to eponMgr_controller_destroy, and no
\* handler gets beyond its NULL test before.
PublishInv ==
    /\ g_controller <=> mpc \in Serving
    /\ mpc = "publish" => mutex = Nobody /\ \A b \in Bus : bpc[b] \in {"idle", "unlock"}
    /\ mpc \in Closed => \A b \in Bus : bpc[b] = "idle"

\* A handler that is idle or waits for ctrl->mutex does not own it.
ReleaseInv ==
    g_controller => \A b \in Bus : mutex = b => bpc[b] \notin {"idle", "lock"}

\* Without a theft ctrl->mutex keeps the handlers apart, and a SET starts a thread
\* only after g_controller was cleared, when set_enabled does not lock again.
OwnerInv ==
    ~stolen =>
        /\ mpc \in {"begin", "left"} => mutex = "main"
        /\ \A b \in Bus :
              /\ bpc[b] \in Owning => mutex = b
              /\ bpc[b] # "persisted"
              /\ bpc[b] \in {"start", "create"} => ~g_controller

\* Without a theft there is nothing to stop before main() has started the poller,
\* and what a caller of stats_poller_stop asked for still stands.
StopInv ==
    ~stolen =>
        /\ mpc \in Early => ~poller.running /\ \A t \in Thread : tpc[t] = "none"
        /\ mpc \in {"stopping", "join"} => poller.shutdown
        /\ \A b \in Bus : bpc[b] \in {"stopping", "join"} =>
                              poller.shutdown /\ mpc \notin Early

IInv == TypeOK /\ PublishInv /\ ReleaseInv /\ OwnerInv /\ StopInv

-----------------------------------------------------------------------------
(***************************************************************************)
(* Typing: the flags, the poller and its threads, then the callers.        *)
(***************************************************************************)
FlagsOK == g_controller \in BOOLEAN /\ config_enabled \in BOOLEAN /\ stolen \in BOOLEAN

ThreadPoint == {"none", "created", "top", "collect", "rearm", "sleep", "woken", "exit",
                "ended"}
PollerOK ==
    /\ poller \in [enabled : BOOLEAN, interval : ValidInterval, running : BOOLEAN,
                   shutdown : BOOLEAN, thread : 0 .. MaxThreads, freed : BOOLEAN]
    /\ tpc \in [Thread -> ThreadPoint]
    /\ slept \in [Thread -> {0} \cup ValidInterval]

MainPoint == {"publish", "run", "begin", "start", "create", "loop", "leave", "left",
              "clear", "rbus_close", "stop", "stopping", "join", "free", "gone"}
BusPoint == {"idle", "lock", "enable", "stop", "stopping", "join", "flag", "interval",
             "config", "relock", "persisted", "start", "create", "unlock", "crashed"}
CallersOK ==
    /\ mutex \in {Nobody, "main"} \cup Bus
    /\ mpc \in MainPoint
    /\ bpc \in [Bus -> BusPoint]
    /\ request \in [Bus -> Request \cup [op : {"start"}, value : {0}]]
    /\ served \in [Bus -> 0 .. MaxRequests]
    /\ joins \in [Bus \cup {"main"} -> 0 .. MaxThreads]

LEMMA TypeParts == TypeOK <=> FlagsOK /\ PollerOK /\ CallersOK
  BY DEF TypeOK, FlagsOK, PollerOK, CallersOK, ThreadPoint, MainPoint, BusPoint

LEMMA TypeInit == Init => TypeOK
<1>. SUFFICES ASSUME Init PROVE TypeOK
  OBVIOUS
<1>1. FlagsOK
  BY DEF Init, FlagsOK
<1>2. PollerOK
  <2>1. PICK i \in ValidInterval :
          poller = [enabled |-> config_enabled, interval |-> i, running |-> FALSE,
                    shutdown |-> FALSE, thread |-> NoThread, freed |-> FALSE]
    BY DEF Init
  <2>2. 0 \in 0 .. MaxThreads
    BY PollerAssumption
  <2>3. poller \in [enabled : BOOLEAN, interval : ValidInterval, running : BOOLEAN,
                    shutdown : BOOLEAN, thread : 0 .. MaxThreads, freed : BOOLEAN]
    BY <1>1, <2>1, <2>2 DEF NoThread, FlagsOK
  <2>4. QED
    BY <2>3 DEF Init, PollerOK, ThreadPoint
<1>3. CallersOK
  BY PollerAssumption DEF Init, CallersOK, MainPoint, BusPoint, NoRequest, Request, NoThread
<1>4. QED
  BY <1>1, <1>2, <1>3, TypeParts

LEMMA FlagsStep ==
    ASSUME FlagsOK, [Next]_vars
    PROVE  FlagsOK'
<1>. USE DEF FlagsOK
<1>1. ASSUME NEW t \in Thread, PollerThread(t) PROVE FlagsOK'
  BY <1>1 DEF PollerThread, ThreadBegin, ThreadTop, ThreadCollect, ThreadSleep,
              ThreadTimeout, ThreadAfterWait, ThreadExit, ThreadGoes
<1>2. CASE Main \/ ShutdownRequest
  BY <1>2 DEF Main, Publish, RunLock, RunBegin, RunStart, RunCreate, LeaveLock, LeaveUnlock,
              ClearGlobal, RbusCleanup, DestroyStop, DestroyJoin, DestroyJoined,
              DestroyFree, ShutdownRequest, MainGoes, MainLock, MainUnlock
<1>3. ASSUME NEW b \in Bus, Receive(b) \/ Handler(b) \/ NullDereference(b) PROVE FlagsOK'
  BY <1>3 DEF Receive, Handler, NullDereference, TakeMutex, SetEnable, SetStop, SetJoin,
              SetJoined, SetFlag, IntervalRefused, SetInterval, ConfigTest, Relock,
              UnlockConfig, SetStart, SetCreate, Return, BusGoes, KeepsMutex, UnlockMutex
<1>4. QED
  BY <1>1, <1>2, <1>3 DEF Next, vars

\* What the operations of the poller do to it.
LEMMA SignalOK ==
    ASSUME PollerOK, SignalThread
    PROVE  tpc' \in [Thread -> ThreadPoint]
  BY DEF PollerOK, SignalThread, ThreadPoint

LEMMA CreateOK ==
    ASSUME PollerOK, CreateThread \/ CreateFails, slept' = slept
    PROVE  PollerOK'
<1>1. CASE CreateFails
  BY <1>1 DEF CreateFails, PollerOK
<1>2. CASE CreateThread
  <2>1. PICK t \in Thread : /\ poller' = [poller EXCEPT !.thread = t]
                            /\ tpc' = [tpc EXCEPT ![t] = "created"]
    BY <1>2 DEF CreateThread
  <2>2. t \in 0 .. MaxThreads
    BY PollerAssumption DEF Thread
  <2>3. QED
    BY <2>1, <2>2 DEF PollerOK, ThreadPoint
<1>3. QED
  BY <1>1, <1>2

LEMMA StartStopOK ==
    ASSUME PollerOK, slept' = slept,
           \/ (StartAllowed \/ StartRefused) /\ tpc' = tpc
           \/ StopRunning \/ StopIdle
    PROVE  PollerOK'
<1>1. CASE (StartAllowed \/ StartRefused) /\ tpc' = tpc
  BY <1>1 DEF StartAllowed, StartRefused, PollerOK
<1>2. CASE StopRunning
  <2>1. poller' = [poller EXCEPT !.shutdown = TRUE] /\ tpc' \in [Thread -> ThreadPoint]
    BY <1>2, SignalOK DEF StopRunning
  <2>2. QED
    BY <2>1 DEF PollerOK
<1>3. CASE StopIdle
  BY <1>3 DEF StopIdle, PollerOK
<1>4. QED
  BY <1>1, <1>2, <1>3

LEMMA PollerStep ==
    ASSUME PollerOK, [Next]_vars
    PROVE  PollerOK'
<1>1. ASSUME NEW t \in Thread, PollerThread(t) PROVE PollerOK'
  BY <1>1 DEF PollerThread, ThreadBegin, ThreadTop, ThreadCollect, ThreadSleep, ThreadTimeout,
              ThreadAfterWait, ThreadExit, ThreadGoes, PollerOK, ThreadPoint
<1>2. CASE Main \/ ShutdownRequest
  <2>1. CASE RunStart
    BY <2>1, StartStopOK DEF RunStart, MainGoes, PollerOK
  <2>2. CASE RunCreate
    BY <2>2, CreateOK DEF RunCreate, MainGoes
  <2>3. CASE DestroyStop
    BY <2>3, StartStopOK DEF DestroyStop, MainGoes
  <2>4. CASE DestroyFree
    BY <2>4 DEF DestroyFree, MainGoes, PollerOK
  <2>5. CASE \/ Publish \/ RunLock \/ RunBegin \/ LeaveLock \/ LeaveUnlock \/ ClearGlobal
             \/ RbusCleanup \/ DestroyJoin \/ DestroyJoined \/ ShutdownRequest
    BY <2>5 DEF Publish, RunLock, RunBegin, LeaveLock, LeaveUnlock, ClearGlobal, RbusCleanup,
                DestroyJoin, DestroyJoined, ShutdownRequest, MainGoes, MainLock,
                MainUnlock, PollerOK
  <2>6. QED
    BY <1>2, <2>1, <2>2, <2>3, <2>4, <2>5 DEF Main
<1>3. ASSUME NEW b \in Bus, Receive(b) \/ Handler(b) \/ NullDereference(b) PROVE PollerOK'
  <2>1. CASE SetStop(b)
    BY <2>1, StartStopOK DEF SetStop, BusGoes
  <2>2. CASE SetStart(b)
    BY <2>2, StartStopOK DEF SetStart, BusGoes
  <2>3. CASE SetCreate(b)
    BY <2>3, CreateOK DEF SetCreate, BusGoes
  <2>4. CASE SetInterval(b)
    <3>1. /\ tpc' \in [Thread -> ThreadPoint] /\ slept' = slept
          /\ poller' = [poller EXCEPT !.interval = request[b].value]
          /\ request[b].value \in ValidInterval
      BY <2>4, SignalOK DEF SetInterval, BusGoes
    <3>2. QED
      BY <3>1 DEF PollerOK
  <2>5. CASE SetFlag(b)
    <3>1. /\ tpc' = tpc /\ slept' = slept
          /\ poller' = [poller EXCEPT !.enabled = request[b].op # "disable"]
      BY <2>5 DEF SetFlag, BusGoes
    <3>2. QED
      BY <3>1 DEF PollerOK
  <2>6. CASE \/ Receive(b) \/ NullDereference(b) \/ TakeMutex(b) \/ SetEnable(b)
             \/ SetJoin(b) \/ SetJoined(b) \/ IntervalRefused(b) \/ ConfigTest(b)
             \/ Relock(b) \/ UnlockConfig(b) \/ Return(b)
    BY <2>6 DEF Receive, NullDereference, TakeMutex, SetEnable, SetJoin, SetJoined,
                IntervalRefused, ConfigTest, Relock, UnlockConfig, Return, BusGoes, PollerOK
  <2>7. QED
    BY <1>3, <2>1, <2>2, <2>3, <2>4, <2>5, <2>6 DEF Handler
<1>4. CASE UNCHANGED vars
  BY <1>4 DEF vars, PollerOK
<1>5. QED
  BY <1>1, <1>2, <1>3, <1>4 DEF Next

LEMMA CallersStep ==
    ASSUME PollerOK, CallersOK, [Next]_vars
    PROVE  CallersOK'
<1>. USE PollerAssumption DEF CallersOK
<1>0. poller.thread \in 0 .. MaxThreads
  BY DEF PollerOK
<1>1. ASSUME NEW t \in Thread, PollerThread(t) PROVE CallersOK'
  BY <1>1 DEF PollerThread, ThreadBegin, ThreadTop, ThreadCollect, ThreadSleep, ThreadTimeout,
              ThreadAfterWait, ThreadExit, ThreadGoes, busVars
<1>2. CASE Main \/ ShutdownRequest
  <2>. USE DEF MainGoes, MainPoint, busVars
  <2>1. CASE DestroyJoin
    BY <1>0, <2>1 DEF DestroyJoin, JoinBegin
  <2>2. CASE \/ Publish \/ RunLock \/ RunBegin \/ RunStart \/ RunCreate \/ LeaveLock
             \/ LeaveUnlock \/ ClearGlobal \/ RbusCleanup \/ DestroyStop \/ DestroyJoined
             \/ DestroyFree \/ ShutdownRequest
    BY <2>2 DEF Publish, RunLock, RunBegin, RunStart, RunCreate, LeaveLock, LeaveUnlock,
                ClearGlobal, RbusCleanup, DestroyStop, DestroyJoined, DestroyFree,
                ShutdownRequest, MainLock, MainUnlock
  <2>3. QED
    BY <1>2, <2>1, <2>2 DEF Main
<1>3. ASSUME NEW b \in Bus, Receive(b) \/ Handler(b) \/ NullDereference(b) PROVE CallersOK'
  <2>. USE DEF BusGoes, KeepsMutex, BusPoint
  <2>1. CASE Receive(b)
    BY <2>1 DEF Receive
  <2>2. CASE SetJoin(b)
    BY <1>0, <2>2 DEF SetJoin, JoinBegin
  <2>3. CASE SetEnable(b)
    <3>1. request' \in [Bus -> Request \cup [op : {"start"}, value : {0}]]
      BY <2>3 DEF SetEnable, Request
    <3>2. QED
      BY <2>3, <3>1 DEF SetEnable
  <2>4. CASE Relock(b)
    <3>1. request' \in [Bus -> Request \cup [op : {"start"}, value : {0}]]
      BY <2>4 DEF Relock, Request
    <3>2. QED
      BY <2>4, <3>1 DEF Relock
  <2>5. CASE \/ TakeMutex(b) \/ SetStop(b) \/ SetJoined(b) \/ SetFlag(b)
             \/ IntervalRefused(b) \/ SetInterval(b)
    BY <2>5 DEF TakeMutex, SetStop, SetJoined, SetFlag, IntervalRefused, SetInterval
  <2>6. CASE \/ ConfigTest(b) \/ UnlockConfig(b) \/ SetStart(b) \/ SetCreate(b) \/ Return(b)
             \/ NullDereference(b)
    BY <2>6 DEF ConfigTest, UnlockConfig, AfterPersist, SetStart, SetCreate, Return,
                NullDereference, UnlockMutex
  <2>7. QED
    BY <1>3, <2>1, <2>2, <2>3, <2>4, <2>5, <2>6 DEF Handler
<1>4. CASE UNCHANGED vars
  BY <1>4 DEF vars, busVars
<1>5. QED
  BY <1>1, <1>2, <1>3, <1>4 DEF Next

LEMMA TypeStep ==
    ASSUME TypeOK, [Next]_vars
    PROVE  TypeOK'
<1>1. FlagsOK' /\ PollerOK' /\ CallersOK'
  BY TypeParts, FlagsStep, PollerStep, CallersStep
<1>2. QED
  BY <1>1 DEF TypeOK, FlagsOK, PollerOK, CallersOK, ThreadPoint, MainPoint, BusPoint

\* The state stays within its types for any number of threads: the interval the
\* poller works with is one the TR-181 parameter allows, whoever set it.
THEOREM TypeCorrect == Spec => []TypeOK
<1>1. TypeOK /\ [Next]_vars => TypeOK'
  BY TypeStep
<1>2. QED
  BY TypeInit, <1>1, PTL DEF Spec

-----------------------------------------------------------------------------
(***************************************************************************)
(* ctrl->mutex.                                                            *)
(***************************************************************************)
LEMMA InitInv == Init => IInv
<1>. SUFFICES ASSUME Init PROVE IInv
  OBVIOUS
<1>1. PublishInv
  BY DEF Init, PublishInv, Serving, Closed
<1>2. ReleaseInv /\ OwnerInv
  BY DEF Init, ReleaseInv, OwnerInv, Owning
<1>3. StopInv
  BY DEF Init, StopInv
<1>4. QED
  BY <1>1, <1>2, <1>3, TypeInit DEF IInv

\* A step of a poller's thread leaves the callers and the mutex alone.
CallersStay == UNCHANGED <<g_controller, mutex, mpc, bpc, stolen>>

LEMMA ThreadFrame ==
    ASSUME NEW t \in Thread, PollerThread(t)
    PROVE  CallersStay
  BY DEF CallersStay, PollerThread, ThreadBegin, ThreadTop, ThreadCollect, ThreadSleep,
         ThreadTimeout, ThreadAfterWait, ThreadExit, ThreadGoes, busVars

\* A step of the main thread leaves the handlers alone, a step of a handler the
\* main thread and the other handlers.
LEMMA MainFrame ==
    ASSUME Main \/ ShutdownRequest
    PROVE  bpc' = bpc /\ stolen' = stolen
  BY DEF Main, Publish, RunLock, RunBegin, RunStart, RunCreate, LeaveLock, LeaveUnlock,
         ClearGlobal, RbusCleanup, DestroyStop, DestroyJoin, DestroyJoined, DestroyFree,
         ShutdownRequest, MainGoes, MainLock, MainUnlock, busVars

LEMMA BusFrame ==
    ASSUME CallersOK, NEW b \in Bus, Receive(b) \/ Handler(b) \/ NullDereference(b)
    PROVE  /\ g_controller' = g_controller /\ mpc' = mpc
           /\ \A c \in Bus \ {b} : bpc'[c] = bpc[c]
  BY DEF CallersOK, Receive, Handler, NullDereference, TakeMutex, SetEnable, SetStop, SetJoin,
         SetJoined, SetFlag, IntervalRefused, SetInterval, ConfigTest, Relock, UnlockConfig,
         SetStart, SetCreate, Return, BusGoes

LEMMA PublishStep ==
    ASSUME IInv, [Next]_vars
    PROVE  PublishInv'
<1>. USE PollerAssumption DEF PublishInv, Serving, Closed
<1>0. CallersOK /\ PublishInv
  BY TypeParts DEF IInv
<1>1. CASE CallersStay
  BY <1>0, <1>1 DEF CallersStay
<1>2. CASE Main \/ ShutdownRequest
  <2>1. bpc' = bpc
    BY <1>2, MainFrame
  <2>2. CASE \/ Publish \/ RunLock \/ RunBegin \/ RunStart \/ RunCreate \/ LeaveLock
             \/ LeaveUnlock \/ ShutdownRequest
    BY <1>0, <2>1, <2>2
       DEF Publish, RunLock, RunBegin, RunStart, RunCreate, LeaveLock, LeaveUnlock,
           ShutdownRequest, MainLock, MainUnlock, MainGoes
  <2>3. CASE \/ ClearGlobal \/ RbusCleanup \/ DestroyStop \/ DestroyJoin \/ DestroyJoined
             \/ DestroyFree
    BY <1>0, <2>1, <2>3
       DEF ClearGlobal, RbusCleanup, DestroyStop, DestroyJoin, DestroyJoined, DestroyFree,
           MainGoes
  <2>4. QED
    BY <1>2, <2>2, <2>3 DEF Main
<1>3. ASSUME NEW b \in Bus, Receive(b) \/ Handler(b) \/ NullDereference(b) PROVE PublishInv'
  <2>1. g_controller' = g_controller /\ mpc' = mpc /\ \A c \in Bus \ {b} : bpc'[c] = bpc[c]
    BY <1>0, <1>3, BusFrame
  <2>2. CASE Receive(b)
    BY <1>0, <2>1, <2>2 DEF Receive, BusOpen, CallersOK
  <2>3. CASE Return(b)
    BY <1>0, <2>1, <2>3 DEF Return, BusGoes, UnlockMutex, CallersOK
  <2>4. CASE \/ TakeMutex(b) \/ SetEnable(b) \/ SetStop(b) \/ SetJoin(b) \/ SetJoined(b)
             \/ SetFlag(b) \/ IntervalRefused(b) \/ SetInterval(b) \/ ConfigTest(b)
             \/ Relock(b) \/ UnlockConfig(b) \/ SetStart(b) \/ SetCreate(b)
             \/ NullDereference(b)
    <3>1. bpc[b] \notin {"idle", "unlock"}
      BY <2>4 DEF TakeMutex, SetEnable, SetStop, SetJoin, SetJoined, SetFlag, IntervalRefused,
                  SetInterval, ConfigTest, Relock, UnlockConfig, SetStart, SetCreate,
                  NullDereference, BusGoes
    <3>2. mpc # "publish" /\ mpc \notin Closed
      BY <1>0, <3>1
    <3>3. QED
      BY <1>0, <2>1, <3>2
  <2>5. QED
    BY <1>3, <2>2, <2>3, <2>4 DEF Handler
<1>4. QED
  BY <1>1, <1>2, <1>3, ThreadFrame DEF Next, vars, busVars, CallersStay

LEMMA ReleaseStep ==
    ASSUME IInv, [Next]_vars
    PROVE  ReleaseInv'
<1>. USE PollerAssumption DEF ReleaseInv
<1>0. CallersOK /\ PublishInv /\ ReleaseInv
  BY TypeParts DEF IInv
<1>1. CASE CallersStay
  BY <1>0, <1>1 DEF CallersStay
<1>2. CASE Main \/ ShutdownRequest
  <2>1. bpc' = bpc
    BY <1>2, MainFrame
  <2>2. CASE \/ Publish \/ RunLock \/ RunBegin \/ RunStart \/ RunCreate \/ LeaveLock
             \/ LeaveUnlock \/ ShutdownRequest
    BY <1>0, <2>1, <2>2
       DEF Publish, RunLock, RunBegin, RunStart, RunCreate, LeaveLock, LeaveUnlock,
           ShutdownRequest, MainLock, MainUnlock, MainGoes, PublishInv
  <2>3. CASE \/ ClearGlobal \/ RbusCleanup \/ DestroyStop \/ DestroyJoin \/ DestroyJoined
             \/ DestroyFree
    BY <1>0, <2>1, <2>3
       DEF ClearGlobal, RbusCleanup, DestroyStop, DestroyJoin, DestroyJoined, DestroyFree,
           MainGoes
  <2>4. QED
    BY <1>2, <2>2, <2>3 DEF Main
<1>3. ASSUME NEW b \in Bus, Receive(b) \/ Handler(b) \/ NullDereference(b) PROVE ReleaseInv'
  <2>1. g_controller' = g_controller /\ \A c \in Bus \ {b} : bpc'[c] = bpc[c]
    BY <1>0, <1>3, BusFrame
  <2>2. CASE Receive(b)
    BY <1>0, <2>1, <2>2 DEF Receive, CallersOK
  <2>3. CASE UnlockConfig(b) \/ Return(b)
    BY <1>0, <2>1, <2>3 DEF UnlockConfig, Return, UnlockMutex
  <2>4. CASE TakeMutex(b) \/ Relock(b)
    BY <1>0, <2>1, <2>4 DEF TakeMutex, Relock, BusGoes, CallersOK
  <2>5. CASE \/ SetEnable(b) \/ SetStop(b) \/ SetJoin(b) \/ SetJoined(b) \/ SetFlag(b)
             \/ IntervalRefused(b) \/ SetInterval(b) \/ ConfigTest(b) \/ SetStart(b)
             \/ SetCreate(b) \/ NullDereference(b)
    <3>1. mutex' = mutex /\ bpc'[b] \notin {"idle", "lock"}
      BY <1>0, <2>5
         DEF SetEnable, SetStop, SetJoin, SetJoined, SetFlag, IntervalRefused, SetInterval,
             ConfigTest, AfterPersist, SetStart, SetCreate, NullDereference, BusGoes,
             KeepsMutex, CallersOK
    <3>2. QED
      BY <1>0, <2>1, <3>1
  <2>6. QED
    BY <1>3, <2>2, <2>3, <2>4, <2>5 DEF Handler
<1>4. QED
  BY <1>1, <1>2, <1>3, ThreadFrame DEF Next, vars, busVars, CallersStay

LEMMA OwnerStep ==
    ASSUME IInv, [Next]_vars
    PROVE  OwnerInv'
<1>. USE PollerAssumption DEF OwnerInv, Owning
<1>0. CallersOK /\ PublishInv /\ OwnerInv
  BY TypeParts DEF IInv
<1>1. CASE CallersStay
  BY <1>0, <1>1 DEF CallersStay
<1>2. CASE Main \/ ShutdownRequest
  <2>1. bpc' = bpc /\ stolen' = stolen
    BY <1>2, MainFrame
  <2>2. CASE \/ Publish \/ RunLock \/ RunBegin \/ LeaveLock \/ LeaveUnlock
    <3>1. CASE Publish
      BY <1>0, <2>1, <3>1 DEF Publish, MainGoes, PublishInv
    <3>2. CASE RunLock \/ LeaveLock
      BY <1>0, <2>1, <3>2 DEF RunLock, LeaveLock, MainLock, MainGoes
    <3>3. CASE RunBegin \/ LeaveUnlock
      BY <1>0, <2>1, <3>3 DEF RunBegin, LeaveUnlock, MainUnlock, MainGoes
    <3>4. QED
      BY <2>2, <3>1, <3>2, <3>3
  <2>3. CASE \/ RunStart \/ RunCreate \/ ShutdownRequest \/ ClearGlobal \/ RbusCleanup
             \/ DestroyStop \/ DestroyJoin \/ DestroyJoined \/ DestroyFree
    BY <1>0, <2>1, <2>3
       DEF RunStart, RunCreate, ShutdownRequest, ClearGlobal, RbusCleanup, DestroyStop,
           DestroyJoin, DestroyJoined, DestroyFree, MainGoes
  <2>4. QED
    BY <1>2, <2>2, <2>3 DEF Main
<1>3. ASSUME NEW b \in Bus, Receive(b) \/ Handler(b) \/ NullDereference(b) PROVE OwnerInv'
  <2>1. /\ g_controller' = g_controller /\ mpc' = mpc
        /\ \A c \in Bus \ {b} : bpc'[c] = bpc[c]
    BY <1>0, <1>3, BusFrame
  <2>2. CASE Receive(b)
    BY <1>0, <2>1, <2>2 DEF Receive, CallersOK
  <2>3. CASE TakeMutex(b)
    BY <1>0, <2>1, <2>3 DEF TakeMutex, BusGoes, CallersOK
  <2>4. CASE Relock(b) \/ UnlockConfig(b)
    <3>1. stolen
      BY <1>0, <2>4 DEF Relock, UnlockConfig, BusGoes
    <3>2. stolen'
      BY <2>4, <3>1 DEF Relock, UnlockConfig, UnlockMutex
    <3>3. QED
      BY <3>2
  <2>5. CASE Return(b)
    <3>1. bpc'[b] = "idle"
      BY <1>0, <2>5 DEF Return, BusGoes, CallersOK
    <3>2. stolen \/ (g_controller /\ mutex \notin {Nobody, b}) => stolen'
      BY <2>5 DEF Return, UnlockMutex
    <3>3. mutex' = IF g_controller THEN Nobody ELSE mutex
      BY <2>5 DEF Return, UnlockMutex
    <3>4. QED
      BY <1>0, <2>1, <3>1, <3>2, <3>3
  <2>6. CASE \/ SetEnable(b) \/ SetStop(b) \/ SetJoin(b) \/ SetJoined(b) \/ SetFlag(b)
             \/ IntervalRefused(b) \/ SetInterval(b) \/ ConfigTest(b) \/ SetStart(b)
             \/ SetCreate(b) \/ NullDereference(b)
    <3>1. /\ mutex' = mutex /\ stolen' = stolen
          /\ bpc'[b] \in Owning => bpc[b] \in Owning
          /\ bpc'[b] # "persisted"
          /\ bpc'[b] \in {"start", "create"}
                => ~g_controller \/ bpc[b] \in {"start", "create"}
      BY <1>0, <2>6
         DEF SetEnable, SetStop, SetJoin, SetJoined, SetFlag, IntervalRefused, SetInterval,
             ConfigTest, AfterPersist, SetStart, SetCreate, NullDereference, BusGoes,
             KeepsMutex, CallersOK
    <3>2. QED
      BY <1>0, <2>1, <3>1
  <2>7. QED
    BY <1>3, <2>2, <2>3, <2>4, <2>5, <2>6 DEF Handler
<1>4. QED
  BY <1>1, <1>2, <1>3, ThreadFrame DEF Next, vars, busVars, CallersStay

-----------------------------------------------------------------------------
(***************************************************************************)
(* The poller: what a stop has asked for stands.                           *)
(***************************************************************************)
\* A step of the poller's own thread asks for nothing and starts nothing.
LEMMA ThreadKeeps ==
    ASSUME PollerOK, NEW t \in Thread, PollerThread(t)
    PROVE  /\ poller'.shutdown = poller.shutdown
           /\ tpc[t] # "none"
  BY DEF PollerOK, PollerThread, ThreadBegin, ThreadTop, ThreadCollect, ThreadSleep,
         ThreadTimeout, ThreadAfterWait, ThreadExit, ThreadGoes, ThreadAt

\* Only a thread that starts the poller withdraws a request to stop.
LEMMA MainKeeps ==
    ASSUME PollerOK, Main \/ ShutdownRequest
    PROVE  \/ RunStart
           \/ poller.shutdown => poller'.shutdown
<1>1. CASE RunCreate
  BY <1>1 DEF PollerOK, RunCreate, CreateThread, CreateFails
<1>2. CASE DestroyStop \/ DestroyFree
  BY <1>2 DEF PollerOK, DestroyStop, StopRunning, StopIdle, DestroyFree
<1>3. CASE \/ Publish \/ RunLock \/ RunBegin \/ LeaveLock \/ LeaveUnlock \/ ClearGlobal
           \/ RbusCleanup \/ DestroyJoin \/ DestroyJoined \/ ShutdownRequest
  BY <1>3 DEF Publish, RunLock, RunBegin, LeaveLock, LeaveUnlock, ClearGlobal, RbusCleanup,
              DestroyJoin, DestroyJoined, ShutdownRequest, MainLock, MainUnlock
<1>4. QED
  BY <1>1, <1>2, <1>3 DEF Main

LEMMA BusKeeps ==
    ASSUME PollerOK, NEW b \in Bus, Receive(b) \/ Handler(b) \/ NullDereference(b)
    PROVE  \/ SetStart(b)
           \/ poller.shutdown => poller'.shutdown
<1>1. CASE SetCreate(b)
  BY <1>1 DEF PollerOK, SetCreate, CreateThread, CreateFails
<1>2. CASE SetStop(b)
  BY <1>2 DEF PollerOK, SetStop, StopRunning, StopIdle
<1>3. CASE SetFlag(b) \/ SetInterval(b)
  BY <1>3 DEF PollerOK, SetFlag, SetInterval
<1>4. CASE \/ Receive(b) \/ NullDereference(b) \/ TakeMutex(b) \/ SetEnable(b) \/ SetJoin(b)
           \/ SetJoined(b) \/ IntervalRefused(b) \/ ConfigTest(b) \/ Relock(b)
           \/ UnlockConfig(b) \/ Return(b)
  BY <1>4 DEF Receive, NullDereference, TakeMutex, SetEnable, SetJoin, SetJoined,
              IntervalRefused, ConfigTest, Relock, UnlockConfig, Return
<1>5. QED
  BY <1>1, <1>2, <1>3, <1>4 DEF Handler

\* At the points of Early a handler that goes on without a theft does not touch
\* the poller's flags or its threads, and finds no thread to stop.
LEMMA EarlyKeeps ==
    ASSUME PollerOK, CallersOK, PublishInv, OwnerInv, StopInv, ~stolen,
           mpc \in Early,
           NEW b \in Bus, Receive(b) \/ Handler(b) \/ NullDereference(b)
    PROVE  /\ ~poller'.running
           /\ tpc' = tpc
           /\ bpc'[b] \notin {"stopping", "join"}
<1>. USE DEF CallersOK
<1>1. ~poller.running /\ \A t \in Thread : tpc[t] = "none"
  BY DEF StopInv
<1>2. bpc[b] \notin {"stopping", "join"}
  BY DEF StopInv
<1>3. bpc[b] \notin {"start", "create"}
  BY DEF OwnerInv, PublishInv, Serving, Early
<1>4. CASE SetStop(b)
  BY <1>1, <1>4 DEF SetStop, StopRunning, StopIdle, BusGoes
<1>5. CASE SetInterval(b)
  <2>1. tpc' = tpc
    BY <1>1, <1>5 DEF SetInterval, SignalThread
  <2>2. QED
    BY <1>1, <1>5, <2>1 DEF SetInterval, BusGoes, PollerOK
<1>6. CASE SetFlag(b)
  BY <1>1, <1>6 DEF SetFlag, BusGoes, PollerOK
<1>7. CASE \/ Receive(b) \/ NullDereference(b) \/ TakeMutex(b) \/ SetEnable(b)
           \/ IntervalRefused(b) \/ ConfigTest(b) \/ Relock(b) \/ UnlockConfig(b)
           \/ Return(b)
  BY <1>1, <1>7
     DEF Receive, NullDereference, TakeMutex, SetEnable, IntervalRefused, ConfigTest, Relock,
         UnlockConfig, AfterPersist, Return, BusGoes
<1>8. CASE SetJoin(b) \/ SetJoined(b) \/ SetStart(b) \/ SetCreate(b)
  BY <1>2, <1>3, <1>8 DEF SetJoin, SetJoined, SetStart, SetCreate, BusGoes
<1>9. QED
  BY <1>4, <1>5, <1>6, <1>7, <1>8 DEF Handler

LEMMA StopStep ==
    ASSUME IInv, [Next]_vars
    PROVE  StopInv'
<1>. USE PollerAssumption
<1>0. PollerOK /\ CallersOK /\ PublishInv /\ OwnerInv /\ StopInv
  BY TypeParts DEF IInv
<1>1. ASSUME NEW t \in Thread, PollerThread(t) PROVE StopInv'
  <2>1. CallersStay /\ poller'.shutdown = poller.shutdown /\ tpc[t] # "none"
    BY <1>0, <1>1, ThreadFrame, ThreadKeeps
  <2>2. QED
    BY <1>0, <2>1 DEF StopInv, CallersStay
<1>2. CASE Main \/ ShutdownRequest
  <2>1. bpc' = bpc /\ stolen' = stolen
    BY <1>2, MainFrame
  <2>2. CASE RunStart
    <3>1. /\ mpc = "start" /\ mpc' \in {"create", "loop"} /\ tpc' = tpc
          /\ poller'.running = poller.running
      BY <1>0, <2>2 DEF RunStart, MainGoes, StartAllowed, StartRefused, PollerOK
    <3>2. QED
      BY <1>0, <2>1, <3>1 DEF StopInv, Early
  <2>3. CASE RunCreate
    BY <1>0, <2>1, <2>3 DEF RunCreate, MainGoes, StopInv, Early
  <2>4. CASE \/ Publish \/ RunLock \/ RunBegin \/ LeaveLock \/ LeaveUnlock \/ ClearGlobal
             \/ RbusCleanup \/ DestroyJoined \/ ShutdownRequest
    BY <1>0, <2>1, <2>4
       DEF Publish, RunLock, RunBegin, LeaveLock, LeaveUnlock, ClearGlobal, RbusCleanup,
           DestroyJoined, ShutdownRequest, MainLock, MainUnlock, MainGoes, StopInv, Early
  <2>5. CASE DestroyStop \/ DestroyJoin \/ DestroyFree
    <3>1. /\ mpc \in Closed /\ mpc' \in Closed
          /\ mpc' \in {"stopping", "join"} =>
                poller'.shutdown \/ (mpc \in {"stopping", "join"} /\ poller' = poller)
      BY <1>0, <2>5
         DEF DestroyStop, DestroyJoin, DestroyFree, StopRunning, StopIdle, MainGoes, PollerOK,
             Closed
    <3>2. \A b \in Bus : bpc'[b] = "idle"
      BY <1>0, <2>1, <3>1 DEF PublishInv
    <3>3. QED
      BY <1>0, <2>1, <3>1, <3>2 DEF StopInv, Early, Closed
  <2>6. QED
    BY <1>2, <2>2, <2>3, <2>4, <2>5 DEF Main
<1>3. ASSUME NEW b \in Bus, Receive(b) \/ Handler(b) \/ NullDereference(b), ~stolen'
      PROVE  StopInv'
  <2>1. g_controller' = g_controller /\ mpc' = mpc /\ \A c \in Bus \ {b} : bpc'[c] = bpc[c]
    BY <1>0, <1>3, BusFrame
  <2>2. ~stolen
    BY <1>3 DEF Receive, Handler, NullDereference, TakeMutex, SetEnable, SetStop, SetJoin,
                SetJoined, SetFlag, IntervalRefused, SetInterval, ConfigTest, Relock,
                UnlockConfig, SetStart, SetCreate, Return, BusGoes, KeepsMutex, UnlockMutex
  <2>3. CASE mpc \in Early
    <3>1. ~poller'.running /\ tpc' = tpc /\ bpc'[b] \notin {"stopping", "join"}
      BY <1>0, <1>3, <2>2, <2>3, EarlyKeeps
    <3>2. QED
      BY <1>0, <2>1, <2>2, <2>3, <3>1 DEF StopInv, Early
  <2>4. CASE mpc \notin Early
    <3>1. mpc \notin {"stopping", "join"}
      BY <1>0, <1>3 DEF PublishInv, Closed, Receive, BusOpen, Handler, NullDereference,
            TakeMutex, SetEnable, SetStop, SetJoin, SetJoined, SetFlag, IntervalRefused,
            SetInterval, ConfigTest, Relock, UnlockConfig, SetStart, SetCreate, Return,
            BusGoes
    <3>2. CASE SetStart(b)
      <4>1. \A c \in Bus : bpc'[c] \notin {"stopping", "join"}
        BY <1>0, <2>1, <2>2, <3>2 DEF SetStart, BusGoes, OwnerInv, Owning, CallersOK
      <4>2. QED
        BY <2>1, <2>4, <3>1, <4>1 DEF StopInv
    <3>3. CASE SetStop(b)
      <4>1. bpc'[b] \in {"stopping", "join"} => poller'.shutdown
        BY <1>0, <3>3 DEF SetStop, StopRunning, StopIdle, BusGoes, PollerOK, CallersOK
      <4>2. poller.shutdown => poller'.shutdown
        BY <1>0, <3>3 DEF SetStop, StopRunning, StopIdle, PollerOK
      <4>3. QED
        BY <1>0, <2>1, <2>2, <2>4, <3>1, <4>1, <4>2 DEF StopInv
    <3>4. CASE ~SetStart(b) /\ ~SetStop(b)
      <4>1. poller.shutdown => poller'.shutdown
        BY <1>0, <1>3, <3>4, BusKeeps
      <4>2. bpc'[b] \in {"stopping", "join"} => bpc[b] \in {"stopping", "join"}
        BY <1>0, <1>3, <3>4
           DEF Receive, Handler, NullDereference, TakeMutex, SetEnable, SetJoin, SetJoined,
               SetFlag, IntervalRefused, SetInterval, ConfigTest, Relock, UnlockConfig,
               AfterPersist, SetCreate, Return, BusGoes, CallersOK
      <4>3. QED
        BY <1>0, <2>1, <2>2, <2>4, <3>1, <4>1, <4>2 DEF StopInv
    <3>5. QED
      BY <3>2, <3>3, <3>4
  <2>5. QED
    BY <2>3, <2>4
<1>4. CASE UNCHANGED vars
  BY <1>0, <1>4 DEF vars, busVars, StopInv
<1>5. CASE stolen'
  BY <1>5 DEF StopInv
<1>6. QED
  BY <1>1, <1>2, <1>3, <1>4, <1>5 DEF Next

LEMMA Invariance == Spec => []IInv
<1>1. IInv /\ [Next]_vars => IInv'
  BY TypeStep, PublishStep, ReleaseStep, OwnerStep, StopStep DEF IInv
<1>2. QED
  BY InitInv, <1>1, PTL DEF Spec

\* No handler that has returned still owns ctrl->mutex while g_controller is set,
\* whichever path it took and whatever the other threads did meanwhile.
THEOREM MutexReleased == Spec => []MutexReleasedOnReturn
<1>1. IInv => MutexReleasedOnReturn
  BY DEF IInv, ReleaseInv, MutexReleasedOnReturn
<1>2. QED
  BY <1>1, Invariance, PTL

\* As long as no handler has unlocked ctrl->mutex for its owner, no start withdraws
\* a request to stop for which somebody waits in pthread_join.
THEOREM RequestStands == Spec => []StopRequestStands
<1>1. IInv => StopRequestStands
  BY PollerAssumption DEF IInv, StopInv, StopRequestStands, Joining
<1>2. QED
  BY <1>1, Invariance, PTL

-----------------------------------------------------------------------------
(***************************************************************************)
(* A SET that reaches the second half of its setter waits for its own      *)
(* handler: what that means for the configuration and for the threads.     *)
(***************************************************************************)
LEMMA TheftIsRemembered ==
    ASSUME [Next]_vars, stolen
    PROVE  stolen'
<1>1. ASSUME NEW b \in Bus, Receive(b) \/ Handler(b) \/ NullDereference(b) PROVE stolen'
  BY <1>1 DEF Receive, Handler, NullDereference, TakeMutex, SetEnable, SetStop, SetJoin,
              SetJoined, SetFlag, IntervalRefused, SetInterval, ConfigTest, Relock,
              UnlockConfig, SetStart, SetCreate, Return, KeepsMutex, UnlockMutex
<1>2. QED
  BY <1>1, MainFrame, ThreadFrame DEF Next, vars, CallersStay

\* While ctrl->mutex has never been unlocked by a thread that did not own it, no SET
\* changes the configuration, and one that waits to store its value waits for good:
\* it leaves that point only in a NULL dereference, when the controller is destroyed.
SetIsStuck ==
    ~stolen =>
        /\ config_enabled' = config_enabled
        /\ \A b \in Bus : bpc[b] = "relock" =>
              bpc'[b] = "relock" \/ (bpc'[b] = "crashed" /\ ~g_controller)

\* eponMgr_stats_poller_set_enabled and _set_interval lock ctrl->mutex, which the
\* TR-181 handler holds around them: none ever gets the mutex and stores anything,
\* for any number of handlers, unless the mutex is unlocked for its owner.
THEOREM SetNeverStores == Spec => [][SetIsStuck]_vars
<1>1. ASSUME IInv, [Next]_vars, ~stolen PROVE SetIsStuck
  <2>0. CallersOK /\ OwnerInv
    BY <1>1, TypeParts DEF IInv
  <2>1. ASSUME NEW b \in Bus PROVE ~Relock(b)
    BY <1>1, <2>0, PollerAssumption DEF Relock, BusGoes, OwnerInv, Owning
  <2>2. CASE Main \/ ShutdownRequest
    BY <2>2, MainFrame
       DEF SetIsStuck, Main, Publish, RunLock, RunBegin, RunStart, RunCreate, LeaveLock,
           LeaveUnlock, ClearGlobal, RbusCleanup, DestroyStop, DestroyJoin, DestroyJoined,
           DestroyFree, ShutdownRequest, MainGoes, MainLock, MainUnlock
  <2>3. CASE \E t \in Thread : PollerThread(t)
    BY <2>3 DEF SetIsStuck, PollerThread, ThreadBegin, ThreadTop, ThreadCollect, ThreadSleep,
                ThreadTimeout, ThreadAfterWait, ThreadExit, ThreadGoes, busVars
  <2>4. ASSUME NEW b \in Bus, Receive(b) \/ Handler(b) \/ NullDereference(b) PROVE SetIsStuck
    <3>1. config_enabled' = config_enabled
      BY <2>1, <2>4
         DEF Receive, Handler, NullDereference, TakeMutex, SetEnable, SetStop, SetJoin,
             SetJoined, SetFlag, IntervalRefused, SetInterval, ConfigTest, UnlockConfig,
             SetStart, SetCreate, Return
    <3>2. bpc[b] = "relock" => bpc'[b] = "crashed" /\ ~g_controller
      BY <2>0, <2>1, <2>4
         DEF Receive, Handler, NullDereference, TakeMutex, SetEnable, SetStop, SetJoin,
             SetJoined, SetFlag, IntervalRefused, SetInterval, ConfigTest, UnlockConfig,
             SetStart, SetCreate, Return, BusGoes, CallersOK
    <3>3. \A c \in Bus \ {b} : bpc'[c] = bpc[c]
      BY <2>0, <2>4, BusFrame
    <3>4. QED
      BY <3>1, <3>2, <3>3 DEF SetIsStuck
  <2>5. CASE UNCHANGED vars
    BY <2>5 DEF SetIsStuck, vars, busVars
  <2>6. QED
    BY <1>1, <2>2, <2>3, <2>4, <2>5 DEF Next
<1>2. IInv /\ [Next]_vars => SetIsStuck
  BY <1>1 DEF SetIsStuck
<1>3. QED
  BY Invariance, <1>2, PTL DEF Spec

-----------------------------------------------------------------------------
(***************************************************************************)
(* The threads: which one a stop joins, and how far it is from its end.    *)
(***************************************************************************)
Caller == Bus \cup {"main"}
Stopping(c) == IF c = "main" THEN mpc = "stopping" ELSE bpc[c] = "stopping"

\* The poller is freed last.  It names a thread that was created as soon as there is
\* one, hence whenever it is running or a caller is about to join; a caller that
\* joins has a thread to wait for.
ThreadInv ==
    /\ poller.freed <=> mpc = "gone"
    /\ poller.thread # NoThread => tpc[poller.thread] # "none"
    /\ \A t \in Thread : tpc[t] # "none" => poller.thread # NoThread
    /\ poller.running => poller.thread # NoThread
    /\ \A c \in Caller : Stopping(c) => poller.thread # NoThread
    /\ \A c \in Caller : Joining(c) => joins[c] # NoThread /\ tpc[joins[c]] # "none"

\* A step of one thread leaves the others alone; the callers' steps only wake them.
LEMMA OthersOnlyWake ==
    ASSUME PollerOK, [Next]_vars, NEW t \in Thread, tpc[t] # "none", ~PollerThread(t)
    PROVE  tpc'[t] = tpc[t] \/ (tpc[t] = "sleep" /\ tpc'[t] = "woken")
<1>. USE DEF PollerOK
<1>1. ASSUME NEW u \in Thread, PollerThread(u) PROVE tpc'[t] = tpc[t]
  BY <1>1 DEF PollerThread, ThreadBegin, ThreadTop, ThreadCollect, ThreadSleep,
              ThreadTimeout, ThreadAfterWait, ThreadExit, ThreadGoes
<1>2. ASSUME CreateThread \/ CreateFails PROVE tpc'[t] = tpc[t]
  <2>1. CASE CreateFails
    BY <2>1 DEF CreateFails
  <2>2. CASE CreateThread
    <3>1. PICK u \in Thread : /\ \A v \in Thread : tpc[v] = "none" <=> v >= u
                             /\ tpc' = [tpc EXCEPT ![u] = "created"]
      BY <2>2 DEF CreateThread
    <3>2. tpc[u] = "none"
      BY <3>1 DEF Thread
    <3>3. QED
      BY <3>1, <3>2
  <2>3. QED
    BY <1>2, <2>1, <2>2
<1>3. ASSUME SignalThread \/ StopRunning \/ StopIdle
      PROVE  tpc'[t] = tpc[t] \/ (tpc[t] = "sleep" /\ tpc'[t] = "woken")
  BY <1>3 DEF SignalThread, StopRunning, StopIdle
<1>4. CASE Main \/ ShutdownRequest
  BY <1>2, <1>3, <1>4
     DEF Main, Publish, RunLock, RunBegin, RunStart, RunCreate, LeaveLock, LeaveUnlock,
         ClearGlobal, RbusCleanup, DestroyStop, DestroyJoin, DestroyJoined, DestroyFree,
         ShutdownRequest, MainLock, MainUnlock
<1>5. ASSUME NEW b \in Bus, Receive(b) \/ Handler(b) \/ NullDereference(b)
      PROVE  tpc'[t] = tpc[t] \/ (tpc[t] = "sleep" /\ tpc'[t] = "woken")
  BY <1>2, <1>3, <1>5
     DEF Receive, Handler, NullDereference, TakeMutex, SetEnable, SetStop, SetJoin, SetJoined,
         SetFlag, IntervalRefused, SetInterval, ConfigTest, Relock, UnlockConfig, SetStart,
         SetCreate, Return
<1>6. QED
  BY <1>1, <1>4, <1>5 DEF Next, vars

\* A thread once created is never forgotten, and only pthread_create gives the
\* poller another one.
LEMMA ThreadsGrow ==
    ASSUME PollerOK, [Next]_vars
    PROVE  /\ \A t \in Thread : tpc[t] # "none" => tpc'[t] # "none"
           /\ \/ /\ poller'.thread = poller.thread
                 /\ \A t \in Thread : tpc[t] = "none" => tpc'[t] = "none"
              \/ /\ RunCreate \/ \E b \in Bus : SetCreate(b)
                 /\ \E t \in Thread :
                       /\ poller'.thread = t /\ tpc'[t] # "none"
                       /\ \A u \in Thread \ {t} : tpc'[u] = tpc[u]
<1>. USE DEF PollerOK
<1>1. ASSUME NEW t \in Thread, tpc[t] # "none" PROVE tpc'[t] # "none"
  <2>1. CASE PollerThread(t)
    BY <2>1 DEF PollerThread, ThreadBegin, ThreadTop, ThreadCollect, ThreadSleep,
                ThreadTimeout, ThreadAfterWait, ThreadExit, ThreadGoes
  <2>2. QED
    BY <1>1, <2>1, OthersOnlyWake
<1>. DEFINE Same == /\ poller'.thread = poller.thread
                    /\ \A t \in Thread : tpc[t] = "none" => tpc'[t] = "none"
            Made == \E t \in Thread :
                       /\ poller'.thread = t /\ tpc'[t] # "none"
                       /\ \A u \in Thread \ {t} : tpc'[u] = tpc[u]
<1>2. CreateThread => Made
  BY DEF CreateThread
<1>3. CreateFails => Same
  BY DEF CreateFails
<1>4. SignalThread /\ poller'.thread = poller.thread => Same
  BY DEF SignalThread
<1>5. StopRunning \/ StopIdle => Same
  BY <1>4 DEF StopRunning, StopIdle
<1>6. ASSUME NEW t \in Thread, PollerThread(t) PROVE Same
  BY <1>6 DEF PollerThread, ThreadBegin, ThreadTop, ThreadCollect, ThreadSleep,
              ThreadTimeout, ThreadAfterWait, ThreadExit, ThreadGoes, ThreadAt
<1>7. ASSUME Main \/ ShutdownRequest PROVE Same \/ (RunCreate /\ Made)
  <2>1. CASE RunCreate
    BY <1>2, <1>3, <2>1 DEF RunCreate
  <2>2. CASE DestroyStop
    BY <1>5, <2>2 DEF DestroyStop
  <2>3. CASE RunStart \/ DestroyFree
    BY <2>3 DEF RunStart, StartAllowed, StartRefused, DestroyFree
  <2>4. CASE \/ Publish \/ RunLock \/ RunBegin \/ LeaveLock \/ LeaveUnlock
             \/ ClearGlobal \/ RbusCleanup \/ DestroyJoin \/ DestroyJoined
             \/ ShutdownRequest
    BY <2>4 DEF Publish, RunLock, RunBegin, LeaveLock, LeaveUnlock, ClearGlobal,
                RbusCleanup, DestroyJoin, DestroyJoined, ShutdownRequest, MainLock,
                MainUnlock
  <2>5. QED
    BY <1>7, <2>1, <2>2, <2>3, <2>4 DEF Main
<1>8. ASSUME NEW b \in Bus, Receive(b) \/ Handler(b) \/ NullDereference(b)
      PROVE  Same \/ (SetCreate(b) /\ Made)
  <2>1. CASE SetCreate(b)
    BY <1>2, <1>3, <2>1 DEF SetCreate
  <2>2. CASE SetStop(b)
    BY <1>5, <2>2 DEF SetStop
  <2>3. CASE SetInterval(b)
    BY <1>4, <2>3 DEF SetInterval
  <2>4. CASE \/ Receive(b) \/ NullDereference(b) \/ TakeMutex(b) \/ SetEnable(b) \/ SetJoin(b)
             \/ SetJoined(b) \/ SetFlag(b) \/ IntervalRefused(b) \/ ConfigTest(b)
             \/ Relock(b) \/ UnlockConfig(b) \/ SetStart(b) \/ Return(b)
    BY <2>4 DEF Receive, NullDereference, TakeMutex, SetEnable, SetJoin, SetJoined, SetFlag,
                IntervalRefused, ConfigTest, Relock, UnlockConfig, SetStart, StartAllowed,
                StartRefused, Return
  <2>5. QED
    BY <1>8, <2>1, <2>2, <2>3, <2>4 DEF Handler
<1>9. CASE UNCHANGED vars
  BY <1>1, <1>9 DEF vars
<1>10. QED
  BY <1>1, <1>6, <1>7, <1>8, <1>9 DEF Next

\* The poller runs because it did before or because its thread says so, and is freed
\* by the last step of the main thread.
LEMMA RunningFrame ==
    ASSUME PollerOK, [Next]_vars
    PROVE  /\ poller'.running => poller.running \/ \E t \in Thread : tpc[t] # "none"
           /\ poller'.freed <=> poller.freed \/ DestroyFree
<1>. USE DEF PollerOK
<1>1. ASSUME NEW t \in Thread, PollerThread(t)
      PROVE  tpc[t] # "none" /\ poller'.freed = poller.freed /\ ~DestroyFree
  BY <1>1 DEF PollerThread, ThreadBegin, ThreadTop, ThreadCollect, ThreadSleep,
              ThreadTimeout, ThreadAfterWait, ThreadExit, ThreadGoes, ThreadAt,
              DestroyFree, MainGoes
<1>2. CASE Main \/ ShutdownRequest
  <2>1. CASE RunStart \/ RunCreate \/ DestroyStop
    BY <2>1 DEF RunStart, StartAllowed, StartRefused, RunCreate, CreateThread, CreateFails,
                DestroyStop, StopRunning, StopIdle, DestroyFree, MainGoes
  <2>2. CASE DestroyFree
    BY <2>2 DEF DestroyFree
  <2>3. CASE \/ Publish \/ RunLock \/ RunBegin \/ LeaveLock \/ LeaveUnlock \/ ClearGlobal
             \/ RbusCleanup \/ DestroyJoin \/ DestroyJoined \/ ShutdownRequest
    BY <2>3 DEF Publish, RunLock, RunBegin, LeaveLock, LeaveUnlock, ClearGlobal, RbusCleanup,
                DestroyJoin, DestroyJoined, ShutdownRequest, MainLock, MainUnlock,
                DestroyFree, MainGoes
  <2>4. QED
    BY <1>2, <2>1, <2>2, <2>3 DEF Main
<1>3. ASSUME NEW b \in Bus, Receive(b) \/ Handler(b) \/ NullDereference(b)
      PROVE  poller'.running = poller.running /\ poller'.freed = poller.freed
  BY <1>3 DEF Receive, Handler, NullDereference, TakeMutex, SetEnable, SetStop, StopRunning,
              StopIdle, SetJoin, SetJoined, SetFlag, IntervalRefused, SetInterval,
              ConfigTest, Relock, UnlockConfig, SetStart, StartAllowed, StartRefused,
              SetCreate, CreateThread, CreateFails, Return
<1>4. ASSUME NEW b \in Bus, Receive(b) \/ Handler(b) \/ NullDereference(b)
      PROVE  ~DestroyFree
  <2>1. mpc' = mpc
    BY <1>4 DEF Receive, Handler, NullDereference, TakeMutex, SetEnable, SetStop, SetJoin,
                SetJoined, SetFlag, IntervalRefused, SetInterval, ConfigTest, Relock,
                UnlockConfig, SetStart, SetCreate, Return, BusGoes
  <2>2. QED
    BY <2>1 DEF DestroyFree, MainGoes
<1>5. CASE UNCHANGED vars
  BY <1>5 DEF vars, DestroyFree, MainGoes
<1>6. QED
  BY <1>1, <1>2, <1>3, <1>4, <1>5 DEF Next

\* A caller gets to pthread_join by way of StopRunning, and joins the poller's thread.
LEMMA JoinFrame ==
    ASSUME CallersOK, [Next]_vars, NEW c \in Caller
    PROVE  /\ Stopping(c)' => Stopping(c) \/ poller.running
           /\ Joining(c)' => \/ Joining(c) /\ joins'[c] = joins[c]
                             \/ Stopping(c) /\ joins'[c] = poller.thread
<1>. USE PollerAssumption DEF CallersOK, Stopping, Joining, Caller
<1>1. CASE \E t \in Thread : PollerThread(t)
  BY <1>1 DEF PollerThread, ThreadBegin, ThreadTop, ThreadCollect, ThreadSleep,
              ThreadTimeout, ThreadAfterWait, ThreadExit, ThreadGoes, busVars
<1>2. CASE Main \/ ShutdownRequest
  <2>0. bpc' = bpc
    BY <1>2, MainFrame
  <2>1. CASE DestroyStop
    BY <2>0, <2>1 DEF DestroyStop, StopRunning, StopIdle, MainGoes
  <2>2. CASE DestroyJoin
    BY <2>0, <2>2 DEF DestroyJoin, JoinBegin, MainGoes
  <2>3. CASE DestroyJoined \/ DestroyFree
    BY <2>0, <2>3 DEF DestroyJoined, DestroyFree, MainGoes
  <2>4. CASE \/ Publish \/ RunLock \/ RunBegin \/ RunStart \/ RunCreate \/ LeaveLock
             \/ LeaveUnlock \/ ClearGlobal \/ RbusCleanup \/ ShutdownRequest
    BY <2>0, <2>4
       DEF Publish, RunLock, RunBegin, RunStart, RunCreate, LeaveLock, LeaveUnlock,
           ClearGlobal, RbusCleanup, ShutdownRequest, MainLock, MainUnlock, MainGoes
  <2>5. QED
    BY <1>2, <2>1, <2>2, <2>3, <2>4 DEF Main
<1>3. ASSUME NEW b \in Bus, Receive(b) \/ Handler(b) \/ NullDereference(b)
      PROVE  /\ Stopping(c)' => Stopping(c) \/ poller.running
             /\ Joining(c)' => \/ Joining(c) /\ joins'[c] = joins[c]
                               \/ Stopping(c) /\ joins'[c] = poller.thread
  <2>0. mpc' = mpc /\ \A d \in Bus \ {b} : bpc'[d] = bpc[d]
    BY <1>3, BusFrame
  <2>1. CASE SetStop(b)
    BY <2>0, <2>1 DEF SetStop, StopRunning, StopIdle, BusGoes
  <2>2. CASE SetJoin(b)
    BY <2>0, <2>2 DEF SetJoin, JoinBegin, BusGoes
  <2>3. CASE \/ Receive(b) \/ NullDereference(b) \/ TakeMutex(b) \/ SetEnable(b)
             \/ SetJoined(b) \/ SetFlag(b) \/ IntervalRefused(b) \/ SetInterval(b)
             \/ ConfigTest(b) \/ Relock(b) \/ UnlockConfig(b) \/ SetStart(b)
             \/ SetCreate(b) \/ Return(b)
    <3>1. joins' = joins /\ bpc'[b] \notin {"stopping", "join"}
      BY <2>3 DEF Receive, NullDereference, TakeMutex, SetEnable, SetJoined, SetFlag,
                  IntervalRefused, SetInterval, ConfigTest, Relock, UnlockConfig,
                  AfterPersist, SetStart, SetCreate, Return, BusGoes
    <3>2. QED
      BY <2>0, <3>1
  <2>4. QED
    BY <1>3, <2>1, <2>2, <2>3 DEF Handler
<1>4. CASE UNCHANGED vars
  BY <1>4 DEF vars, busVars
<1>5. QED
  BY <1>1, <1>2, <1>3, <1>4 DEF Next

LEMMA GoneFrame ==
    ASSUME [Next]_vars
    PROVE  mpc' = "gone" <=> mpc = "gone" \/ DestroyFree
<1>1. ASSUME NEW b \in Bus, Receive(b) \/ Handler(b) \/ NullDereference(b)
      PROVE  mpc' = mpc
  BY <1>1 DEF Receive, Handler, NullDereference, TakeMutex, SetEnable, SetStop, SetJoin,
              SetJoined, SetFlag, IntervalRefused, SetInterval, ConfigTest, Relock,
              UnlockConfig, SetStart, SetCreate, Return, BusGoes
<1>2. CASE Main \/ ShutdownRequest
  BY <1>2 DEF Main, Publish, RunLock, RunBegin, RunStart, RunCreate, LeaveLock, LeaveUnlock,
              ClearGlobal, RbusCleanup, DestroyStop, DestroyJoin, DestroyJoined, DestroyFree,
              ShutdownRequest, MainLock, MainUnlock, MainGoes
<1>3. CASE mpc' = mpc
  BY <1>3 DEF DestroyFree, MainGoes
<1>4. QED
  BY <1>1, <1>2, <1>3, ThreadFrame DEF Next, vars, CallersStay

LEMMA ThreadInvStep ==
    ASSUME TypeOK, ThreadInv, [Next]_vars
    PROVE  ThreadInv'
<1>0. PollerOK /\ CallersOK /\ PollerOK' /\ CallersOK'
  BY TypeParts, PollerStep, CallersStep
<1>1. poller'.freed <=> mpc' = "gone"
  BY <1>0, RunningFrame, GoneFrame DEF ThreadInv
<1>2. /\ \A t \in Thread : tpc[t] # "none" => tpc'[t] # "none"
      /\ poller.thread # NoThread => poller'.thread # NoThread
  BY <1>0, ThreadsGrow, PollerAssumption DEF NoThread, Thread
<1>3. poller'.thread # NoThread => tpc'[poller'.thread] # "none"
  BY <1>0, <1>2, ThreadsGrow, PollerAssumption DEF ThreadInv, PollerOK, NoThread, Thread
<1>4. \A t \in Thread : tpc'[t] # "none" => poller'.thread # NoThread
  BY <1>0, ThreadsGrow, PollerAssumption DEF ThreadInv, NoThread, Thread
<1>5. poller'.running => poller'.thread # NoThread
  BY <1>0, <1>2, RunningFrame DEF ThreadInv
<1>6. \A c \in Caller : Stopping(c)' => poller'.thread # NoThread
  BY <1>0, <1>2, JoinFrame DEF ThreadInv
<1>7. ASSUME NEW c \in Caller, Joining(c)'
      PROVE  joins'[c] # NoThread /\ tpc'[joins'[c]] # "none"
  <2>1. joins[c] \in 0 .. MaxThreads /\ poller.thread \in 0 .. MaxThreads
    BY <1>0 DEF CallersOK, PollerOK, Caller
  <2>2. joins'[c] # NoThread /\ tpc[joins'[c]] # "none"
    BY <1>0, <1>7, JoinFrame DEF ThreadInv
  <2>3. joins'[c] \in Thread
    BY <1>0, <2>2, PollerAssumption DEF CallersOK, Caller, NoThread, Thread
  <2>4. QED
    BY <1>2, <2>2, <2>3
<1>8. QED
  BY <1>1, <1>3, <1>4, <1>5, <1>6, <1>7 DEF ThreadInv, Stopping, Joining, Caller

LEMMA ThreadInvariance == Spec => []ThreadInv
<1>1. Init => ThreadInv
  BY PollerAssumption
     DEF Init, ThreadInv, Stopping, Joining, Caller, NoThread, Thread
<1>2. TypeOK /\ ThreadInv /\ [Next]_vars => ThreadInv'
  BY ThreadInvStep
<1>3. QED
  BY <1>1, <1>2, TypeCorrect, PTL DEF Spec

\* pthread_join is called on a thread that was created, and while a caller waits in
\* it the poller is not freed under that thread.
JoinsAThread ==
    \A c \in Caller : Joining(c) =>
        /\ joins[c] \in Thread /\ tpc[joins[c]] # "none"
        /\ ~poller.freed

\* eponMgr_stats_poller_stop tests running, not whether a thread was created, and
\* joins without the mutex; it never joins a thread that was not there, however
\* starts, stops and the destruction interleave and whoever stole the mutex.
THEOREM JoinIsSafe == Spec => []JoinsAThread
<1>1. ASSUME IInv, ThreadInv PROVE JoinsAThread
  <2>. SUFFICES ASSUME NEW c \in Caller, Joining(c)
                PROVE  /\ joins[c] \in Thread /\ tpc[joins[c]] # "none"
                       /\ ~poller.freed
    BY DEF JoinsAThread
  <2>1. joins[c] \in Thread /\ tpc[joins[c]] # "none"
    BY <1>1, PollerAssumption DEF IInv, TypeOK, ThreadInv, Caller, NoThread, Thread
  <2>2. mpc # "gone"
    BY <1>1, PollerAssumption DEF IInv, PublishInv, Closed, Joining, Caller
  <2>3. QED
    BY <1>1, <2>1, <2>2 DEF ThreadInv
<1>2. IInv /\ ThreadInv => JoinsAThread
  BY <1>1
<1>3. QED
  BY Invariance, ThreadInvariance, <1>2, PTL

\* How many steps a thread that is asked to stop has left.
StepsToEnd(t) ==
    CASE tpc[t] = "created" -> 7
      [] tpc[t] = "top"     -> 6
      [] tpc[t] = "collect" -> 5
      [] tpc[t] = "rearm"   -> 4
      [] tpc[t] = "sleep"   -> 3
      [] tpc[t] = "woken"   -> 2
      [] tpc[t] = "exit"    -> 1
      [] OTHER              -> 0

LEMMA AskedThreadEnds ==
    ASSUME PollerOK, [Next]_vars, NEW t \in Thread, tpc[t] # "none", poller.shutdown
    PROVE  /\ StepsToEnd(t)' <= StepsToEnd(t)
           /\ PollerThread(t) => StepsToEnd(t)' < StepsToEnd(t)
<1>1. CASE PollerThread(t)
  BY <1>1 DEF PollerOK, StepsToEnd, PollerThread, ThreadBegin, ThreadTop, ThreadCollect,
              ThreadSleep, ThreadTimeout, ThreadAfterWait, ThreadExit, ThreadGoes, ThreadAt
<1>2. CASE ~PollerThread(t)
  <2>1. tpc'[t] = tpc[t] \/ (tpc[t] = "sleep" /\ tpc'[t] = "woken")
    BY <1>2, OthersOnlyWake
  <2>2. QED
    BY <1>2, <2>1 DEF StepsToEnd
<1>3. QED
  BY <1>1, <1>2

\* While a caller waits in pthread_join it waits for the same thread, each step of
\* which brings its end nearer; no step of anybody puts that end off, not another
\* SET of Enable either.
JoinShortens ==
    \A c \in Caller, t \in Thread : Joining(c) /\ joins[c] = t /\ ~stolen =>
        /\ StepsToEnd(t)' <= StepsToEnd(t)
        /\ PollerThread(t) => StepsToEnd(t)' < StepsToEnd(t)
        /\ Joining(c)' => joins'[c] = t

\* The safety half of JoinReturns: the thread joined ends after at most seven steps
\* of its own, one collection among them, as long as ctrl->mutex was not stolen.
THEOREM JoinEndsSoon == Spec => [][JoinShortens]_vars
<1>1. ASSUME IInv, ThreadInv, [Next]_vars PROVE JoinShortens
  <2>. SUFFICES ASSUME NEW c \in Caller, NEW t \in Thread, Joining(c), joins[c] = t, ~stolen
                PROVE  /\ StepsToEnd(t)' <= StepsToEnd(t)
                       /\ PollerThread(t) => StepsToEnd(t)' < StepsToEnd(t)
                       /\ Joining(c)' => joins'[c] = t
    BY DEF JoinShortens
  <2>1. PollerOK /\ CallersOK
    BY <1>1, TypeParts DEF IInv
  <2>2. tpc[t] # "none"
    BY <1>1 DEF ThreadInv
  <2>3. poller.shutdown
    BY <1>1, PollerAssumption DEF IInv, StopInv, Joining, Caller
  <2>4. ~Stopping(c)
    BY DEF Joining, Stopping
  <2>5. Joining(c)' => joins'[c] = t
    BY <1>1, <2>1, <2>4, JoinFrame
  <2>6. QED
    BY <1>1, <2>1, <2>2, <2>3, <2>5, AskedThreadEnds
<1>2. IInv /\ ThreadInv /\ [Next]_vars => JoinShortens
  BY <1>1
<1>3. QED
  BY Invariance, ThreadInvariance, <1>2, PTL DEF Spec

\* While g_controller is set there is one poller thread at most, without a theft.
OneThreadWhileUp ==
    g_controller /\ ~stolen =>
        \A t, u \in Thread : tpc[t] # "none" /\ tpc[u] # "none" => t = u

\* eponMgr_stats_poller_start tests running before it creates a thread and leaves it
\* to that thread to set it; no second thread gets in between while g_controller is
\* set, because the main thread starts the poller once and no SET gets to its start.
THEOREM OnePollerThread == Spec => []OneThreadWhileUp
<1>1. Init => OneThreadWhileUp
  BY DEF Init, OneThreadWhileUp
<1>2. ASSUME IInv, OneThreadWhileUp, [Next]_vars, g_controller', ~stolen'
      PROVE  OneThreadWhileUp'
  <2>0. PollerOK /\ CallersOK /\ OwnerInv /\ StopInv /\ PublishInv /\ ~stolen
    BY <1>2, TypeParts, TheftIsRemembered DEF IInv
  <2>1. CASE g_controller
    <3>1. \A b \in Bus : ~SetCreate(b)
      BY <2>0, <2>1 DEF OwnerInv, SetCreate, BusGoes
    <3>2. CASE RunCreate
      <4>1. \A t \in Thread : tpc[t] = "none"
        BY <2>0, <3>2 DEF RunCreate, MainGoes, StopInv, Early
      <4>2. QED
        BY <1>2, <2>0, <4>1, ThreadsGrow DEF OneThreadWhileUp
    <3>3. CASE ~RunCreate
      <4>1. \A t \in Thread : tpc[t] = "none" => tpc'[t] = "none"
        BY <1>2, <2>0, <3>1, <3>3, ThreadsGrow
      <4>2. QED
        BY <1>2, <2>0, <2>1, <4>1 DEF OneThreadWhileUp
    <3>4. QED
      BY <3>2, <3>3
  <2>2. CASE ~g_controller
    <3>1. Publish
      <4>1. ASSUME NEW b \in Bus, Receive(b) \/ Handler(b) \/ NullDereference(b) PROVE FALSE
        BY <1>2, <2>0, <2>2, <4>1, BusFrame
      <4>2. CASE Main \/ ShutdownRequest
        BY <1>2, <2>2, <4>2
           DEF Main, Publish, RunLock, RunBegin, RunStart, RunCreate, LeaveLock, LeaveUnlock,
               ClearGlobal, RbusCleanup, DestroyStop, DestroyJoin, DestroyJoined, DestroyFree,
               ShutdownRequest, MainLock, MainUnlock
      <4>3. QED
        BY <1>2, <2>2, <4>1, <4>2, ThreadFrame DEF Next, vars, CallersStay
    <3>2. tpc' = tpc /\ mpc = "publish"
      BY <3>1 DEF Publish, MainGoes
    <3>3. \A t \in Thread : tpc[t] = "none"
      BY <2>0, <3>2 DEF StopInv, Early
    <3>4. QED
      BY <3>2, <3>3 DEF OneThreadWhileUp
  <2>3. QED
    BY <2>1, <2>2
<1>3. IInv /\ OneThreadWhileUp /\ [Next]_vars => OneThreadWhileUp'
  BY <1>2 DEF OneThreadWhileUp
<1>4. QED
  BY Invariance, <1>1, <1>3, PTL DEF Spec
=============================================================================
