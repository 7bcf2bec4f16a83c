------------------------- MODULE Controller_proofs -------------------------
(***************************************************************************)
(* Proofs about Controller, for any number of HAL threads, any capacity of *)
(* the queue and any size of a batch: an event is never at two places nor  *)
(* lost without a trace, the events of one thread stay in order from its   *)
(* callback to process_one_event, and the queue outlives every callback.   *)
(* An event is in one place before a step and in one place after it        *)
(* because each step moves at most one event, except that FreeQueue moves  *)
(* all that are queued.  From this follow the refinement of EventDelivery  *)
(* and that the queue is used as BoundedFifo allows; then what bounds the  *)
(* waits: how far an event and a request to shut down are from their turn. *)
(***************************************************************************)
EXTENDS Controller, SequenceTheorems, FiniteSetTheorems, TLAPS

Place == {"pushing", "queued", "handled"} \cup Loss

\* Event e is at place p.
At(p, e) ==
    CASE p = "pushing" -> hpc[e.src] = "push" /\ e.seq = raised[e.src]
      [] p = "queued"  -> InQueue(e)
      [] p = "handled" -> WasHandled(e)
      [] OTHER         -> e \in missed[p]

\* The places at which event e is.
Places(e) == {p \in Place : At(p, e)}

\* Sequences of events in which the events of one thread are in order, and two
\* sequences of which the first holds the older ones.
Ascending(s) ==
    \A i, j \in DOMAIN s : i < j /\ s[i].src = s[j].src => s[i].seq < s[j].seq
Precedes(s, r) ==
    \A i \in DOMAIN s, j \in DOMAIN r : s[i].src = r[j].src => s[i].seq < r[j].seq

-----------------------------------------------------------------------------
\* A pass of the loop goes on only while it has handled fewer than Batch events.
BatchInv == mpc = "batch" => batched < Batch

\* A callback that pushes has an event to push.
PushInv == \A t \in HalThread : hpc[t] = "push" => raised[t] > 0

\* Once epon_hal_deinit has returned no callback is under way any more, and what
\* eponMgr_queue_destroy lets go it lets go last.
TeardownInv ==
    /\ mpc \in {"free", "gone"} => \A t \in HalThread : hpc[t] = "idle"
    /\ mpc # "gone" => missed["freed"] = {}

\* What the HAL raised is at one place, what it did not raise yet is at none.
PlaceInv ==
    \A e \in Event : IF e.seq <= raised[e.src] THEN \E p \in Place : Places(e) = {p}
                     ELSE Places(e) = {}

\* Handled before queued, each in order.
OrderInv == Ascending(handled) /\ Ascending(queue) /\ Precedes(handled, queue)

IInv == TypeOK /\ BatchInv /\ PushInv /\ TeardownInv /\ PlaceInv /\ OrderInv

-----------------------------------------------------------------------------
LEMMA EventIs ==
    ASSUME NEW e \in Event
    PROVE  e.src \in HalThread /\ e.seq \in 1 .. MaxEvents /\ e = EventOf(e.src, e.seq)
  BY DEF Event, EventOf

LEMMA LatestIsEvent ==
    ASSUME TypeOK, PushInv, NEW t \in HalThread, hpc[t] = "push"
    PROVE  Latest(t) \in Event
  BY DEF TypeOK, PushInv, Latest, EventOf, Event

LEMMA TailOfQueue ==
    ASSUME TypeOK, queue # <<>>
    PROVE  /\ Head(queue) \in Event
           /\ Head(queue) = queue[1]
           /\ Tail(queue) \in Seq(Event)
           /\ Len(queue) \in Nat \ {0}
           /\ Len(Tail(queue)) = Len(queue) - 1
           /\ \A i \in 1 .. Len(queue) - 1 : Tail(queue)[i] = queue[i + 1]
<1>1. queue \in Seq(Event)
  BY DEF TypeOK
<1>2. QED
  BY <1>1, HeadTailProperties, EmptySeq

-----------------------------------------------------------------------------
(***************************************************************************)
(* The steps that touch neither an event nor a callback.                   *)
(***************************************************************************)
Still == UNCHANGED <<queue, handled, missed, hpc, raised>>

Quiet ==
    \/ HalInit \/ Publish \/ ResetFlags \/ RunLock \/ RunBegin
    \/ LoopTest \/ QueueDrained \/ BeginWait \/ WaitTimeout
    \/ LeaveLock \/ LeaveUnlock \/ ClearGlobal \/ RbusClose \/ HalDeinit
    \/ (\E w \in Interrupted : Deliver(w))
    \/ Handler \/ (\E b \in BusThread : Bus(b)) \/ NullDereference \/ UNCHANGED vars

LEMMA BusStaysOutside ==
    ASSUME NEW b \in BusThread, Bus(b)
    PROVE  UNCHANGED outsideBus
  BY DEF Bus, BusHandler, Receive, BusLock, BusSetConfig, BusRelock, BusUnlock

LEMMA StepKinds ==
    ASSUME [Next]_vars
    PROVE  \/ \E t \in HalThread : Raise(t) \/ CallbackPush(t) \/ CallbackSignal(t)
           \/ ProcessOne
           \/ FreeQueue
           \/ Quiet
  BY DEF Next, Hal, Main, Quiet

LEMMA QuietIsStill ==
    ASSUME Quiet
    PROVE  Still
<1>. USE DEF Still, halVars
<1>1. CASE \/ HalInit \/ Publish \/ ResetFlags \/ RunLock \/ RunBegin \/ LoopTest
           \/ QueueDrained \/ BeginWait
  BY <1>1 DEF HalInit, Publish, ResetFlags, RunLock, RunBegin, LoopTest, QueueDrained,
              BeginWait
<1>2. CASE \/ WaitTimeout \/ LeaveLock \/ LeaveUnlock \/ ClearGlobal \/ RbusClose \/ HalDeinit
  BY <1>2 DEF WaitTimeout, LeaveLock, LeaveUnlock, ClearGlobal, RbusClose, HalDeinit
<1>3. CASE \/ (\E w \in Interrupted : Deliver(w)) \/ Handler \/ NullDereference
           \/ UNCHANGED vars
  BY <1>3 DEF Deliver, Handler, ShutdownLock, ShutdownSet, ShutdownWake, NullDereference,
              vars
<1>4. CASE \E b \in BusThread : Bus(b)
  BY <1>4, BusStaysOutside DEF outsideBus
<1>5. QED
  BY <1>1, <1>2, <1>3, <1>4 DEF Quiet

\* The flags are Booleans.
FlagsOK ==
    /\ g_controller \in BOOLEAN /\ shutdown_requested \in BOOLEAN
    /\ crashed \in BOOLEAN

LEMMA InitInv == Init => IInv
<1>. SUFFICES ASSUME Init PROVE IInv
  OBVIOUS
<1>1. TypeOK
  <2>1. <<>> \in Seq(Event) /\ Len(<<>>) = 0
    BY EmptySeq
  <2>2. missed \in [Loss -> SUBSET Event] /\ hpc \in [HalThread -> {"idle", "push", "signal"}]
    BY DEF Init
  <2>3. raised \in [HalThread -> 0 .. MaxEvents]
    BY ControllerAssumption DEF Init
  <2>4. FlagsOK
    BY DEF Init, FlagsOK
  <2>5. mpc \in MainPoint /\ mutex = Nobody /\ bpc \in [BusThread -> BusPoint]
    BY DEF Init, MainPoint, BusPoint
  <2>6. batched \in 0 .. Batch
    BY ControllerAssumption DEF Init
  <2>7. spc \in {"idle", "lock", "set", "wake"} /\ sthread \in Interrupted
    BY DEF Init, Interrupted
  <2>8. queue \in Seq(Event) /\ Len(queue) <= Capacity /\ handled \in Seq(Event)
    BY <2>1, ControllerAssumption DEF Init
  <2>9. QED
    BY <2>2, <2>3, <2>4, <2>5, <2>6, <2>7, <2>8 DEF TypeOK, FlagsOK
<1>2. BatchInv /\ PushInv /\ TeardownInv
  BY DEF Init, BatchInv, PushInv, TeardownInv, Loss
<1>3. OrderInv
  BY DEF Init, OrderInv, Ascending, Precedes
<1>4. PlaceInv
  BY DEF Init, PlaceInv, Places, Place, Loss, At, InQueue, WasHandled, Event
<1>5. QED
  BY <1>1, <1>2, <1>3, <1>4 DEF IInv

(***************************************************************************)
(* Typing: the flags first, then everything else, the sequences, the sets  *)
(* and the callbacks where an action touches them.                         *)
(***************************************************************************)
LEMMA FlagsStep ==
    ASSUME FlagsOK, [Next]_vars
    PROVE  FlagsOK'
<1>. USE DEF FlagsOK
<1>1. CASE Quiet
  <2>. USE DEF signalVars
  <2>1. CASE \/ HalInit \/ Publish \/ ResetFlags \/ RunLock \/ RunBegin \/ LoopTest
             \/ QueueDrained \/ BeginWait
    BY <2>1 DEF HalInit, Publish, ResetFlags, RunLock, RunBegin, LoopTest, QueueDrained,
                BeginWait
  <2>2. CASE \/ WaitTimeout \/ LeaveLock \/ LeaveUnlock \/ ClearGlobal \/ RbusClose \/ HalDeinit
    BY <2>2 DEF WaitTimeout, LeaveLock, LeaveUnlock, ClearGlobal, RbusClose, HalDeinit
  <2>3. CASE \/ (\E w \in Interrupted : Deliver(w)) \/ Handler \/ NullDereference
             \/ UNCHANGED vars
    BY <2>3 DEF Deliver, Handler, ShutdownLock, ShutdownSet, ShutdownWake,
                NullDereference, vars
  <2>4. CASE \E b \in BusThread : Bus(b)
    BY <2>4, BusStaysOutside DEF outsideBus
  <2>5. QED
    BY <1>1, <2>1, <2>2, <2>3, <2>4 DEF Quiet
<1>2. QED
  BY <1>1, StepKinds DEF Raise, CallbackPush, CallbackSignal, ProcessOne, FreeQueue,
                         signalVars

\* The parts of the state whose type needs arithmetic or a case distinction.
Points ==
    /\ mpc \in MainPoint
    /\ mutex \in {Nobody, "main", "handler"} \cup BusThread
    /\ batched \in 0 .. Batch
    /\ spc \in {"idle", "lock", "set", "wake"}
    /\ sthread \in Interrupted
    /\ bpc \in [BusThread -> BusPoint]
    /\ BatchInv

LEMMA PointsStep ==
    ASSUME Points, [Next]_vars
    PROVE  Points'
<1>. USE ControllerAssumption DEF Points, BatchInv, MainPoint, Interrupted
<1>1. CASE Quiet
  <2>. USE DEF signalVars
  <2>1. CASE \/ HalInit \/ Publish \/ ResetFlags \/ RunLock \/ RunBegin \/ LoopTest
             \/ QueueDrained \/ BeginWait
    BY <2>1 DEF HalInit, Publish, ResetFlags, RunLock, RunBegin, LoopTest, QueueDrained,
                BeginWait
  <2>2. CASE \/ WaitTimeout \/ LeaveLock \/ LeaveUnlock \/ ClearGlobal \/ RbusClose \/ HalDeinit
    BY <2>2 DEF WaitTimeout, LeaveLock, LeaveUnlock, ClearGlobal, RbusClose, HalDeinit
  <2>3. CASE \/ (\E w \in Interrupted : Deliver(w)) \/ Handler \/ NullDereference
             \/ UNCHANGED vars
    BY <2>3 DEF Deliver, Handler, ShutdownLock, ShutdownSet, ShutdownWake, WakeMain,
                NullDereference, vars
  <2>4. ASSUME NEW b \in BusThread, Bus(b) PROVE Points'
    <3>1. mutex' \in {Nobody, "main", "handler"} \cup BusThread
      BY <2>4 DEF Bus, BusHandler, Receive, BusLock, BusSetConfig, BusRelock, BusUnlock
    <3>2. bpc' \in [BusThread -> BusPoint]
      BY <2>4 DEF Bus, BusHandler, Receive, BusLock, BusSetConfig, BusRelock, BusUnlock,
                  GoTo, BusPoint
    <3>3. QED
      BY <2>4, <3>1, <3>2, BusStaysOutside DEF outsideBus
  <2>5. QED
    BY <1>1, <2>1, <2>2, <2>3, <2>4 DEF Quiet
<1>2. CASE \E t \in HalThread : Raise(t) \/ CallbackPush(t) \/ CallbackSignal(t)
  BY <1>2 DEF Raise, CallbackPush, CallbackSignal, WakeMain, signalVars
<1>3. CASE ProcessOne \/ FreeQueue
  BY <1>3 DEF ProcessOne, FreeQueue, MainAt, signalVars
<1>4. QED
  BY <1>1, <1>2, <1>3, StepKinds

\* The queue, the callbacks and the histories.
Contents ==
    /\ queue \in Seq(Event) /\ Len(queue) <= Capacity
    /\ hpc \in [HalThread -> {"idle", "push", "signal"}]
    /\ raised \in [HalThread -> 0 .. MaxEvents]
    /\ handled \in Seq(Event)
    /\ missed \in [Loss -> SUBSET Event]
    /\ PushInv

LEMMA ContentsStep ==
    ASSUME Contents, [Next]_vars
    PROVE  Contents'
<1>. USE ControllerAssumption DEF Contents, PushInv
<1>1. ASSUME NEW t \in HalThread, Raise(t) PROVE Contents'
  <2>1. EventOf(t, raised[t] + 1) \in Event
    BY <1>1 DEF Raise, EventOf, Event
  <2>2. missed' \in [Loss -> SUBSET Event]
    BY <1>1, <2>1 DEF Raise, Loss
  <2>3. hpc' \in [HalThread -> {"idle", "push", "signal"}] /\ raised' \in [HalThread -> 0 .. MaxEvents]
    BY <1>1 DEF Raise
  <2>4. PushInv'
    BY <1>1 DEF Raise
  <2>5. QED
    BY <1>1, <2>2, <2>3, <2>4 DEF Raise
<1>2. ASSUME NEW t \in HalThread, CallbackPush(t) PROVE Contents'
  <2>1. Latest(t) \in Event
    BY <1>2 DEF CallbackPush, Latest, EventOf, Event
  <2>2. queue' \in Seq(Event) /\ Len(queue') <= Capacity
    <3>1. CASE Len(queue) < Capacity
      <4>1. queue' = Append(queue, Latest(t))
        BY <1>2, <3>1 DEF CallbackPush
      <4>2. queue' \in Seq(Event) /\ Len(queue') = Len(queue) + 1 /\ Len(queue) \in Nat
        BY <4>1, <2>1, AppendProperties, LenProperties
      <4>3. QED
        BY <3>1, <4>2
    <3>2. CASE ~(Len(queue) < Capacity)
      BY <1>2, <3>2 DEF CallbackPush
    <3>3. QED
      BY <3>1, <3>2
  <2>3. missed' \in [Loss -> SUBSET Event]
    BY <1>2, <2>1 DEF CallbackPush, Loss
  <2>4. hpc' \in [HalThread -> {"idle", "push", "signal"}] /\ PushInv'
    BY <1>2 DEF CallbackPush
  <2>5. QED
    BY <1>2, <2>2, <2>3, <2>4 DEF CallbackPush
<1>3. ASSUME NEW t \in HalThread, CallbackSignal(t) PROVE Contents'
  BY <1>3 DEF CallbackSignal
<1>4. CASE ProcessOne
  <2>1. /\ queue' \in Seq(Event) /\ Len(queue') = Len(queue) - 1
        /\ Len(queue) \in Nat /\ Head(queue) \in Event
    BY <1>4, HeadTailProperties, LenProperties DEF ProcessOne
  <2>2. handled' \in Seq(Event)
    BY <1>4, <2>1, AppendProperties DEF ProcessOne
  <2>3. QED
    BY <1>4, <2>1, <2>2 DEF ProcessOne, halVars
<1>5. CASE FreeQueue
  <2>1. {queue[i] : i \in DOMAIN queue} \subseteq Event
    BY LenProperties
  <2>2. missed' \in [Loss -> SUBSET Event]
    BY <1>5, <2>1 DEF FreeQueue, Loss
  <2>3. queue' \in Seq(Event) /\ Len(queue') = 0
    BY <1>5, EmptySeq DEF FreeQueue
  <2>4. QED
    BY <1>5, <2>2, <2>3 DEF FreeQueue, halVars
<1>6. CASE Quiet
  BY <1>6, QuietIsStill DEF Still
<1>7. QED
  BY <1>1, <1>2, <1>3, <1>4, <1>5, <1>6, StepKinds

LEMMA TypeStep ==
    ASSUME TypeOK, BatchInv, PushInv, [Next]_vars
    PROVE  TypeOK' /\ BatchInv' /\ PushInv'
<1>1. FlagsOK /\ Points /\ Contents
  BY DEF TypeOK, FlagsOK, Points, Contents
<1>2. FlagsOK' /\ Points' /\ Contents'
  BY <1>1, FlagsStep, PointsStep, ContentsStep
<1>3. QED
  BY <1>2 DEF TypeOK, FlagsOK, Points, Contents

\* The state of the controller, its queue and its callbacks stays within its types,
\* and the queue within its capacity, for any number of HAL threads.
THEOREM TypeCorrect == Spec => []TypeOK
<1>1. TypeOK /\ BatchInv /\ PushInv /\ [Next]_vars => TypeOK' /\ BatchInv' /\ PushInv'
  BY TypeStep
<1>2. Init => TypeOK /\ BatchInv /\ PushInv
  BY InitInv DEF IInv
<1>3. QED
  BY <1>1, <1>2, PTL DEF Spec

-----------------------------------------------------------------------------
(***************************************************************************)
(* Where a step moves an event.                                            *)
(***************************************************************************)
LEMMA PlacesAre ==
    ASSUME NEW e
    PROVE  /\ Places(e) \subseteq Place
           /\ "pushing" \in Places(e) <=> hpc[e.src] = "push" /\ e.seq = raised[e.src]
           /\ "queued" \in Places(e) <=> InQueue(e)
           /\ "handled" \in Places(e) <=> WasHandled(e)
           /\ \A l \in Loss : l \in Places(e) <=> e \in missed[l]
  BY DEF Places, Place, At, Loss

LEMMA PlacesWillBe ==
    ASSUME NEW e
    PROVE  /\ Places(e)' \subseteq Place
           /\ "pushing" \in Places(e)' <=> hpc'[e.src] = "push" /\ e.seq = raised'[e.src]
           /\ "queued" \in Places(e)' <=> InQueue(e)'
           /\ "handled" \in Places(e)' <=> WasHandled(e)'
           /\ \A l \in Loss : l \in Places(e)' <=> e \in missed'[l]
  BY DEF Places, Place, At, Loss

LEMMA RaiseMoves ==
    ASSUME Contents, NEW t \in HalThread, Raise(t), NEW e \in Event
    PROVE  Places(e)' = IF e = EventOf(t, raised[t] + 1)
                          THEN Places(e) \cup {IF g_controller THEN "pushing" ELSE "unpublished"}
                          ELSE Places(e)
<1>. DEFINE n == EventOf(t, raised[t] + 1)
<1>0. Places(e) \subseteq Place /\ Places(e)' \subseteq Place
  BY PlacesAre, PlacesWillBe
<1>1. (InQueue(e)' <=> InQueue(e)) /\ (WasHandled(e)' <=> WasHandled(e))
  BY DEF Raise, InQueue, WasHandled
<1>2. e \in Event /\ e.src \in HalThread /\ e.seq \in 1 .. MaxEvents /\ (e = n <=> e.src = t /\ e.seq = raised[t] + 1)
  BY EventIs DEF EventOf
<1>3. CASE g_controller
  <2>1. missed' = missed
    BY <1>3 DEF Raise
  <2>2. hpc'[e.src] = "push" /\ e.seq = raised'[e.src]
          <=> e = n \/ (hpc[e.src] = "push" /\ e.seq = raised[e.src])
    BY <1>2, <1>3 DEF Raise, Contents
  <2>3. \A p \in Place : p \in Places(e)' <=> p \in Places(e) \/ (e = n /\ p = "pushing")
    BY <1>1, <2>1, <2>2, PlacesAre, PlacesWillBe DEF Place
  <2>4. QED
    BY <1>3, <1>0, <2>3 DEF Place
<1>4. CASE ~g_controller
  <2>1. \A l \in Loss : e \in missed'[l] <=> e \in missed[l] \/ (e = n /\ l = "unpublished")
    BY <1>4 DEF Raise, Contents, Loss
  <2>2. hpc'[e.src] = "push" /\ e.seq = raised'[e.src]
          <=> hpc[e.src] = "push" /\ e.seq = raised[e.src]
    BY <1>2, <1>4 DEF Raise, Contents
  <2>3. \A p \in Place : p \in Places(e)' <=> p \in Places(e) \/ (e = n /\ p = "unpublished")
    BY <1>1, <2>1, <2>2, PlacesAre, PlacesWillBe DEF Place
  <2>4. QED
    BY <1>4, <1>0, <2>3 DEF Place, Loss
<1>5. QED
  BY <1>3, <1>4

LEMMA AppendRange ==
    ASSUME NEW s \in Seq(Event), NEW x \in Event, NEW e
    PROVE  (\E i \in DOMAIN Append(s, x) : Append(s, x)[i] = e)
             <=> (\E i \in DOMAIN s : s[i] = e) \/ e = x
<1>1. /\ DOMAIN s = 1 .. Len(s) /\ Len(s) \in Nat
      /\ DOMAIN Append(s, x) = 1 .. Len(s) + 1
  BY AppendProperties, LenProperties
<1>2. /\ \A i \in 1 .. Len(s) : Append(s, x)[i] = s[i]
      /\ Append(s, x)[Len(s) + 1] = x
  BY AppendProperties
<1>3. QED
  BY <1>1, <1>2

LEMMA TailRange ==
    ASSUME NEW s \in Seq(Event), s # <<>>, NEW e
    PROVE  (\E i \in DOMAIN s : s[i] = e)
             <=> (\E i \in DOMAIN Tail(s) : Tail(s)[i] = e) \/ e = Head(s)
<1>1. /\ DOMAIN s = 1 .. Len(s) /\ Len(s) \in Nat \ {0}
      /\ DOMAIN Tail(s) = 1 .. Len(s) - 1
  BY HeadTailProperties, LenProperties, EmptySeq
<1>2. /\ \A i \in 1 .. Len(s) - 1 : Tail(s)[i] = s[i + 1]
      /\ Head(s) = s[1]
  BY HeadTailProperties, LenProperties
<1>3. ASSUME NEW i \in DOMAIN s, s[i] = e
      PROVE  (\E j \in DOMAIN Tail(s) : Tail(s)[j] = e) \/ e = Head(s)
  <2>1. CASE i = 1
    BY <2>1, <1>2, <1>3
  <2>2. CASE i # 1
    <3>1. i - 1 \in DOMAIN Tail(s) /\ Tail(s)[i - 1] = e
      BY <2>2, <1>1, <1>2, <1>3
    <3>2. QED
      BY <3>1
  <2>3. QED
    BY <2>1, <2>2
<1>4. ASSUME NEW i \in DOMAIN Tail(s), Tail(s)[i] = e
      PROVE  \E j \in DOMAIN s : s[j] = e
  <2>1. i + 1 \in DOMAIN s /\ s[i + 1] = e
    BY <1>1, <1>2, <1>4
  <2>2. QED
    BY <2>1
<1>5. QED
  BY <1>1, <1>2, <1>3, <1>4

LEMMA PushMoves ==
    ASSUME Contents, NEW t \in HalThread, CallbackPush(t), NEW e \in Event
    PROVE  Places(e)' = IF e = Latest(t)
                          THEN (Places(e) \ {"pushing"})
                                 \cup {IF Len(queue) < Capacity THEN "queued" ELSE "full"}
                          ELSE Places(e)
<1>1. Places(e) \subseteq Place /\ Places(e)' \subseteq Place
  BY PlacesAre, PlacesWillBe
<1>2. WasHandled(e)' <=> WasHandled(e)
  BY DEF CallbackPush, WasHandled
<1>3. e = Latest(t) <=> e.src = t /\ e.seq = raised[t]
  BY EventIs DEF EventOf, Latest
<1>4. hpc'[e.src] = "push" /\ e.seq = raised'[e.src]
        <=> hpc[e.src] = "push" /\ e.seq = raised[e.src] /\ e # Latest(t)
  BY <1>3, EventIs DEF CallbackPush, Contents
<1>5. CASE Len(queue) < Capacity
  <2>1. queue \in Seq(Event) /\ Latest(t) \in Event /\ Len(queue) # Capacity
    BY <1>5, LenProperties, ControllerAssumption
       DEF Contents, PushInv, CallbackPush, Latest, EventOf, Event
  <2>2. InQueue(e)' <=> InQueue(e) \/ e = Latest(t)
    BY <2>1, AppendRange DEF CallbackPush, InQueue
  <2>3. missed' = missed
    BY <2>1 DEF CallbackPush
  <2>4. \A p \in Place : p \in Places(e)' <=> IF e = Latest(t) /\ p \in {"pushing", "queued"}
                                                THEN p = "queued" ELSE p \in Places(e)
    BY <1>2, <1>4, <2>2, <2>3, PlacesAre, PlacesWillBe DEF Place
  <2>5. QED
    BY <1>1, <1>5, <2>4 DEF Place
<1>6. CASE ~(Len(queue) < Capacity)
  <2>1. queue' = queue
    BY <1>6 DEF CallbackPush
  <2>2. \A l \in Loss : e \in missed'[l] <=> e \in missed[l] \/ (e = Latest(t) /\ l = "full")
    BY <1>6 DEF CallbackPush, Contents, Loss
  <2>3. \A p \in Place : p \in Places(e)' <=> IF e = Latest(t) /\ p \in {"pushing", "full"}
                                                THEN p = "full" ELSE p \in Places(e)
    BY <1>2, <1>4, <2>1, <2>2, PlacesAre, PlacesWillBe DEF Place, InQueue
  <2>4. QED
    BY <1>1, <1>6, <2>3 DEF Place, Loss
<1>7. QED
  BY <1>5, <1>6

LEMMA ProcessMoves ==
    ASSUME Contents, Ascending(queue), ProcessOne, NEW e \in Event
    PROVE  Places(e)' = IF e = Head(queue) THEN (Places(e) \ {"queued"}) \cup {"handled"}
                        ELSE Places(e)
<1>1. Places(e) \subseteq Place /\ Places(e)' \subseteq Place
  BY PlacesAre, PlacesWillBe
<1>2. /\ queue \in Seq(Event) /\ queue # <<>> /\ handled \in Seq(Event)
      /\ Head(queue) \in Event
  BY HeadTailProperties DEF Contents, ProcessOne
<1>3. InQueue(e)' <=> InQueue(e) /\ e # Head(queue)
  <2>1. e = Head(queue) => ~(\E i \in DOMAIN Tail(queue) : Tail(queue)[i] = e)
    <3>. SUFFICES ASSUME NEW i \in DOMAIN Tail(queue), Tail(queue)[i] = Head(queue)
                  PROVE  FALSE
      OBVIOUS
    <3>1. /\ DOMAIN queue = 1 .. Len(queue) /\ Len(queue) \in Nat \ {0}
          /\ DOMAIN Tail(queue) = 1 .. Len(queue) - 1
          /\ Tail(queue)[i] = queue[i + 1] /\ Head(queue) = queue[1]
      BY <1>2, HeadTailProperties, LenProperties, EmptySeq
    <3>2. 1 \in DOMAIN queue /\ i + 1 \in DOMAIN queue /\ 1 < i + 1 /\ queue[1] = queue[i + 1]
      BY <3>1
    <3>3. queue[1].seq < queue[i + 1].seq
      BY <3>2 DEF Ascending
    <3>4. queue[1].seq \in 1 .. MaxEvents
      BY <1>2, <3>1, EventIs
    <3>5. QED
      BY <3>2, <3>3, <3>4
  <2>2. QED
    BY <1>2, <2>1, TailRange DEF InQueue, ProcessOne
<1>4. WasHandled(e)' <=> WasHandled(e) \/ e = Head(queue)
  <2>1. (\E i \in DOMAIN Append(handled, Head(queue)) : Append(handled, Head(queue))[i] = e)
          <=> (\E i \in DOMAIN handled : handled[i] = e) \/ e = Head(queue)
    BY <1>2, AppendRange
  <2>2. handled' = Append(handled, Head(queue))
    BY DEF ProcessOne
  <2>3. QED
    BY <2>1, <2>2 DEF WasHandled
<1>5. \A p \in Place : p \in Places(e)' <=> IF e = Head(queue) /\ p \in {"queued", "handled"}
                                              THEN p = "handled" ELSE p \in Places(e)
  BY <1>3, <1>4, PlacesAre, PlacesWillBe DEF Place, ProcessOne, halVars
<1>6. QED
  BY <1>1, <1>5 DEF Place

LEMMA FreeMoves ==
    ASSUME Contents, TeardownInv, FreeQueue, NEW e \in Event
    PROVE  Places(e)' = IF "queued" \in Places(e)
                          THEN (Places(e) \ {"queued"}) \cup {"freed"} ELSE Places(e)
<1>1. Places(e) \subseteq Place /\ Places(e)' \subseteq Place
  BY PlacesAre, PlacesWillBe
<1>2. missed["freed"] = {}
  BY DEF FreeQueue, MainAt, TeardownInv
<1>3. \A l \in Loss : e \in missed'[l] <=> IF l = "freed" THEN InQueue(e) ELSE e \in missed[l]
  BY DEF FreeQueue, Contents, Loss, InQueue
<1>4. ~InQueue(e)'
  BY DEF FreeQueue, InQueue
<1>5. /\ "queued" \notin Places(e)'
      /\ "freed" \in Places(e)' <=> "queued" \in Places(e)
      /\ "freed" \notin Places(e)
  BY <1>2, <1>3, <1>4, PlacesAre, PlacesWillBe DEF Loss
<1>6. \A p \in Place \ {"queued", "freed"} : p \in Places(e)' <=> p \in Places(e)
  BY <1>3, PlacesAre, PlacesWillBe DEF Place, Loss, FreeQueue, halVars, WasHandled
<1>7. QED
  BY <1>1, <1>5, <1>6 DEF Place, Loss

LEMMA OthersMoveNothing ==
    ASSUME Contents, NEW e \in Event,
           Quiet \/ \E t \in HalThread : CallbackSignal(t)
    PROVE  Places(e)' = Places(e)
<1>1. Places(e) \subseteq Place /\ Places(e)' \subseteq Place
  BY PlacesAre, PlacesWillBe
<1>2. UNCHANGED <<queue, handled, missed, raised>>
  BY QuietIsStill DEF Still, CallbackSignal
<1>3. hpc'[e.src] = "push" <=> hpc[e.src] = "push"
  BY EventIs, QuietIsStill DEF Still, CallbackSignal, Contents
<1>4. \A p \in Place : p \in Places(e)' <=> p \in Places(e)
  BY <1>2, <1>3, PlacesAre, PlacesWillBe DEF Place, InQueue, WasHandled
<1>5. QED
  BY <1>1, <1>4

-----------------------------------------------------------------------------
(***************************************************************************)
(* The parts of the invariant, one by one.                                 *)
(***************************************************************************)
LEMMA TeardownStep ==
    ASSUME TypeOK, TeardownInv, [Next]_vars
    PROVE  TeardownInv'
<1>. USE DEF TypeOK, TeardownInv, Loss
<1>1. CASE Quiet
  <2>. USE DEF halVars, signalVars
  <2>1. CASE \/ HalInit \/ Publish \/ ResetFlags \/ RunLock \/ RunBegin \/ LoopTest
             \/ QueueDrained \/ BeginWait
    BY <2>1 DEF HalInit, Publish, ResetFlags, RunLock, RunBegin, LoopTest, QueueDrained,
                BeginWait, MainAt
  <2>2. CASE \/ WaitTimeout \/ LeaveLock \/ LeaveUnlock \/ ClearGlobal \/ RbusClose \/ HalDeinit
    BY <2>2 DEF WaitTimeout, LeaveLock, LeaveUnlock, ClearGlobal, RbusClose, HalDeinit, MainAt
  <2>3. CASE \/ (\E w \in Interrupted : Deliver(w)) \/ Handler \/ NullDereference
             \/ UNCHANGED vars
    BY <2>3 DEF Deliver, Handler, ShutdownLock, ShutdownSet, ShutdownWake, WakeMain,
                NullDereference, vars
  <2>4. CASE \E b \in BusThread : Bus(b)
    BY <2>4, BusStaysOutside DEF outsideBus
  <2>5. QED
    BY <1>1, <2>1, <2>2, <2>3, <2>4 DEF Quiet
<1>2. ASSUME NEW t \in HalThread, Raise(t) PROVE TeardownInv'
  <2>1. missed'["freed"] = missed["freed"] /\ mpc' = mpc /\ mpc \notin {"free", "gone"}
    BY <1>2 DEF Raise, HalRunning
  <2>2. QED
    BY <2>1
<1>3. ASSUME NEW t \in HalThread, CallbackPush(t) PROVE TeardownInv'
  <2>1. missed'["freed"] = missed["freed"] /\ mpc' = mpc /\ mpc \notin {"free", "gone"}
    BY <1>3 DEF CallbackPush
  <2>2. QED
    BY <2>1
<1>4. ASSUME NEW t \in HalThread, CallbackSignal(t) PROVE TeardownInv'
  <2>1. missed' = missed /\ mpc' \notin {"free", "gone"} /\ mpc \notin {"free", "gone"}
    BY <1>4 DEF CallbackSignal, WakeMain
  <2>2. QED
    BY <2>1
<1>5. CASE ProcessOne
  BY <1>5 DEF ProcessOne, MainAt, halVars
<1>6. CASE FreeQueue
  BY <1>6 DEF FreeQueue, MainAt, halVars
<1>7. QED
  BY <1>1, <1>2, <1>3, <1>4, <1>5, <1>6, StepKinds

LEMMA PlaceStep ==
    ASSUME IInv, [Next]_vars
    PROVE  PlaceInv'
<1>. SUFFICES ASSUME NEW e \in Event
              PROVE  IF e.seq <= raised'[e.src] THEN \E p \in Place : Places(e)' = {p}
                     ELSE Places(e)' = {}
  BY DEF PlaceInv, Event
<1>1. /\ Contents /\ Ascending(queue) /\ TeardownInv
      /\ IF e.seq <= raised[e.src] THEN \E p \in Place : Places(e) = {p} ELSE Places(e) = {}
      /\ e.src \in HalThread /\ e.seq \in 1 .. MaxEvents
  BY EventIs DEF IInv, TypeOK, Contents, OrderInv, PlaceInv
<1>2. ASSUME NEW t \in HalThread, Raise(t)
      PROVE  IF e.seq <= raised'[e.src] THEN \E p \in Place : Places(e)' = {p}
             ELSE Places(e)' = {}
  <2>1. CASE e = EventOf(t, raised[t] + 1)
    <3>1. e.src = t /\ e.seq = raised[t] + 1 /\ raised'[t] = raised[t] + 1 /\ raised[t] \in Nat
      BY <1>1, <1>2, <2>1 DEF EventOf, Raise, Contents
    <3>2. Places(e) = {}
      BY <1>1, <3>1
    <3>3. PICK p \in {"pushing", "unpublished"} : Places(e)' = Places(e) \cup {p}
      BY <1>1, <1>2, <2>1, RaiseMoves
    <3>4. Places(e)' = {p} /\ p \in Place
      BY <3>2, <3>3 DEF Place, Loss
    <3>5. QED
      BY <3>1, <3>4
  <2>2. CASE e # EventOf(t, raised[t] + 1)
    <3>1. Places(e)' = Places(e)
      BY <1>1, <1>2, <2>2, RaiseMoves
    <3>2. e.seq <= raised'[e.src] <=> e.seq <= raised[e.src]
      BY <1>1, <1>2, <2>2, EventIs DEF Raise, EventOf, Contents
    <3>3. QED
      BY <1>1, <3>1, <3>2
  <2>3. QED
    BY <2>1, <2>2
<1>3. ASSUME NEW t \in HalThread, CallbackPush(t)
      PROVE  IF e.seq <= raised'[e.src] THEN \E p \in Place : Places(e)' = {p}
             ELSE Places(e)' = {}
  <2>1. raised' = raised
    BY <1>3 DEF CallbackPush
  <2>2. CASE e = Latest(t)
    <3>1. "pushing" \in Places(e) /\ e.seq <= raised[e.src]
      BY <1>1, <1>3, <2>2, PlacesAre DEF CallbackPush, Latest, EventOf, Contents
    <3>2. Places(e) = {"pushing"}
      BY <1>1, <3>1
    <3>3. PICK p \in {"queued", "full"} : Places(e)' = (Places(e) \ {"pushing"}) \cup {p}
      BY <1>1, <1>3, <2>2, PushMoves
    <3>4. Places(e)' = {p} /\ p \in Place
      BY <3>2, <3>3 DEF Place, Loss
    <3>5. QED
      BY <2>1, <3>1, <3>4
  <2>3. CASE e # Latest(t)
    BY <1>1, <1>3, <2>1, <2>3, PushMoves
  <2>4. QED
    BY <2>2, <2>3
<1>4. CASE ProcessOne
  <2>1. raised' = raised
    BY <1>4 DEF ProcessOne, halVars
  <2>2. CASE e = Head(queue)
    <3>1. InQueue(e)
      BY <1>1, <1>4, <2>2, TailRange DEF ProcessOne, Contents, InQueue
    <3>2. Places(e) = {"queued"} /\ e.seq <= raised[e.src]
      BY <1>1, <3>1, PlacesAre
    <3>3. Places(e)' = {"handled"}
      BY <1>1, <1>4, <2>2, <3>2, ProcessMoves
    <3>4. QED
      BY <2>1, <3>2, <3>3 DEF Place
  <2>3. CASE e # Head(queue)
    BY <1>1, <1>4, <2>1, <2>3, ProcessMoves
  <2>4. QED
    BY <2>2, <2>3
<1>5. CASE FreeQueue
  <2>1. raised' = raised
    BY <1>5 DEF FreeQueue, halVars
  <2>2. CASE "queued" \in Places(e)
    <3>1. Places(e) = {"queued"} /\ e.seq <= raised[e.src]
      BY <1>1, <2>2
    <3>2. Places(e)' = {"freed"}
      BY <1>1, <1>5, <2>2, <3>1, FreeMoves
    <3>3. QED
      BY <2>1, <3>1, <3>2 DEF Place, Loss
  <2>3. CASE "queued" \notin Places(e)
    BY <1>1, <1>5, <2>1, <2>3, FreeMoves
  <2>4. QED
    BY <2>2, <2>3
<1>6. CASE Quiet \/ \E t \in HalThread : CallbackSignal(t)
  BY <1>1, <1>6, OthersMoveNothing, QuietIsStill DEF Still, CallbackSignal
<1>7. QED
  BY <1>2, <1>3, <1>4, <1>5, <1>6, StepKinds

\* The events of a thread that are queued or handled while it pushes another one
\* are older than that one.
LEMMA PushedIsLatest ==
    ASSUME IInv, NEW t \in HalThread, hpc[t] = "push",
           NEW e \in Event, e.src = t, InQueue(e) \/ WasHandled(e)
    PROVE  e.seq < Latest(t).seq
<1>1. Latest(t) \in Event /\ Latest(t).src = t /\ Latest(t).seq = raised[t]
  BY LatestIsEvent DEF IInv, Latest, EventOf
<1>2. "pushing" \in Places(Latest(t))
  BY <1>1, PlacesAre
<1>3. "queued" \in Places(e) \/ "handled" \in Places(e)
  BY PlacesAre
<1>4. e # Latest(t)
  <2>1. \E p \in Place : Places(Latest(t)) = {p}
    BY <1>1, <1>2 DEF IInv, PlaceInv
  <2>2. Places(Latest(t)) = {"pushing"}
    BY <1>2, <2>1
  <2>3. QED
    BY <1>3, <2>2
<1>5. e.seq <= raised[t]
  BY <1>3 DEF IInv, PlaceInv
<1>6. e.seq # raised[t]
  BY <1>1, <1>4, EventIs
<1>7. e.seq \in Int /\ raised[t] \in Int
  BY EventIs DEF IInv, TypeOK
<1>8. QED
  BY <1>1, <1>5, <1>6, <1>7

LEMMA OrderStep ==
    ASSUME IInv, [Next]_vars
    PROVE  OrderInv'
<1>1. /\ queue \in Seq(Event) /\ handled \in Seq(Event)
      /\ Ascending(handled) /\ Ascending(queue) /\ Precedes(handled, queue)
  BY DEF IInv, TypeOK, OrderInv
<1>2. /\ DOMAIN queue = 1 .. Len(queue) /\ Len(queue) \in Nat
      /\ DOMAIN handled = 1 .. Len(handled) /\ Len(handled) \in Nat
      /\ \A i \in DOMAIN queue : queue[i] \in Event /\ queue[i].seq \in Nat
      /\ \A i \in DOMAIN handled : handled[i] \in Event /\ handled[i].seq \in Nat
  BY <1>1, LenProperties, EventIs
<1>3. CASE UNCHANGED <<queue, handled>>
  BY <1>1, <1>3 DEF OrderInv, Ascending, Precedes
<1>4. ASSUME NEW t \in HalThread, CallbackPush(t), Len(queue) < Capacity PROVE OrderInv'
  <2>. DEFINE e == Latest(t)
  <2>1. e \in Event /\ e.src = t /\ hpc[t] = "push" /\ e.seq \in Nat
    BY <1>4, LatestIsEvent, EventIs DEF IInv, CallbackPush, Latest, EventOf
  <2>2. queue' = Append(queue, e) /\ handled' = handled
    <3>1. Len(queue) # Capacity
      BY <1>2, <1>4
    <3>2. QED
      BY <1>4, <3>1 DEF CallbackPush
  <2>3. /\ DOMAIN queue' = 1 .. Len(queue) + 1
        /\ \A i \in DOMAIN queue : queue'[i] = queue[i]
        /\ queue'[Len(queue) + 1] = e
    BY <1>1, <1>2, <2>1, <2>2, AppendProperties, LenProperties
  <2>4. \A i \in DOMAIN queue : queue[i].src = t => queue[i].seq < e.seq
    BY <1>2, <2>1, PushedIsLatest DEF InQueue
  <2>5. \A i \in DOMAIN handled : handled[i].src = t => handled[i].seq < e.seq
    BY <1>2, <2>1, PushedIsLatest DEF WasHandled
  <2>. HIDE DEF e
  <2>6. Ascending(queue)'
    BY <1>1, <1>2, <2>1, <2>3, <2>4 DEF Ascending
  <2>7. Precedes(handled, queue)'
    BY <1>1, <1>2, <2>1, <2>2, <2>3, <2>5 DEF Precedes
  <2>8. QED
    BY <1>1, <2>2, <2>6, <2>7 DEF OrderInv, Ascending
<1>5. CASE ProcessOne
  <2>. DEFINE e == Head(queue)
  <2>1. queue # <<>> /\ queue' = Tail(queue) /\ handled' = Append(handled, e)
    BY <1>5 DEF ProcessOne
  <2>2. /\ e \in Event /\ e = queue[1] /\ 1 \in DOMAIN queue
        /\ DOMAIN queue' = 1 .. Len(queue) - 1
        /\ \A i \in DOMAIN queue' : queue'[i] = queue[i + 1] /\ i + 1 \in DOMAIN queue
    BY <1>1, <1>2, <2>1, HeadTailProperties, LenProperties, EmptySeq
  <2>3. /\ DOMAIN handled' = 1 .. Len(handled) + 1
        /\ \A i \in DOMAIN handled : handled'[i] = handled[i]
        /\ handled'[Len(handled) + 1] = e
    BY <1>1, <1>2, <2>1, <2>2, AppendProperties, LenProperties
  <2>4. \A i \in DOMAIN handled : handled[i].src = e.src => handled[i].seq < e.seq
    BY <1>1, <2>2 DEF Precedes
  <2>5. ASSUME NEW i \in DOMAIN queue', queue'[i].src = e.src PROVE e.seq < queue'[i].seq
    <3>1. i \in Nat \ {0} /\ i + 1 \in DOMAIN queue /\ 1 < i + 1 /\ queue'[i] = queue[i + 1]
      BY <1>2, <2>2
    <3>2. QED
      BY <1>1, <2>2, <2>5, <3>1 DEF Ascending
  <2>. HIDE DEF e
  <2>6. Ascending(queue)'
    <3>1. ASSUME NEW i \in DOMAIN queue', NEW j \in DOMAIN queue', i < j,
                 queue'[i].src = queue'[j].src
          PROVE  queue'[i].seq < queue'[j].seq
      <4>1. i + 1 \in DOMAIN queue /\ j + 1 \in DOMAIN queue /\ i + 1 < j + 1
        BY <1>2, <2>2, <3>1
      <4>2. queue'[i] = queue[i + 1] /\ queue'[j] = queue[j + 1]
        BY <2>2
      <4>3. QED
        BY <1>1, <3>1, <4>1, <4>2 DEF Ascending
    <3>2. QED
      BY <3>1 DEF Ascending
  <2>7. Ascending(handled)'
    <3>1. ASSUME NEW i \in DOMAIN handled', NEW j \in DOMAIN handled', i < j,
                 handled'[i].src = handled'[j].src
          PROVE  handled'[i].seq < handled'[j].seq
      <4>1. i \in DOMAIN handled /\ (j \in DOMAIN handled \/ j = Len(handled) + 1)
        BY <1>2, <2>3, <3>1
      <4>2. QED
        BY <1>1, <2>3, <2>4, <3>1, <4>1 DEF Ascending
    <3>2. QED
      BY <3>1 DEF Ascending
  <2>8. Precedes(handled, queue)'
    <3>1. ASSUME NEW i \in DOMAIN handled', NEW j \in DOMAIN queue',
                 handled'[i].src = queue'[j].src
          PROVE  handled'[i].seq < queue'[j].seq
      <4>1. CASE i \in DOMAIN handled
        BY <1>1, <2>2, <2>3, <3>1, <4>1 DEF Precedes
      <4>2. CASE i = Len(handled) + 1
        BY <2>3, <2>5, <3>1, <4>2
      <4>3. QED
        BY <1>2, <2>3, <3>1, <4>1, <4>2
    <3>2. QED
      BY <3>1 DEF Precedes
  <2>9. QED
    BY <2>6, <2>7, <2>8 DEF OrderInv
<1>6. CASE FreeQueue
  BY <1>1, <1>6 DEF FreeQueue, OrderInv, Ascending, Precedes
<1>7. ASSUME NEW t \in HalThread, CallbackPush(t), ~(Len(queue) < Capacity) PROVE OrderInv'
  BY <1>3, <1>7 DEF CallbackPush
<1>8. ASSUME NEW t \in HalThread, Raise(t) \/ CallbackSignal(t) PROVE OrderInv'
  BY <1>3, <1>8 DEF Raise, CallbackSignal
<1>9. CASE Quiet
  BY <1>3, <1>9, QuietIsStill DEF Still
<1>10. QED
  BY <1>4, <1>5, <1>6, <1>7, <1>8, <1>9, StepKinds

-----------------------------------------------------------------------------
LEMMA Invariance == Spec => []IInv
<1>1. IInv /\ [Next]_vars => IInv'
  BY TypeStep, TeardownStep, PlaceStep, OrderStep DEF IInv
<1>2. QED
  BY InitInv, <1>1, PTL DEF Spec

\* Events of one HAL thread are processed in the order the HAL raised them, and
\* none twice: the ONU state and WanManager never go back to an older status.
HandledInOrder ==
    \A i, j \in DOMAIN handled :
        i < j /\ handled[i].src = handled[j].src => handled[i].seq < handled[j].seq

\* process_one_event sees the events of one HAL thread in the order its callbacks
\* raised them, and none twice, whatever the interleaving and the queue's capacity.
THEOREM InOrder == Spec => []HandledInOrder
<1>1. IInv => HandledInOrder
  BY DEF IInv, OrderInv, Ascending, HandledInOrder
<1>2. QED
  BY Invariance, <1>1, PTL

\* Whatever a callback was entered with is being pushed, queued, processed or let
\* go for a reason the code has, and at one of these places only.
THEOREM OnePlace == Spec => []EachEventInOnePlace
<1>1. ASSUME IInv PROVE EachEventInOnePlace
  <2>. SUFFICES ASSUME NEW t \in HalThread, NEW n \in 1 .. raised[t]
                PROVE  LET e == EventOf(t, n)
                           places == {p \in {"pushing", "queued", "handled"} \cup Loss :
                             CASE p = "pushing" -> hpc[t] = "push" /\ n = raised[t]
                               [] p = "queued"  -> InQueue(e)
                               [] p = "handled" -> WasHandled(e)
                               [] OTHER -> e \in missed[p]}
                       IN  Cardinality(places) = 1
    BY DEF EachEventInOnePlace
  <2>. DEFINE e == EventOf(t, n)
              places == {p \in {"pushing", "queued", "handled"} \cup Loss :
                           CASE p = "pushing" -> hpc[t] = "push" /\ n = raised[t]
                             [] p = "queued"  -> InQueue(e)
                             [] p = "handled" -> WasHandled(e)
                             [] OTHER -> e \in missed[p]}
  <2>1. e.src = t /\ e.seq = n
    BY DEF EventOf
  <2>2. e \in Event /\ e.seq <= raised[e.src]
    BY <1>1, <2>1, ControllerAssumption DEF EventOf, Event, IInv, TypeOK
  <2>3. places = Places(e)
    BY <2>1 DEF Places, Place, At
  <2>4. PICK p \in Place : Places(e) = {p}
    BY <1>1, <2>2 DEF IInv, PlaceInv
  <2>5. QED
    BY <2>3, <2>4, FS_Singleton
<1>2. QED
  BY Invariance, <1>1, PTL

\* eponMgr_controller_destroy frees the queue when no callback is under way.
THEOREM QueueOutlivesCallbacks == Spec => []NoCallbackOutlivesQueue
<1>1. IInv => NoCallbackOutlivesQueue
  BY DEF IInv, TeardownInv, NoCallbackOutlivesQueue
<1>2. QED
  BY Invariance, <1>1, PTL

-----------------------------------------------------------------------------
(***************************************************************************)
(* Refinement of EventDelivery: what is being pushed or queued is pending. *)
(***************************************************************************)
Lost == UNION {missed[l] : l \in Loss}

LEMMA LostIs ==
    ASSUME NEW e
    PROVE  e \in Lost <=> \E l \in Loss : e \in missed[l]
  BY DEF Lost

LEMMA PendingIs ==
    ASSUME IInv, NEW e \in Event
    PROVE  e \in Delivery!Pending <=> "pushing" \in Places(e) \/ "queued" \in Places(e)
<1>1. e \in Delivery!Pending <=> e.seq <= raised[e.src] /\ ~WasHandled(e) /\ e \notin Lost
  BY DEF Delivery!Pending, Delivery!Sent, Delivery!Delivered, Delivery!AnyEvent, Event,
         WasHandled, Lost
<1>2. CASE e.seq <= raised[e.src]
  <2>1. PICK p \in Place : Places(e) = {p}
    BY <1>2 DEF IInv, PlaceInv
  <2>2. "handled" \in Places(e) <=> WasHandled(e)
    BY PlacesAre
  <2>3. (\E l \in Loss : l \in Places(e)) <=> e \in Lost
    BY PlacesAre, LostIs
  <2>4. QED
    BY <1>1, <1>2, <2>1, <2>2, <2>3 DEF Place, Loss
<1>3. CASE ~(e.seq <= raised[e.src])
  BY <1>1, <1>3 DEF IInv, PlaceInv
<1>4. QED
  BY <1>2, <1>3

LEMMA DeliveryStep ==
    ASSUME IInv, [Next]_vars
    PROVE  [Delivery!DeliveryNext]_(Delivery!deliveryVars)
<1>. USE DEF Delivery!DeliveryNext, Delivery!deliveryVars
<1>1. Contents /\ Ascending(queue) /\ Delivery!AnyEvent = Event
  BY DEF IInv, TypeOK, Contents, OrderInv, Delivery!AnyEvent, Event
<1>2. CASE UNCHANGED <<raised, handled, missed>>
  BY <1>2
<1>3. ASSUME NEW t \in HalThread, Raise(t) PROVE Delivery!Send(t)
  <2>1. raised[t] < MaxEvents /\ raised' = [raised EXCEPT ![t] = @ + 1] /\ handled' = handled
    BY <1>3 DEF Raise
  <2>2. CASE g_controller
    BY <1>3, <2>1, <2>2 DEF Raise, Delivery!Send
  <2>3. CASE ~g_controller
    <3>1. \A l \in Loss : missed'[l] = IF l = "unpublished"
                                         THEN missed[l] \cup {EventOf(t, raised[t] + 1)}
                                         ELSE missed[l]
      BY <1>1, <1>3, <2>3 DEF Raise, Contents, Loss
    <3>2. Lost' = Lost \cup {EventOf(t, raised[t] + 1)}
      BY <3>1 DEF Lost, Loss
    <3>3. QED
      BY <2>1, <3>2 DEF Delivery!Send, Delivery!EventBy, EventOf, Lost
  <2>4. QED
    BY <2>2, <2>3
<1>4. ASSUME NEW t \in HalThread, CallbackPush(t)
      PROVE  UNCHANGED <<raised, handled, missed>> \/ Delivery!Lose
  <2>1. raised' = raised /\ handled' = handled
    BY <1>4 DEF CallbackPush
  <2>2. CASE missed' = missed
    BY <2>1, <2>2
  <2>3. CASE missed' # missed
    <3>1. missed' = [missed EXCEPT !["full"] = @ \cup {Latest(t)}] /\ hpc[t] = "push"
      BY <1>4, <2>3 DEF CallbackPush
    <3>2. Latest(t) \in Event /\ Latest(t).src = t /\ Latest(t).seq = raised[t]
      BY <3>1, LatestIsEvent DEF IInv, Latest, EventOf
    <3>3. Latest(t) \in Delivery!Pending
      BY <3>1, <3>2, PendingIs, PlacesAre
    <3>4. \A l \in Loss : missed'[l] = IF l = "full" THEN missed[l] \cup {Latest(t)}
                                       ELSE missed[l]
      BY <1>1, <3>1 DEF Contents, Loss
    <3>5. Lost' = Lost \cup {Latest(t)}
      BY <3>4 DEF Lost, Loss
    <3>6. {Latest(t)} \in SUBSET Delivery!Pending
      BY <3>3
    <3>7. QED
      BY <2>1, <3>5, <3>6 DEF Delivery!Lose, Lost
  <2>4. QED
    BY <2>2, <2>3
<1>5. ASSUME NEW t \in HalThread, CallbackSignal(t) PROVE UNCHANGED <<raised, handled, missed>>
  BY <1>5 DEF CallbackSignal
<1>6. CASE ProcessOne
  <2>. DEFINE e == Head(queue)
  <2>1. /\ queue # <<>> /\ handled' = Append(handled, e)
        /\ raised' = raised /\ missed' = missed
    BY <1>6 DEF ProcessOne, halVars
  <2>2. e \in Event /\ e = queue[1] /\ 1 \in DOMAIN queue /\ DOMAIN queue \subseteq Nat \ {0}
    BY <1>1, <2>1, HeadTailProperties, LenProperties, EmptySeq DEF Contents
  <2>3. InQueue(e)
    BY <2>2 DEF InQueue
  <2>4. e \in Delivery!Pending
    BY <2>2, <2>3, PendingIs, PlacesAre
  <2>5. ASSUME NEW d \in Delivery!Pending, d.src = e.src PROVE e.seq <= d.seq
    <3>1. d \in Event
      BY <1>1 DEF Delivery!Pending, Delivery!Sent
    <3>2. e.seq \in Nat /\ d.seq \in Nat /\ e.seq <= raised[e.src]
      BY <2>2, <2>4, <3>1, EventIs DEF Delivery!Pending, Delivery!Sent
    <3>3. CASE "pushing" \in Places(d)
      BY <2>5, <3>2, <3>3, PlacesAre
    <3>4. CASE "queued" \in Places(d)
      <4>1. PICK i \in DOMAIN queue : queue[i] = d
        BY <3>4, PlacesAre DEF InQueue
      <4>2. i = 1 \/ 1 < i
        BY <2>2
      <4>3. QED
        BY <1>1, <2>2, <2>5, <3>2, <4>1, <4>2 DEF Ascending
    <3>5. QED
      BY <3>1, <3>3, <3>4, PendingIs
  <2>. HIDE DEF e
  <2>6. Delivery!Deliver(e)
    BY <2>1, <2>4, <2>5 DEF Delivery!Deliver
  <2>7. QED
    BY <1>1, <2>2, <2>6
<1>7. CASE FreeQueue
  <2>. DEFINE freed == {queue[i] : i \in DOMAIN queue}
  <2>1. raised' = raised /\ handled' = handled
    BY <1>7 DEF FreeQueue, halVars
  <2>2. \A e \in freed : e \in Event /\ InQueue(e)
    BY <1>1, LenProperties DEF Contents, InQueue
  <2>3. freed \in SUBSET Delivery!Pending
    BY <2>2, PendingIs, PlacesAre
  <2>4. missed["freed"] = {}
    BY <1>7 DEF FreeQueue, MainAt, IInv, TeardownInv
  <2>5. \A l \in Loss : missed'[l] = IF l = "freed" THEN freed ELSE missed[l]
    BY <1>1, <1>7 DEF FreeQueue, Contents, Loss
  <2>6. Lost' = Lost \cup freed
    BY <2>4, <2>5 DEF Lost, Loss
  <2>. HIDE DEF freed
  <2>7. Delivery!Lose
    BY <2>1, <2>3, <2>6 DEF Delivery!Lose, Lost
  <2>8. QED
    BY <2>7
<1>8. CASE Quiet
  BY <1>2, <1>8, QuietIsStill DEF Still
<1>9. QED
  BY <1>2, <1>3, <1>4, <1>5, <1>6, <1>7, <1>8, StepKinds

\* Callbacks, queue and event loop implement the abstract delivery of events, for any
\* number of HAL threads and any capacity: each event is handled at most once, and
\* not before every older one of its thread was handled or given up.
THEOREM RefinesDelivery == Spec => ImplementsDelivery
<1>1. Init => Delivery!DeliveryInit
  BY DEF Init, Delivery!DeliveryInit, Loss
<1>2. IInv /\ [Next]_vars => [Delivery!DeliveryNext]_(Delivery!deliveryVars)
  BY DeliveryStep
<1>3. QED
  BY <1>1, <1>2, Invariance, PTL DEF Spec, ImplementsDelivery, Delivery!DeliverySpec

-----------------------------------------------------------------------------
(***************************************************************************)
(* The controller as a user of the event queue: its steps are operations   *)
(* of the bounded FIFO that EventQueue implements, and none of them comes  *)
(* after eponMgr_queue_destroy.                                            *)
(***************************************************************************)
QueueLive == mpc # "gone"

\* The reply is the operation's result, which the controller does not keep: a
\* constant of the step.
Fifo(reply) == INSTANCE BoundedFifo WITH
                  NoEvent <- "none", live <- QueueLive, fifo <- queue
Replied(ret, event) == [ret |-> ret, event |-> event]

\* A callback's push is Enqueue of the event it was entered with or Refuse; what
\* process_one_event handles is what Dequeue hands over; the drained queue of a
\* pass is FoundEmpty and eponMgr_queue_destroy is Discard.  No other step changes
\* the queue.
UsesQueueAsFifo ==
    /\ \A t \in HalThread : CallbackPush(t) =>
         \/ hpc'[t] = "signal" /\ Fifo(Replied(0, "none"))!Enqueue(Latest(t))
         \/ hpc'[t] = "idle" /\ Fifo(Replied(-1, "none"))!Refuse
    /\ ProcessOne => \E e \in Event : /\ handled' = Append(handled, e)
                                      /\ Fifo(Replied(0, e))!Dequeue
    /\ QueueDrained => Fifo(Replied(-1, "none"))!FoundEmpty
    /\ FreeQueue => Fifo(Replied(0, "none"))!Discard
    /\ \/ \E t \in HalThread : CallbackPush(t)
       \/ ProcessOne \/ FreeQueue
       \/ UNCHANGED <<queue, QueueLive>>

LEMMA QuietKeepsLive ==
    ASSUME Quiet
    PROVE  UNCHANGED QueueLive
<1>. USE DEF QueueLive
<1>1. CASE \/ HalInit \/ Publish \/ ResetFlags \/ RunLock \/ RunBegin \/ LoopTest
           \/ QueueDrained \/ BeginWait
  BY <1>1 DEF HalInit, Publish, ResetFlags, RunLock, RunBegin, LoopTest, QueueDrained,
              BeginWait, MainAt
<1>2. CASE \/ WaitTimeout \/ LeaveLock \/ LeaveUnlock \/ ClearGlobal \/ RbusClose \/ HalDeinit
  BY <1>2 DEF WaitTimeout, LeaveLock, LeaveUnlock, ClearGlobal, RbusClose, HalDeinit, MainAt
<1>3. CASE \/ (\E w \in Interrupted : Deliver(w)) \/ Handler \/ NullDereference
           \/ UNCHANGED vars
  BY <1>3 DEF Deliver, Handler, ShutdownLock, ShutdownSet, ShutdownWake, WakeMain,
              NullDereference, vars
<1>4. CASE \E b \in BusThread : Bus(b)
  BY <1>4, BusStaysOutside DEF outsideBus
<1>5. QED
  BY <1>1, <1>2, <1>3, <1>4 DEF Quiet

\* Every use the callbacks and the event loop make of the queue is an operation of
\* a queue that is alive and does what BoundedFifo promises: the queue proved in
\* EventQueue_proofs is the queue the controller relies on.
THEOREM QueueIsFifo == Spec => [][UsesQueueAsFifo]_vars
<1>. USE DEF QueueLive, Replied
<1>1. ASSUME IInv, NEW t \in HalThread, CallbackPush(t)
      PROVE  \/ hpc'[t] = "signal" /\ Fifo(Replied(0, "none"))!Enqueue(Latest(t))
             \/ hpc'[t] = "idle" /\ Fifo(Replied(-1, "none"))!Refuse
  <2>1. mpc # "gone" /\ mpc' = mpc /\ hpc[t] = "push" /\ DOMAIN hpc = HalThread
    BY <1>1 DEF CallbackPush, IInv, TypeOK, TeardownInv
  <2>2. CASE hpc' = [hpc EXCEPT ![t] = "signal"]
    BY <1>1, <2>1, <2>2 DEF CallbackPush, Fifo!Enqueue, Fifo!Returns
  <2>3. CASE hpc' = [hpc EXCEPT ![t] = "idle"]
    BY <1>1, <2>1, <2>3 DEF CallbackPush, Fifo!Refuse, Fifo!Returns
  <2>4. QED
    BY <1>1, <2>2, <2>3 DEF CallbackPush
<1>2. ASSUME IInv, ProcessOne
      PROVE  \E e \in Event : handled' = Append(handled, e) /\ Fifo(Replied(0, e))!Dequeue
  <2>1. Head(queue) \in Event /\ queue # <<>>
    BY <1>2, TailOfQueue DEF IInv, ProcessOne
  <2>2. PICK e \in Event : e = Head(queue)
    BY <2>1
  <2>3. mpc = "batch" /\ mpc' # "gone" /\ queue' = Tail(queue) /\ handled' = Append(handled, e)
    BY <1>2, <2>2 DEF ProcessOne, MainAt
  <2>4. Fifo(Replied(0, e))!Dequeue
    BY <2>1, <2>2, <2>3 DEF Fifo!Dequeue, Fifo!Returns
  <2>5. QED
    BY <2>3, <2>4
<1>3. QueueDrained => Fifo(Replied(-1, "none"))!FoundEmpty
  BY DEF QueueDrained, MainAt, Fifo!FoundEmpty, Fifo!Returns
<1>4. FreeQueue => Fifo(Replied(0, "none"))!Discard
  BY DEF FreeQueue, MainAt, Fifo!Discard
<1>5. ASSUME [Next]_vars
      PROVE  \/ \E t \in HalThread : CallbackPush(t)
             \/ ProcessOne \/ FreeQueue
             \/ UNCHANGED <<queue, QueueLive>>
  <2>1. CASE Quiet
    BY <2>1, QuietIsStill, QuietKeepsLive DEF Still
  <2>2. CASE \E t \in HalThread : Raise(t) \/ CallbackSignal(t)
    BY <2>2 DEF Raise, CallbackSignal, WakeMain
  <2>3. QED
    BY <1>5, <2>1, <2>2, StepKinds
<1>6. IInv /\ [Next]_vars => UsesQueueAsFifo
  BY <1>1, <1>2, <1>3, <1>4, <1>5 DEF UsesQueueAsFifo
<1>7. QED
  BY Invariance, <1>6, PTL DEF Spec

\* Where an event stands in the queue only falls, by one for each event handled,
\* until it is handled itself or freed with the queue: nothing overtakes it and
\* nothing is put back before it.
QueueMovesUp ==
    \A i \in DOMAIN queue :
        \/ i \in DOMAIN queue' /\ queue'[i] = queue[i]
        \/ /\ ProcessOne
           /\ IF i = 1 THEN handled' = Append(handled, queue[i])
              ELSE i - 1 \in DOMAIN queue' /\ queue'[i - 1] = queue[i]
        \/ FreeQueue /\ queue[i] \in missed'["freed"]

\* The safety half of QueuedEventIsHandled: each event the loop handles brings every
\* queued event one place nearer to its turn.
THEOREM EventsMoveUp == Spec => [][QueueMovesUp]_vars
<1>1. ASSUME IInv, [Next]_vars PROVE QueueMovesUp
  <2>1. Contents /\ DOMAIN queue = 1 .. Len(queue) /\ Len(queue) \in Nat
    BY <1>1, LenProperties DEF IInv, TypeOK, Contents
  <2>2. CASE UNCHANGED queue
    BY <2>2 DEF QueueMovesUp
  <2>3. ASSUME NEW t \in HalThread, CallbackPush(t) PROVE QueueMovesUp
    <3>1. CASE queue' = Append(queue, Latest(t))
      <4>1. Latest(t) \in Event
        BY <1>1, <2>3, LatestIsEvent DEF IInv, CallbackPush
      <4>2. \A i \in DOMAIN queue : i \in DOMAIN queue' /\ queue'[i] = queue[i]
        BY <2>1, <3>1, <4>1, AppendProperties, LenProperties DEF Contents
      <4>3. QED
        BY <4>2 DEF QueueMovesUp
    <3>2. QED
      BY <2>2, <2>3, <3>1 DEF CallbackPush
  <2>4. CASE ProcessOne
    <3>1. /\ queue # <<>> /\ queue' = Tail(queue) /\ handled' = Append(handled, Head(queue))
          /\ Head(queue) = queue[1]
      BY <1>1, <2>4, TailOfQueue DEF IInv, ProcessOne
    <3>2. DOMAIN queue' = 1 .. Len(queue) - 1
          /\ \A i \in 1 .. Len(queue) - 1 : queue'[i] = queue[i + 1]
      BY <1>1, <2>1, <3>1, TailOfQueue, LenProperties DEF IInv
    <3>3. ASSUME NEW i \in DOMAIN queue, i # 1
          PROVE  i - 1 \in DOMAIN queue' /\ queue'[i - 1] = queue[i]
      BY <2>1, <3>2, <3>3
    <3>4. QED
      BY <2>4, <3>1, <3>3 DEF QueueMovesUp
  <2>5. CASE FreeQueue
    <3>1. missed'["freed"] = {queue[i] : i \in DOMAIN queue}
      BY <2>1, <2>5 DEF FreeQueue, Contents, Loss
    <3>2. QED
      BY <2>5, <3>1 DEF QueueMovesUp
  <2>6. CASE Quiet \/ \E t \in HalThread : Raise(t) \/ CallbackSignal(t)
    BY <2>2, <2>6, QuietIsStill DEF Still, Raise, CallbackSignal
  <2>7. QED
    BY <1>1, <2>3, <2>4, <2>5, <2>6, StepKinds
<1>2. QED
  BY Invariance, <1>1, PTL DEF Spec

-----------------------------------------------------------------------------
(***************************************************************************)
(* ctrl->mutex and the request to shut down.                               *)
(***************************************************************************)
Holding == {"begin", "left"}
BusHolding == {"in", "relock", "config", "unlock"}

\* Who holds ctrl->mutex shows in where that thread is, although a GET may have
\* unlocked it meanwhile; only a bus thread can keep it, by unlocking after
\* g_controller was cleared.  A handler past its lock runs on a thread that does
\* not hold the mutex.
LockInv ==
    /\ mutex = "main" => mpc \in Holding
    /\ mutex = "handler" => spc = "set"
    /\ \A b \in BusThread : mutex = b /\ g_controller => bpc[b] \in BusHolding
    /\ spc \in {"set", "wake"} => mutex # sthread
    /\ g_controller <=> mpc \notin {"hal_init", "publish", "rbus_close", "hal_deinit",
                                    "free", "gone"}
    /\ mpc \in {"hal_init", "publish"} => mutex = Nobody /\ spc = "idle"

LEMMA LockStep ==
    ASSUME TypeOK, LockInv, [Next]_vars
    PROVE  LockInv'
<1>. USE DEF LockInv, Holding, BusHolding
<1>0. /\ \A b \in BusThread : b # Nobody /\ b # "main" /\ b # "handler" /\ b # "other"
      /\ Nobody \notin {"main", "handler", "other"}
      /\ mutex \in {Nobody, "main", "handler"} \cup BusThread
      /\ sthread \in {"main", "other"} \cup BusThread
      /\ bpc \in [BusThread -> BusPoint]
      /\ g_controller \in BOOLEAN
  BY ControllerAssumption DEF TypeOK, Interrupted
<1>1. CASE Quiet
  <2>. USE DEF halVars, signalVars
  <2>1. CASE \/ HalInit \/ Publish \/ ResetFlags \/ RunLock \/ RunBegin \/ LoopTest
             \/ QueueDrained \/ BeginWait
    BY <1>0, <2>1 DEF HalInit, Publish, ResetFlags, RunLock, RunBegin, LoopTest, QueueDrained,
                BeginWait, MainAt, Suspended
  <2>2. CASE \/ WaitTimeout \/ LeaveLock \/ LeaveUnlock \/ ClearGlobal \/ RbusClose \/ HalDeinit
    BY <1>0, <2>2 DEF WaitTimeout, LeaveLock, LeaveUnlock, ClearGlobal, RbusClose, HalDeinit,
                MainAt, Suspended
  <2>3. CASE \/ (\E w \in Interrupted : Deliver(w)) \/ NullDereference
             \/ UNCHANGED vars
    BY <1>0, <2>3 DEF Deliver, NullDereference, vars
  <2>4. CASE Handler
    BY <1>0, <2>4 DEF Handler, ShutdownLock, ShutdownSet, ShutdownWake, WakeMain
  <2>5. ASSUME NEW b \in BusThread, Bus(b) PROVE LockInv'
    <3>. USE DEF GoTo, BusAt, Suspended, outsideBus
    <3>1. CASE Receive(b) \/ BusSetConfig(b)
      BY <1>0, <2>5, <3>1 DEF Receive, BusSetConfig
    <3>2. CASE BusLock(b) \/ BusRelock(b)
      BY <1>0, <2>5, <3>2 DEF BusLock, BusRelock
    <3>3. CASE BusUnlock(b)
      BY <1>0, <2>5, <3>3 DEF BusUnlock
    <3>4. QED
      BY <2>5, <3>1, <3>2, <3>3 DEF Bus, BusHandler
  <2>6. QED
    BY <1>1, <2>1, <2>2, <2>3, <2>4, <2>5 DEF Quiet
<1>2. CASE \E t \in HalThread : Raise(t) \/ CallbackPush(t) \/ CallbackSignal(t)
  BY <1>0, <1>2 DEF Raise, CallbackPush, CallbackSignal, WakeMain, signalVars
<1>3. CASE ProcessOne \/ FreeQueue
  BY <1>0, <1>3 DEF ProcessOne, FreeQueue, MainAt, signalVars
<1>4. QED
  BY <1>1, <1>2, <1>3, StepKinds

LEMMA LockInvariance == Spec => []LockInv
<1>1. Init => LockInv
  BY ControllerAssumption DEF Init, LockInv, Holding, Interrupted
<1>2. TypeOK /\ LockInv /\ [Next]_vars => LockInv'
  BY LockStep
<1>3. QED
  BY <1>1, <1>2, TypeCorrect, PTL DEF Spec

\* Whoever holds ctrl->mutex is not waiting for it: the main thread is at one of
\* the critical sections of eponMgr_controller_run, the signal handler at its own,
\* a TR-181 handler between its lock and its unlock.  The exceptions are the two
\* ways in which a thread blocks itself, and a TR-181 handler whose unlock came
\* after g_controller was cleared and did nothing.
LockOwnerMoves ==
    mutex # Nobody =>
        \/ mutex = "main" /\ (MainAt("begin") \/ MainAt("left"))
        \/ mutex = "handler" /\ spc = "set" /\ (g_controller \/ RunReturned)
        \/ \E b \in BusThread : /\ mutex = b
                               /\ \E p \in {"in", "config", "unlock"} : BusAt(b, p)
        \/ HandlerBlocksItself
        \/ SetBlocksItself
        \/ mutex \in BusThread /\ RunReturned

\* No two threads ever wait for each other over ctrl->mutex, whatever the bus, the
\* HAL and signals do: where the mutex is not given back while eponMgr_controller_run
\* has not returned, one thread alone blocks itself, either by a signal delivered
\* inside its critical section or by the second lock of a SET.
THEOREM OnlySelfDeadlocks == Spec => []LockOwnerMoves
<1>1. ASSUME TypeOK, LockInv, mutex # Nobody PROVE LockOwnerMoves
  <2>. USE ControllerAssumption DEF LockInv, TypeOK, LockOwnerMoves
  <2>1. HandlerBlocksItself \/ ~Suspended(mutex)
    BY <1>1 DEF HandlerBlocksItself, Suspended
  <2>2. CASE mutex = "main"
    BY <1>1, <2>1, <2>2 DEF MainAt, Holding
  <2>3. CASE mutex = "handler"
    BY <1>1, <2>3 DEF RunReturned, MainPoint
  <2>4. CASE mutex \in BusThread
    <3>1. CASE ~g_controller
      BY <1>1, <2>4, <3>1 DEF RunReturned, MainPoint
    <3>2. CASE g_controller
      <4>1. bpc[mutex] \in BusHolding
        BY <1>1, <2>4, <3>2
      <4>2. QED
        BY <2>1, <2>4, <4>1 DEF BusHolding, BusAt, SetBlocksItself
    <3>3. QED
      BY <3>1, <3>2
  <2>5. QED
    BY <1>1, <2>2, <2>3, <2>4
<1>2. TypeOK /\ LockInv => LockOwnerMoves
  BY <1>1 DEF LockOwnerMoves
<1>3. QED
  BY TypeCorrect, LockInvariance, <1>2, PTL

\* How many steps of the main thread are left of a loop that is asked to end: the
\* events this pass may still handle, the wait, the test.
StepsToLeave ==
    CASE mpc = "test"  -> 1
      [] mpc = "wait"  -> 2
      [] mpc = "arm"   -> 3
      [] mpc = "batch" -> 3 + Batch - batched
      [] OTHER         -> 0

\* A request that finds the main thread in its loop stands until that thread has
\* left the loop; each of its steps brings the end nearer, and no step of the
\* callbacks, the handler or the HAL puts it off.
RequestShortensRun ==
    shutdown_requested /\ mpc \in LoopPoint =>
        /\ shutdown_requested'
        /\ mpc' \in LoopPoint \cup {"leave"}
        /\ StepsToLeave' <= StepsToLeave
        /\ Main => StepsToLeave' < StepsToLeave

\* The safety half of RequestInLoopEndsRun: eponMgr_controller_run leaves its loop
\* after at most Batch + 3 steps of the main thread from the request, however many
\* events the HAL raises meanwhile.
THEOREM RequestEndsRunSoon ==
    /\ Spec => [](mpc \in LoopPoint => StepsToLeave \in 1 .. Batch + 3)
    /\ Spec => [][RequestShortensRun]_vars
<1>. USE ControllerAssumption
<1>1. ASSUME TypeOK, BatchInv PROVE mpc \in LoopPoint => StepsToLeave \in 1 .. Batch + 3
  BY <1>1 DEF TypeOK, BatchInv, LoopPoint, StepsToLeave
<1>2. ASSUME TypeOK, BatchInv, [Next]_vars PROVE RequestShortensRun
  <2>. SUFFICES ASSUME shutdown_requested, mpc \in LoopPoint
                PROVE  /\ shutdown_requested'
                       /\ mpc' \in LoopPoint \cup {"leave"}
                       /\ StepsToLeave' <= StepsToLeave
                       /\ Main => StepsToLeave' < StepsToLeave
    BY DEF RequestShortensRun
  <2>. USE DEF LoopPoint, StepsToLeave
  <2>1. batched \in Nat /\ Batch \in Nat /\ (mpc = "batch" => batched < Batch)
    BY <1>2 DEF TypeOK, BatchInv
  <2>2. CASE LoopTest
    BY <2>2 DEF LoopTest, MainAt
  <2>3. CASE ProcessOne
    BY <2>1, <2>3 DEF ProcessOne, MainAt
  <2>4. CASE QueueDrained \/ BeginWait \/ WaitTimeout
    <3>1. CASE QueueDrained
      BY <2>1, <3>1 DEF QueueDrained, MainAt
    <3>2. CASE BeginWait
      BY <3>2 DEF BeginWait, MainAt
    <3>3. CASE WaitTimeout
      BY <3>3 DEF WaitTimeout, MainAt
    <3>4. QED
      BY <2>4, <3>1, <3>2, <3>3
  <2>5. CASE Main /\ ~(LoopTest \/ ProcessOne \/ QueueDrained \/ BeginWait \/ WaitTimeout)
    BY <2>5 DEF Main, HalInit, Publish, ResetFlags, RunLock, RunBegin, LeaveLock,
                LeaveUnlock, ClearGlobal, RbusClose, HalDeinit, FreeQueue, MainAt
  <2>6. CASE ~Main
    <3>1. /\ shutdown_requested' /\ batched' = batched
          /\ mpc' = mpc \/ (mpc = "wait" /\ mpc' = "test")
      <4>1. CASE \E t \in HalThread : Hal(t)
        BY <4>1 DEF Hal, Raise, CallbackPush, CallbackSignal, WakeMain
      <4>2. CASE Handler \/ NullDereference \/ \E w \in Interrupted : Deliver(w)
        BY <4>2 DEF Handler, ShutdownLock, ShutdownSet, ShutdownWake, WakeMain, Deliver,
                    NullDereference
      <4>3. CASE UNCHANGED vars
        BY <4>3 DEF vars
      <4>4. CASE \E b \in BusThread : Bus(b)
        BY <4>4, BusStaysOutside DEF outsideBus
      <4>5. QED
        BY <1>2, <2>6, <4>1, <4>2, <4>3, <4>4 DEF Next
    <3>2. QED
      BY <2>1, <2>6, <3>1
  <2>7. QED
    BY <2>2, <2>3, <2>4, <2>5, <2>6
<1>3. IInv => TypeOK /\ BatchInv
  BY DEF IInv
<1>4. QED
  BY Invariance, <1>1, <1>2, <1>3, PTL DEF Spec
=============================================================================
