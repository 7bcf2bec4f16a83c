---------------------------- MODULE EventQueue -----------------------------
(***************************************************************************)
(* The circular event buffer of eponMgr_queue.c.  Every operation runs     *)
(* under the queue's own mutex from its first read to its last write, so   *)
(* each is one action, whichever HAL thread or the controller calls it.    *)
(* The two indices and the count are kept separately by the code; that     *)
(* they always agree is what the ring invariant says.                      *)
(***************************************************************************)
EXTENDS Integers, Sequences

CONSTANTS Event, NoEvent, Capacity

ASSUME CapacityAssumption == Capacity \in Nat \ {0}
ASSUME EventAssumption == NoEvent \notin Event

VARIABLES capacity,   \* 0 while the queue is not initialised
          events,     \* the malloc'ed array; NoEvent in a slot never written
          head,       \* where the next push writes
          tail,       \* where the next pop reads
          count,      \* how many events are queued
          reply       \* what the last call returned

vars == <<capacity, events, head, tail, count, reply>>

Slot == 0 .. Capacity - 1
Unwritten == [i \in Slot |-> NoEvent]
Returns(r, e) == reply' = [ret |-> r, event |-> e]

Init ==
    /\ capacity = 0
    /\ events = Unwritten
    /\ head = 0
    /\ tail = 0
    /\ count = 0
    /\ reply = [ret |-> 0, event |-> NoEvent]

(***************************************************************************)
(* eponMgr_queue_init zeroes the structure before it allocates: a failed   *)
(* malloc or mutex_init returns -1 and leaves the queue with capacity 0.   *)
(***************************************************************************)
queue_init ==
    /\ capacity = 0
    /\ \/ capacity' = Capacity /\ Returns(0, NoEvent)
       \/ capacity' = 0 /\ Returns(-1, NoEvent)
    /\ events' = Unwritten
    /\ head' = 0
    /\ tail' = 0
    /\ count' = 0

queue_destroy ==
    /\ capacity # 0
    /\ capacity' = 0
    /\ events' = Unwritten
    /\ head' = 0
    /\ tail' = 0
    /\ count' = 0
    /\ UNCHANGED reply

PushFull ==
    /\ capacity # 0
    /\ count >= capacity
    /\ Returns(-1, NoEvent)
    /\ UNCHANGED <<capacity, events, head, tail, count>>

\* Variant with a fault: one event more than the array has slots is accepted.
PushOneTooMany(e) ==
    /\ capacity # 0
    /\ count <= capacity
    /\ events' = [events EXCEPT ![head] = e]
    /\ head' = (head + 1) % capacity
    /\ count' = count + 1
    /\ Returns(0, NoEvent)
    /\ UNCHANGED <<capacity, tail>>

PushStored(e) ==
    /\ capacity # 0
    /\ count < capacity
    /\ events' = [events EXCEPT ![head] = e]
    /\ head' = (head + 1) % capacity
    /\ count' = count + 1
    /\ Returns(0, NoEvent)
    /\ UNCHANGED <<capacity, tail>>

queue_push(e) == PushFull \/ PushStored(e)

PopEmpty ==
    /\ capacity # 0
    /\ count = 0
    /\ Returns(-1, NoEvent)
    /\ UNCHANGED <<capacity, events, head, tail, count>>

\* Variants with a fault: the count is not decremented; the slot at the write
\* index is read.
PopKeepsCount ==
    /\ capacity # 0
    /\ count # 0
    /\ Returns(0, events[tail])
    /\ tail' = (tail + 1) % capacity
    /\ UNCHANGED <<capacity, events, head, count>>

PopAtHead ==
    /\ capacity # 0
    /\ count # 0
    /\ Returns(0, events[head])
    /\ tail' = (tail + 1) % capacity
    /\ count' = count - 1
    /\ UNCHANGED <<capacity, events, head>>

PopOldest ==
    /\ capacity # 0
    /\ count # 0
    /\ Returns(0, events[tail])
    /\ tail' = (tail + 1) % capacity
    /\ count' = count - 1
    /\ UNCHANGED <<capacity, events, head>>

queue_pop == PopEmpty \/ PopOldest

queue_is_empty ==
    /\ capacity # 0
    /\ Returns(IF count = 0 THEN 1 ELSE 0, NoEvent)
    /\ UNCHANGED <<capacity, events, head, tail, count>>

queue_is_full ==
    /\ capacity # 0
    /\ Returns(IF count >= capacity THEN 1 ELSE 0, NoEvent)
    /\ UNCHANGED <<capacity, events, head, tail, count>>

queue_size ==
    /\ capacity # 0
    /\ Returns(count, NoEvent)
    /\ UNCHANGED <<capacity, events, head, tail, count>>

Next ==
    \/ queue_init
    \/ queue_destroy
    \/ \E e \in Event : queue_push(e)
    \/ queue_pop
    \/ queue_is_empty
    \/ queue_is_full
    \/ queue_size

Spec == Init /\ [][Next]_vars

-----------------------------------------------------------------------------
\* The state stays within its types: in particular count never exceeds the
\* capacity and both indices stay inside the allocated array.
TypeOK ==
    /\ capacity \in {0, Capacity}
    /\ events \in [Slot -> Event \cup {NoEvent}]
    /\ head \in Slot
    /\ tail \in Slot
    /\ count \in 0 .. Capacity
    /\ reply \in [ret : Int, event : Event \cup {NoEvent}]

\* The slot that holds the i-th oldest event, i counted from 0.
SlotAt(i) == (tail + i) % Capacity

\* The three cursors the code advances independently never drift apart: the
\* write index is always count slots after the read index, the queue holds
\* nothing while it is not initialised, and each of the count slots from the
\* read index on has been written, so a pop never returns uninitialised memory.
RingInv ==
    /\ head = SlotAt(count)
    /\ capacity = 0 => count = 0
    /\ \A i \in 0 .. count - 1 : events[SlotAt(i)] \in Event

\* The events in the order a consumer will see them.
Contents == [i \in 1 .. count |-> events[SlotAt(i - 1)]]

Fifo == INSTANCE BoundedFifo
          WITH live <- (capacity # 0), fifo <- Contents

\* The ring buffer is a bounded FIFO: pops return exactly the pushed events,
\* in order, none lost, duplicated or overwritten, and a push is refused only
\* when Capacity events are waiting.
ImplementsFifo == Fifo!FifoSpec
=============================================================================
