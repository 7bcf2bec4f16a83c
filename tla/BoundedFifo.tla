---------------------------- MODULE BoundedFifo ----------------------------
(***************************************************************************)
(* What eponMgr_queue.h promises of the event queue, with no ring buffer   *)
(* in sight: a first-in first-out queue of at most Capacity events that    *)
(* refuses a push when it is full, keeps what it already holds, and can be *)
(* created again after it was destroyed.  Each operation leaves the value  *)
(* it returns, and the event it hands over, in reply.                      *)
(***************************************************************************)
EXTENDS Integers, Sequences

CONSTANTS Event,      \* the events HAL callbacks enqueue
          NoEvent,    \* no event handed over
          Capacity    \* a positive number, 100 in eponMgr_controller_init

VARIABLES live,       \* the queue has been initialised and not destroyed
          fifo,       \* the events it holds, the oldest first
          reply       \* the last operation's result

fifoVars == <<live, fifo, reply>>

Reply == [ret : Int, event : Event \cup {NoEvent}]
Returns(r, e) == reply' = [ret |-> r, event |-> e]

FifoTypeOK ==
    /\ live \in BOOLEAN
    /\ fifo \in Seq(Event)
    /\ Len(fifo) <= Capacity
    /\ reply \in Reply

FifoInit ==
    /\ live = FALSE
    /\ fifo = <<>>
    /\ reply = [ret |-> 0, event |-> NoEvent]

Create ==
    /\ ~live
    /\ \/ live' = TRUE /\ Returns(0, NoEvent)
       \/ live' = FALSE /\ Returns(-1, NoEvent)
    /\ fifo' = <<>>

\* Every event still queued is lost.
Discard ==
    /\ live
    /\ live' = FALSE
    /\ fifo' = <<>>
    /\ UNCHANGED reply

Enqueue(e) ==
    /\ live
    /\ Len(fifo) < Capacity
    /\ fifo' = Append(fifo, e)
    /\ Returns(0, NoEvent)
    /\ UNCHANGED live

Refuse ==
    /\ live
    /\ Len(fifo) = Capacity
    /\ Returns(-1, NoEvent)
    /\ UNCHANGED <<live, fifo>>

Dequeue ==
    /\ live
    /\ fifo # <<>>
    /\ fifo' = Tail(fifo)
    /\ Returns(0, Head(fifo))
    /\ UNCHANGED live

FoundEmpty ==
    /\ live
    /\ fifo = <<>>
    /\ Returns(-1, NoEvent)
    /\ UNCHANGED <<live, fifo>>

\* The three observers: how many, is it empty, is it full.
Observe ==
    /\ live
    /\ \/ Returns(Len(fifo), NoEvent)
       \/ Returns(IF fifo = <<>> THEN 1 ELSE 0, NoEvent)
       \/ Returns(IF Len(fifo) = Capacity THEN 1 ELSE 0, NoEvent)
    /\ UNCHANGED <<live, fifo>>

FifoNext ==
    \/ Create \/ Discard
    \/ \E e \in Event : Enqueue(e)
    \/ Refuse \/ Dequeue \/ FoundEmpty \/ Observe

FifoSpec == FifoInit /\ [][FifoNext]_fifoVars
=============================================================================
