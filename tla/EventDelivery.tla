---------------------------- MODULE EventDelivery ----------------------------
(***************************************************************************)
(* What the controller promises the HAL and the handlers of events, with   *)
(* no queue, callback or thread in sight: an event that was raised is      *)
(* handed over once, or given up and then never handed over.  When one is  *)
(* handed over, every older event of its source has been handed over or    *)
(* given up: what the handlers last saw of a source is its latest status.  *)
(***************************************************************************)
EXTENDS Integers, Sequences

CONSTANTS Source,      \* who raises events: the HAL's threads
          MaxEvents    \* bound: events one source raises

VARIABLES sent,        \* how many events each source has raised
          delivered,   \* the events handed over, in this order
          lost         \* the events given up

deliveryVars == <<sent, delivered, lost>>

EventBy(s, n) == [src |-> s, seq |-> n]
AnyEvent == [src : Source, seq : 1 .. MaxEvents]

Sent == {e \in AnyEvent : e.seq <= sent[e.src]}
Delivered == {delivered[i] : i \in DOMAIN delivered}
Pending == Sent \ (Delivered \cup lost)

DeliveryInit ==
    /\ sent = [s \in Source |-> 0]
    /\ delivered = <<>>
    /\ lost = {}

\* An event is raised; it may be lost on the spot.
Send(s) ==
    /\ sent[s] < MaxEvents
    /\ sent' = [sent EXCEPT ![s] = @ + 1]
    /\ \/ UNCHANGED lost
       \/ lost' = lost \cup {EventBy(s, sent[s] + 1)}
    /\ UNCHANGED delivered

\* A pending event is handed over when no older one of its source is pending.
Deliver(e) ==
    /\ e \in Pending
    /\ \A d \in Pending : d.src = e.src => e.seq <= d.seq
    /\ delivered' = Append(delivered, e)
    /\ UNCHANGED <<sent, lost>>

\* Pending events are given up.
Lose ==
    /\ \E gone \in SUBSET Pending : lost' = lost \cup gone
    /\ UNCHANGED <<sent, delivered>>

DeliveryNext ==
    \/ \E s \in Source : Send(s)
    \/ \E e \in AnyEvent : Deliver(e)
    \/ Lose

DeliverySpec == DeliveryInit /\ [][DeliveryNext]_deliveryVars
=============================================================================
