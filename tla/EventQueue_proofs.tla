------------------------- MODULE EventQueue_proofs -------------------------
(***************************************************************************)
(* Proofs about the ring buffer of eponMgr_queue.c for every capacity.     *)
(***************************************************************************)
EXTENDS EventQueue, SequenceTheorems, TLAPS

(***************************************************************************)
(* The index arithmetic the code relies on: below 2 * Capacity, reducing   *)
(* modulo Capacity subtracts it at most once.                              *)
(***************************************************************************)
LEMMA ModSmall ==
    ASSUME NEW n \in Nat, n < Capacity
    PROVE  n % Capacity = n
  BY CapacityAssumption

LEMMA ModWraps ==
    ASSUME NEW n \in Nat, n >= Capacity, n < 2 * Capacity
    PROVE  n % Capacity = n - Capacity
  BY CapacityAssumption

(***************************************************************************)
(* Where the i-th slot after the read index is, with the wrap-around       *)
(* resolved into a case distinction the SMT solver can work with.          *)
(***************************************************************************)
LEMMA SlotCases ==
    ASSUME NEW t \in Slot, NEW i \in 0 .. Capacity
    PROVE  (t + i) % Capacity = IF t + i < Capacity THEN t + i ELSE t + i - Capacity
<1>1. Capacity \in Nat /\ t \in Nat /\ i \in Nat /\ t + i < 2 * Capacity
  BY CapacityAssumption DEF Slot
<1>2. CASE t + i < Capacity
  BY <1>1, <1>2, ModSmall
<1>3. CASE t + i >= Capacity
  BY <1>1, <1>3, ModWraps
<1>4. QED
  BY <1>1, <1>2, <1>3

(***************************************************************************)
(* The code's advance of an index by one stays inside the array.           *)
(***************************************************************************)
LEMMA AdvanceInSlot ==
    ASSUME NEW t \in Slot
    PROVE  (t + 1) % Capacity \in Slot
<1>1. 1 \in 0 .. Capacity
  BY CapacityAssumption
<1>2. (t + 1) % Capacity = IF t + 1 < Capacity THEN t + 1 ELSE t + 1 - Capacity
  BY <1>1, SlotCases
<1>3. QED
  BY <1>2, CapacityAssumption DEF Slot

-----------------------------------------------------------------------------
LEMMA TypeInit == Init => TypeOK
  BY CapacityAssumption DEF Init, TypeOK, Slot, Unwritten

LEMMA TypeStep == TypeOK /\ [Next]_vars => TypeOK'
<1>. SUFFICES ASSUME TypeOK, [Next]_vars PROVE TypeOK'
  OBVIOUS
<1>. USE CapacityAssumption
<1>1. CASE queue_init
  BY <1>1 DEF queue_init, TypeOK, Returns, Slot, Unwritten
<1>2. CASE queue_destroy
  BY <1>2 DEF queue_destroy, TypeOK, Slot, Unwritten
<1>3. ASSUME NEW e \in Event, queue_push(e) PROVE TypeOK'
  <2>1. CASE PushFull
    BY <2>1 DEF PushFull, TypeOK, Returns
  <2>2. CASE PushStored(e)
    <3>1. capacity = Capacity
      BY <2>2 DEF PushStored, TypeOK
    <3>2. head' \in Slot
      BY <2>2, <3>1, AdvanceInSlot DEF PushStored, TypeOK
    <3>3. count' \in 0 .. Capacity
      BY <2>2, <3>1 DEF PushStored, TypeOK
    <3>4. QED
      BY <2>2, <3>2, <3>3 DEF PushStored, TypeOK, Returns
  <2>3. QED
    BY <1>3, <2>1, <2>2 DEF queue_push
<1>4. CASE queue_pop
  <2>1. CASE PopEmpty
    BY <2>1 DEF PopEmpty, TypeOK, Returns
  <2>2. CASE PopOldest
    <3>1. capacity = Capacity
      BY <2>2 DEF PopOldest, TypeOK
    <3>2. tail' \in Slot
      BY <2>2, <3>1, AdvanceInSlot DEF PopOldest, TypeOK
    <3>3. count' \in 0 .. Capacity
      BY <2>2 DEF PopOldest, TypeOK
    <3>4. events[tail] \in Event \cup {NoEvent}
      BY DEF TypeOK
    <3>5. QED
      BY <2>2, <3>2, <3>3, <3>4 DEF PopOldest, TypeOK, Returns
  <2>3. QED
    BY <1>4, <2>1, <2>2 DEF queue_pop
<1>5. CASE queue_is_empty
  BY <1>5 DEF queue_is_empty, TypeOK, Returns
<1>6. CASE queue_is_full
  BY <1>6 DEF queue_is_full, TypeOK, Returns
<1>7. CASE queue_size
  BY <1>7 DEF queue_size, TypeOK, Returns
<1>8. CASE UNCHANGED vars
  BY <1>8 DEF vars, TypeOK
<1>9. QED
  BY <1>1, <1>2, <1>3, <1>4, <1>5, <1>6, <1>7, <1>8 DEF Next

\* The buffer indices of eponMgr_queue.c stay inside the allocated array and
\* its count within the capacity, for every capacity and every set of events.
THEOREM TypeCorrect == Spec => []TypeOK
<1>1. Init => TypeOK
  BY TypeInit
<1>2. TypeOK /\ [Next]_vars => TypeOK'
  BY TypeStep
<1>3. QED
  BY <1>1, <1>2, PTL DEF Spec

-----------------------------------------------------------------------------
(***************************************************************************)
(* Walking the ring.  Advancing the read index by one renumbers the slots, *)
(* the slot after the i-th is the (i+1)-st, and Capacity consecutive slots *)
(* are all different.                                                      *)
(***************************************************************************)
LEMMA SlotRange ==
    ASSUME NEW t \in Slot, NEW i \in 0 .. Capacity
    PROVE  (t + i) % Capacity \in Slot
<1>1. (t + i) % Capacity = IF t + i < Capacity THEN t + i ELSE t + i - Capacity
  BY SlotCases
<1>2. QED
  BY <1>1, CapacityAssumption DEF Slot

LEMMA SlotSucc ==
    ASSUME NEW t \in Slot, NEW i \in 0 .. Capacity - 1
    PROVE  (((t + i) % Capacity) + 1) % Capacity = (t + (i + 1)) % Capacity
<1>. DEFINE s == (t + i) % Capacity
<1>. USE CapacityAssumption
<1>1. s \in Slot /\ s = IF t + i < Capacity THEN t + i ELSE t + i - Capacity
  BY SlotRange, SlotCases
<1>2. (s + 1) % Capacity = IF s + 1 < Capacity THEN s + 1 ELSE s + 1 - Capacity
  <2>1. 1 \in 0 .. Capacity
    OBVIOUS
  <2>. HIDE DEF s
  <2>2. QED
    BY <1>1, <2>1, SlotCases
<1>3. (t + (i + 1)) % Capacity
        = IF t + (i + 1) < Capacity THEN t + (i + 1) ELSE t + (i + 1) - Capacity
  <2>1. i + 1 \in 0 .. Capacity
    OBVIOUS
  <2>2. QED
    BY <2>1, SlotCases
<1>. HIDE DEF s
<1>4. QED
  BY <1>1, <1>2, <1>3 DEF Slot, s

LEMMA SlotShift ==
    ASSUME NEW t \in Slot, NEW i \in 0 .. Capacity - 1
    PROVE  (((t + 1) % Capacity) + i) % Capacity = (t + (i + 1)) % Capacity
<1>. DEFINE u == (t + 1) % Capacity
<1>. USE CapacityAssumption
<1>1. u \in Slot /\ u = IF t + 1 < Capacity THEN t + 1 ELSE t + 1 - Capacity
  <2>1. 1 \in 0 .. Capacity
    OBVIOUS
  <2>2. QED
    BY <2>1, SlotRange, SlotCases
<1>. HIDE DEF u
<1>2. (u + i) % Capacity = IF u + i < Capacity THEN u + i ELSE u + i - Capacity
  <2>1. i \in 0 .. Capacity
    OBVIOUS
  <2>2. QED
    BY <1>1, <2>1, SlotCases
<1>3. (t + (i + 1)) % Capacity
        = IF t + (i + 1) < Capacity THEN t + (i + 1) ELSE t + (i + 1) - Capacity
  <2>1. i + 1 \in 0 .. Capacity
    OBVIOUS
  <2>2. QED
    BY <2>1, SlotCases
<1>4. QED
  BY <1>1, <1>2, <1>3 DEF Slot, u

LEMMA SlotInjective ==
    ASSUME NEW t \in Slot,
           NEW i \in 0 .. Capacity - 1, NEW j \in 0 .. Capacity - 1,
           (t + i) % Capacity = (t + j) % Capacity
    PROVE  i = j
<1>. USE CapacityAssumption
<1>1. i \in 0 .. Capacity /\ j \in 0 .. Capacity
  OBVIOUS
<1>2. (t + i) % Capacity = IF t + i < Capacity THEN t + i ELSE t + i - Capacity
  BY <1>1, SlotCases
<1>3. (t + j) % Capacity = IF t + j < Capacity THEN t + j ELSE t + j - Capacity
  BY <1>1, SlotCases
<1>4. QED
  BY <1>2, <1>3 DEF Slot

-----------------------------------------------------------------------------
LEMMA RingInit == Init => RingInv
<1>. SUFFICES ASSUME Init PROVE RingInv
  OBVIOUS
<1>1. 0 % Capacity = 0
  BY ModSmall, CapacityAssumption
<1>2. QED
  BY <1>1 DEF Init, RingInv, SlotAt

LEMMA PushRing ==
    ASSUME TypeOK, RingInv, NEW e \in Event, PushStored(e)
    PROVE  RingInv'
<1>. USE CapacityAssumption
<1>1. capacity = Capacity /\ count \in 0 .. Capacity - 1 /\ tail \in Slot
  BY DEF TypeOK, PushStored
<1>2. /\ head = (tail + count) % Capacity /\ head \in Slot
      /\ events' = [events EXCEPT ![head] = e] /\ events \in [Slot -> Event \cup {NoEvent}]
      /\ head' = (head + 1) % Capacity
      /\ tail' = tail /\ count' = count + 1 /\ capacity' = capacity
  BY <1>1 DEF TypeOK, RingInv, SlotAt, PushStored
<1>3. head' = SlotAt(count)'
  BY <1>1, <1>2, SlotSucc DEF SlotAt
<1>4. ASSUME NEW i \in 0 .. count' - 1
      PROVE  events'[SlotAt(i)'] \in Event
  <2>1. CASE i = count
    BY <1>2, <2>1 DEF SlotAt
  <2>2. CASE i # count
    <3>1. i \in 0 .. count - 1 /\ i \in 0 .. Capacity - 1 /\ i \in 0 .. Capacity
      BY <1>1, <1>2, <2>2
    <3>2. (tail + i) % Capacity # head
      BY <1>1, <1>2, <2>2, <3>1, SlotInjective
    <3>3. (tail + i) % Capacity \in Slot
      BY <1>1, <3>1, SlotRange
    <3>4. events[SlotAt(i)] \in Event
      BY <3>1 DEF RingInv
    <3>5. QED
      BY <1>2, <3>2, <3>3, <3>4 DEF SlotAt
  <2>3. QED
    BY <2>1, <2>2
<1>5. QED
  BY <1>1, <1>2, <1>3, <1>4 DEF RingInv

LEMMA PopRing ==
    ASSUME TypeOK, RingInv, PopOldest
    PROVE  RingInv'
<1>. USE CapacityAssumption
<1>1. /\ capacity = Capacity /\ count \in 1 .. Capacity /\ tail \in Slot
      /\ head' = head /\ events' = events /\ capacity' = capacity
      /\ tail' = (tail + 1) % Capacity /\ count' = count - 1
  BY DEF TypeOK, PopOldest
<1>2. ASSUME NEW i \in 0 .. count'
      PROVE  SlotAt(i)' = SlotAt(i + 1)
  <2>1. i \in 0 .. Capacity - 1
    BY <1>1
  <2>2. QED
    BY <1>1, <2>1, SlotShift DEF SlotAt
<1>3. head' = SlotAt(count)'
  <2>1. SlotAt(count)' = SlotAt(count' + 1)
    <3>1. count' \in 0 .. count'
      BY <1>1
    <3>2. SlotAt(count)' = (tail' + count') % Capacity
      BY DEF SlotAt
    <3>3. (((tail + 1) % Capacity) + count') % Capacity = (tail + (count' + 1)) % Capacity
      BY <1>1, SlotShift
    <3>4. QED
      BY <1>1, <3>2, <3>3 DEF SlotAt
  <2>2. count' + 1 = count
    BY <1>1
  <2>3. QED
    BY <1>1, <2>1, <2>2 DEF RingInv
<1>4. ASSUME NEW i \in 0 .. count' - 1
      PROVE  events'[SlotAt(i)'] \in Event
  <2>1. i \in 0 .. count' /\ i + 1 \in 0 .. count - 1
    BY <1>1
  <2>2. SlotAt(i)' = SlotAt(i + 1)
    BY <1>2, <2>1
  <2>3. QED
    BY <1>1, <2>1, <2>2 DEF RingInv
<1>5. QED
  BY <1>1, <1>3, <1>4 DEF RingInv

LEMMA RingStep == TypeOK /\ RingInv /\ [Next]_vars => RingInv'
<1>. SUFFICES ASSUME TypeOK, RingInv, [Next]_vars PROVE RingInv'
  OBVIOUS
<1>1. CASE queue_init
  <2>1. 0 % Capacity = 0
    BY ModSmall, CapacityAssumption
  <2>2. QED
    BY <1>1, <2>1 DEF queue_init, RingInv, SlotAt
<1>2. CASE queue_destroy
  <2>1. 0 % Capacity = 0
    BY ModSmall, CapacityAssumption
  <2>2. QED
    BY <1>2, <2>1 DEF queue_destroy, RingInv, SlotAt
<1>3. ASSUME NEW e \in Event, queue_push(e) PROVE RingInv'
  <2>1. CASE PushFull
    BY <2>1 DEF PushFull, RingInv, SlotAt
  <2>2. CASE PushStored(e)
    BY <2>2, PushRing
  <2>3. QED
    BY <1>3, <2>1, <2>2 DEF queue_push
<1>4. CASE queue_pop
  <2>1. CASE PopEmpty
    BY <2>1 DEF PopEmpty, RingInv, SlotAt
  <2>2. CASE PopOldest
    BY <2>2, PopRing
  <2>3. QED
    BY <1>4, <2>1, <2>2 DEF queue_pop
<1>5. CASE queue_is_empty
  BY <1>5 DEF queue_is_empty, RingInv, SlotAt
<1>6. CASE queue_is_full
  BY <1>6 DEF queue_is_full, RingInv, SlotAt
<1>7. CASE queue_size
  BY <1>7 DEF queue_size, RingInv, SlotAt
<1>8. CASE UNCHANGED vars
  BY <1>8 DEF vars, RingInv, SlotAt
<1>9. QED
  BY <1>1, <1>2, <1>3, <1>4, <1>5, <1>6, <1>7, <1>8 DEF Next

\* The write index is always count slots after the read index and every slot
\* between them holds a pushed event, for every capacity: eponMgr_queue_pop
\* never hands out uninitialised or overwritten memory.
THEOREM RingCorrect == Spec => []RingInv
<1>1. Init => RingInv
  BY RingInit
<1>2. TypeOK /\ RingInv /\ [Next]_vars => RingInv'
  BY RingStep
<1>3. QED
  BY <1>1, <1>2, TypeCorrect, PTL DEF Spec

-----------------------------------------------------------------------------
(***************************************************************************)
(* The refinement.  What each operation does to the abstract sequence.     *)
(***************************************************************************)
LEMMA ContentsType ==
    ASSUME TypeOK, RingInv
    PROVE  Contents \in Seq(Event) /\ Len(Contents) = count
<1>1. count \in Nat
  BY CapacityAssumption DEF TypeOK
<1>2. ASSUME NEW i \in 1 .. count PROVE events[SlotAt(i - 1)] \in Event
  <2>1. i - 1 \in 0 .. count - 1
    BY <1>1
  <2>2. QED
    BY <2>1 DEF RingInv
<1>3. Contents \in [1 .. count -> Event]
  BY <1>2 DEF Contents
<1>4. QED
  BY <1>1, <1>3

LEMMA ContentsEmpty ==
    ASSUME TypeOK, RingInv
    PROVE  (Contents = <<>>) <=> (count = 0)
  BY ContentsType, CapacityAssumption, EmptySeq DEF TypeOK

LEMMA PushContents ==
    ASSUME TypeOK, RingInv, NEW e \in Event, PushStored(e)
    PROVE  Contents' = Append(Contents, e)
<1>. USE CapacityAssumption
<1>1. /\ count \in 0 .. Capacity - 1 /\ count' = count + 1
      /\ tail \in Slot /\ tail' = tail
      /\ head \in Slot /\ head = SlotAt(count)
      /\ events' = [events EXCEPT ![head] = e] /\ events \in [Slot -> Event \cup {NoEvent}]
  BY DEF TypeOK, RingInv, PushStored
<1>2. Contents \in Seq(Event) /\ Len(Contents) = count
  BY ContentsType
<1>3. Contents' = [i \in 1 .. count + 1 |-> events'[(tail + (i - 1)) % Capacity]]
  BY <1>1 DEF Contents, SlotAt
<1>4. /\ Append(Contents, e) \in Seq(Event) /\ Len(Append(Contents, e)) = count + 1
      /\ \A i \in 1 .. count : Append(Contents, e)[i] = Contents[i]
      /\ Append(Contents, e)[count + 1] = e
  BY <1>2, AppendProperties
<1>5. ASSUME NEW i \in 1 .. count + 1
      PROVE  events'[(tail + (i - 1)) % Capacity]
               = IF i = count + 1 THEN e ELSE Contents[i]
  <2>1. CASE i = count + 1
    BY <1>1, <2>1 DEF SlotAt
  <2>2. CASE i # count + 1
    <3>1. i \in 1 .. count /\ i - 1 \in 0 .. Capacity - 1 /\ i - 1 \in 0 .. Capacity
          /\ i - 1 # count /\ count \in 0 .. Capacity - 1
      BY <1>1, <2>2
    <3>2. (tail + (i - 1)) % Capacity # head
      BY <1>1, <3>1, SlotInjective DEF SlotAt
    <3>3. (tail + (i - 1)) % Capacity \in Slot
      BY <1>1, <3>1, SlotRange
    <3>4. Contents[i] = events[(tail + (i - 1)) % Capacity]
      BY <3>1 DEF Contents, SlotAt
    <3>5. QED
      BY <1>1, <2>2, <3>2, <3>3, <3>4
  <2>3. QED
    BY <2>1, <2>2
<1>6. Contents' \in Seq(Event) /\ Len(Contents') = count + 1
  <2>1. ASSUME NEW i \in 1 .. count + 1 PROVE Contents'[i] \in Event
    BY <1>2, <1>3, <1>4, <1>5, <2>1, ElementOfSeq
  <2>2. Contents' \in [1 .. count + 1 -> Event]
    BY <1>3, <2>1
  <2>3. count + 1 \in Nat
    BY <1>1
  <2>4. QED
    BY <2>2, <2>3
<1>7. \A i \in 1 .. count + 1 : Contents'[i] = Append(Contents, e)[i]
  BY <1>1, <1>3, <1>4, <1>5
<1>8. QED
  BY <1>4, <1>6, <1>7, SeqEqual

LEMMA PopContents ==
    ASSUME TypeOK, RingInv, PopOldest
    PROVE  /\ Contents # <<>>
           /\ Contents' = Tail(Contents)
           /\ events[tail] = Head(Contents)
<1>. USE CapacityAssumption
<1>1. /\ count \in 1 .. Capacity /\ count' = count - 1
      /\ tail \in Slot /\ tail' = (tail + 1) % Capacity
      /\ capacity = Capacity /\ events' = events
  BY DEF TypeOK, PopOldest
<1>2. Contents \in Seq(Event) /\ Len(Contents) = count
  BY ContentsType
<1>3. Contents # <<>>
  BY <1>1, ContentsEmpty
<1>4. /\ Tail(Contents) \in Seq(Event) /\ Len(Tail(Contents)) = count - 1
      /\ \A i \in 1 .. count - 1 : Tail(Contents)[i] = Contents[i + 1]
  BY <1>2, <1>3, HeadTailProperties
<1>5. Contents' = [i \in 1 .. count - 1 |-> events[(tail' + (i - 1)) % Capacity]]
  BY <1>1 DEF Contents, SlotAt
<1>6. ASSUME NEW i \in 1 .. count - 1
      PROVE  events[(tail' + (i - 1)) % Capacity] = Contents[i + 1]
  <2>1. i - 1 \in 0 .. Capacity - 1 /\ i + 1 \in 1 .. count
    BY <1>1
  <2>2. (((tail + 1) % Capacity) + (i - 1)) % Capacity = (tail + ((i - 1) + 1)) % Capacity
    BY <1>1, <2>1, SlotShift
  <2>3. Contents[i + 1] = events[(tail + ((i + 1) - 1)) % Capacity]
    BY <2>1 DEF Contents, SlotAt
  <2>4. (i - 1) + 1 = (i + 1) - 1
    BY <1>1
  <2>5. QED
    BY <1>1, <2>2, <2>3, <2>4
<1>7. Head(Contents) = events[tail]
  <2>1. 1 \in 1 .. count /\ 1 - 1 = 0
    BY <1>1
  <2>2. Contents[1] = events[(tail + 0) % Capacity]
    BY <2>1 DEF Contents, SlotAt
  <2>3. (tail + 0) % Capacity = tail
    <3>1. tail + 0 = tail /\ tail \in Nat /\ tail < Capacity
      BY <1>1 DEF Slot
    <3>2. QED
      BY <3>1, ModSmall
  <2>4. QED
    BY <1>2, <1>3, <2>2, <2>3
<1>8. Contents' \in Seq(Event) /\ Len(Contents') = count - 1
  <2>1. ASSUME NEW i \in 1 .. count - 1 PROVE Contents'[i] \in Event
    <3>1. i + 1 \in 1 .. Len(Contents)
      BY <1>1, <1>2
    <3>2. QED
      BY <1>2, <1>5, <1>6, <3>1, ElementOfSeq
  <2>2. Contents' \in [1 .. count - 1 -> Event]
    BY <1>5, <2>1
  <2>3. count - 1 \in Nat
    BY <1>1
  <2>4. QED
    BY <2>2, <2>3
<1>9. Contents' = Tail(Contents)
  <2>1. \A i \in 1 .. count - 1 : Contents'[i] = Tail(Contents)[i]
    BY <1>4, <1>5, <1>6
  <2>2. QED
    BY <1>4, <1>8, <2>1, SeqEqual
<1>10. QED
  BY <1>3, <1>7, <1>9

LEMMA InitRefines == Init => Fifo!FifoInit
<1>. SUFFICES ASSUME Init PROVE Fifo!FifoInit
  OBVIOUS
<1>1. Contents = <<>>
  BY TypeInit, RingInit, ContentsEmpty DEF Init
<1>2. QED
  BY <1>1 DEF Init, Fifo!FifoInit

LEMMA StepRefines ==
    TypeOK /\ RingInv /\ [Next]_vars => [Fifo!FifoNext]_(Fifo!fifoVars)
<1>. SUFFICES ASSUME TypeOK, RingInv, [Next]_vars
              PROVE  [Fifo!FifoNext]_(Fifo!fifoVars)
  OBVIOUS
<1>a. /\ Contents \in Seq(Event) /\ Len(Contents) = count
      /\ (Contents = <<>>) <=> (count = 0)
  BY ContentsType, ContentsEmpty
<1>b. capacity \in {0, Capacity} /\ count \in 0 .. Capacity /\ Capacity \in Nat \ {0}
  BY CapacityAssumption DEF TypeOK
<1>c. ASSUME UNCHANGED <<events, tail, count>> PROVE Contents' = Contents
  BY <1>c DEF Contents, SlotAt
<1>d. ASSUME count' = 0 PROVE Contents' = <<>>
  <2>1. 1 .. count' = {}
    BY <1>d
  <2>2. QED
    BY <2>1 DEF Contents
<1>1. CASE queue_init
  <2>1. Contents' = <<>>
    BY <1>1, <1>d DEF queue_init
  <2>2. Fifo!Create
    BY <1>1, <1>b, <2>1 DEF queue_init, Returns, Fifo!Create, Fifo!Returns
  <2>3. QED
    BY <2>2 DEF Fifo!FifoNext
<1>2. CASE queue_destroy
  <2>1. Contents' = <<>>
    BY <1>2, <1>d DEF queue_destroy
  <2>2. Fifo!Discard
    BY <1>2, <2>1 DEF queue_destroy, Fifo!Discard
  <2>3. QED
    BY <2>2 DEF Fifo!FifoNext
<1>3. ASSUME NEW e \in Event, queue_push(e) PROVE Fifo!FifoNext
  <2>1. CASE PushFull
    <3>1. Contents' = Contents
      BY <2>1, <1>c DEF PushFull
    <3>2. Len(Contents) = Capacity /\ capacity # 0
      BY <2>1, <1>a, <1>b DEF PushFull
    <3>3. Fifo!Refuse
      BY <2>1, <3>1, <3>2 DEF PushFull, Returns, Fifo!Refuse, Fifo!Returns
    <3>4. QED
      BY <3>3 DEF Fifo!FifoNext
  <2>2. CASE PushStored(e)
    <3>1. Contents' = Append(Contents, e)
      BY <2>2, PushContents
    <3>2. Len(Contents) < Capacity /\ capacity # 0
      BY <2>2, <1>a, <1>b DEF PushStored
    <3>3. Fifo!Enqueue(e)
      BY <2>2, <3>1, <3>2 DEF PushStored, Returns, Fifo!Enqueue, Fifo!Returns
    <3>4. QED
      BY <3>3 DEF Fifo!FifoNext
  <2>3. QED
    BY <1>3, <2>1, <2>2 DEF queue_push
<1>4. CASE queue_pop
  <2>1. CASE PopEmpty
    <3>1. Contents' = Contents /\ Contents = <<>>
      BY <2>1, <1>a, <1>c DEF PopEmpty
    <3>2. Fifo!FoundEmpty
      BY <2>1, <3>1 DEF PopEmpty, Returns, Fifo!FoundEmpty, Fifo!Returns
    <3>3. QED
      BY <3>2 DEF Fifo!FifoNext
  <2>2. CASE PopOldest
    <3>1. Fifo!Dequeue
      BY <2>2, PopContents DEF PopOldest, Returns, Fifo!Dequeue, Fifo!Returns
    <3>2. QED
      BY <3>1 DEF Fifo!FifoNext
  <2>3. QED
    BY <1>4, <2>1, <2>2 DEF queue_pop
<1>5. CASE queue_is_empty \/ queue_is_full \/ queue_size
  <2>1. Contents' = Contents /\ capacity' = capacity /\ capacity # 0
    BY <1>5, <1>c DEF queue_is_empty, queue_is_full, queue_size
  <2>2. count >= capacity <=> Len(Contents) = Capacity
    BY <2>1, <1>a, <1>b
  <2>3. Fifo!Observe
    BY <1>5, <2>1, <2>2, <1>a
    DEF queue_is_empty, queue_is_full, queue_size, Returns, Fifo!Observe, Fifo!Returns
  <2>4. QED
    BY <2>3 DEF Fifo!FifoNext
<1>6. CASE UNCHANGED vars
  BY <1>6, <1>c DEF vars, Fifo!fifoVars
<1>7. QED
  BY <1>1, <1>2, <1>3, <1>4, <1>5, <1>6 DEF Next

\* eponMgr_queue.c implements a bounded FIFO for every capacity and every set
\* of events: what the controller pops is what HAL callbacks pushed, in order.
THEOREM RefinesFifo == Spec => ImplementsFifo
<1>1. Init => Fifo!FifoInit
  BY InitRefines
<1>2. TypeOK /\ RingInv /\ [Next]_vars => [Fifo!FifoNext]_(Fifo!fifoVars)
  BY StepRefines
<1>3. QED
  BY <1>1, <1>2, TypeCorrect, RingCorrect, PTL
  DEF Spec, ImplementsFifo, Fifo!FifoSpec
=============================================================================
