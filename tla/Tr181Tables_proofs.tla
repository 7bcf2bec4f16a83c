------------------------- MODULE Tr181Tables_proofs -------------------------
(***************************************************************************)
(* Proofs about Tr181Tables, for tables of any size, lists of any length   *)
(* and any number of changes of the HAL's list.  How far a sync has got    *)
(* decides which rows the bus has been asked for.                          *)
(***************************************************************************)
EXTENDS Tr181Tables, TLAPS

\* The points at which the HAL has answered this GET.
Delivered == {"sync_changed", "sync", "answer"}

\* A GET under way has not been answered yet, has not been delivered a list at its
\* beginning, and asks for a row the table has.
RequestInv ==
    /\ pc # "idle" => answer.kind = "none"
    /\ pc = "refresh" => ~refreshed
    /\ pc # "idle" /\ request.kind = "row" => request.row \in Instance

\* After the HAL's answer the list is the one it delivered, or has no entries.
ListInv ==
    pc \in Delivered =>
        IF refreshed
          THEN list.count = seen.len /\ list.len = seen.len /\ list.gen = seen.gen
          ELSE list.len = 0

Asked == busRows \cup refused

\* The rows before the one a sync is at are registered or were refused; when it is
\* done these are all rows of the list that fit the table.
SyncInv ==
    refreshed /\ main = "up" =>
        /\ pc \in {"sync_changed", "sync"} => \A i \in Instance : i < row => i \in Asked
        /\ pc = "answer" => \A i \in Instance : i <= SyncEnd => i \in Asked

IInv ==
    /\ TypeOK /\ RequestInv /\ ListInv /\ SyncInv
    /\ FlagsMatchBus /\ CountIsBacked /\ RowFromThisRefresh

-----------------------------------------------------------------------------
LEMMA TableBounds ==
    ASSUME TypeOK
    PROVE  /\ Rows[table] \in Nat /\ Answered[table] \in Nat
           /\ row \in Nat /\ list.count \in Nat /\ list.len \in Nat
           /\ hal.len \in 0 .. MaxEntries /\ hal.gen \in 0 .. MaxGen
           /\ seen.len \in Nat
  BY TableAssumption DEF TypeOK

\* A sync stays within the list and within the table.
LEMMA SyncWithin ==
    ASSUME TypeOK, Syncing
    PROVE  row \in Instance /\ row <= list.count /\ row + 1 \in 1 .. Rows[table] + 1
  BY TableBounds DEF TypeOK, Syncing, SyncEnd, Lesser, Instance

\* TypeOK without the one plain Boolean.
Typed ==
    /\ table \in Table
    /\ hal \in [len : 0 .. MaxEntries, gen : 0 .. MaxGen]
    /\ list \in [count : 0 .. MaxEntries, len : 0 .. MaxEntries, gen : 0 .. MaxGen]
    /\ count_cache \in 0 .. MaxEntries
    /\ registered \subseteq Instance /\ busRows \subseteq Instance
    /\ main \in {"up", "cleaning", "gone"}
    /\ pc \in {"idle", "refresh", "sync_changed", "sync", "answer"}
    /\ request.kind \in {"none", "count", "row"}
    /\ row \in 1 .. Rows[table] + 1
    /\ seen \in [len : 0 .. MaxEntries, gen : 0 .. MaxGen]
    /\ refused \subseteq Instance
    /\ answer.kind \in {"none", "param", "count", "row"}

LEMMA TypeParts == TypeOK <=> Typed /\ refreshed \in BOOLEAN
  BY DEF TypeOK, Typed

\* What is left of the list before the HAL is asked, and when it has failed.
LEMMA FreedEmpty ==
    ASSUME list \in [count : 0 .. MaxEntries, len : 0 .. MaxEntries, gen : 0 .. MaxGen]
    PROVE  /\ Freed \in [count : 0 .. MaxEntries, len : 0 .. MaxEntries, gen : 0 .. MaxGen]
           /\ Freed.len = 0
<1>1. 0 \in 0 .. MaxEntries
  BY TableAssumption
<1>2. CASE list.len > 0
  BY <1>1, <1>2 DEF Freed
<1>3. CASE ~(list.len > 0)
  <2>1. Freed = list /\ list.len = 0
    BY <1>3, TableAssumption DEF Freed
  <2>2. QED
    BY <2>1
<1>4. QED
  BY <1>2, <1>3

LEMMA FailLeavesNothing ==
    ASSUME TypeOK, RefreshFails
    PROVE  /\ list' \in [count : 0 .. MaxEntries, len : 0 .. MaxEntries, gen : 0 .. MaxGen]
           /\ list'.len = 0
<1>. DEFINE L == [count : 0 .. MaxEntries, len : 0 .. MaxEntries, gen : 0 .. MaxGen]
<1>1. list \in L /\ hal.len \in 0 .. MaxEntries /\ 0 \in 0 .. MaxEntries
  BY TableAssumption DEF TypeOK
<1>2. Freed \in L /\ Freed.len = 0
  BY <1>1, FreedEmpty
<1>3. \/ list' = Freed
      \/ list' = [Freed EXCEPT !.count = hal.len, !.len = 0]
  BY DEF RefreshFails
<1>. HIDE DEF Freed
<1>4. QED
  BY <1>1, <1>2, <1>3

LEMMA TypeInit == Init => TypeOK
<1>. SUFFICES ASSUME Init PROVE TypeOK
  OBVIOUS
<1>1. refreshed \in BOOLEAN
  BY DEF Init
<1>2. Rows[table] \in Nat
  BY TableAssumption DEF Init
<1>3. hal \in [len : 0 .. MaxEntries, gen : 0 .. MaxGen]
  BY TableAssumption DEF Init
<1>4. Typed
  BY <1>2, <1>3, TableAssumption DEF Init, Typed, NoRequest, NoAnswer
<1>5. QED
  BY <1>1, <1>4, TypeParts

LEMMA TypeStep ==
    ASSUME TypeOK, [Next]_vars
    PROVE  TypeOK'
<1>1. refreshed' \in BOOLEAN
  BY DEF TypeOK, Next, HalChanges, GetParam, GetTable, Refresh, RefreshFails, Sync,
         RegisterRow, RefuseRow, SkipRow, SyncDone, AnswerCount, AnswerRow, Reply,
         CleanupRows, CleanupElements, vars, handlerVars
<1>2. Typed'
  <2>. USE TableBounds, TableAssumption DEF Typed, Instance
  <2>0. Typed
    BY TypeParts
  <2>1. CASE HalChanges
    BY <2>0, <2>1 DEF HalChanges, handlerVars
  <2>2. CASE GetParam \/ GetTable
    <3>1. request'.kind \in {"none", "count", "row"} /\ answer'.kind \in {"none", "param"}
      BY <2>0, <2>2 DEF GetParam, GetTable, NoAnswer
    <3>2. QED
      BY <2>0, <2>2, <3>1 DEF GetParam, GetTable
  <2>3. CASE Refresh \/ RefreshFails
    <3>1. CASE Refresh
      BY <2>0, <3>1 DEF Refresh
    <3>2. CASE RefreshFails
      <4>1. list' \in [count : 0 .. MaxEntries, len : 0 .. MaxEntries, gen : 0 .. MaxGen]
        BY <3>2, FailLeavesNothing
      <4>2. QED
        BY <2>0, <3>2, <4>1 DEF RefreshFails
    <3>3. QED
      BY <2>3, <3>1, <3>2
  <2>4. CASE RegisterRow \/ RefuseRow \/ SkipRow
    BY <2>0, <2>4, SyncWithin DEF RegisterRow, RefuseRow, SkipRow
  <2>5. CASE SyncDone \/ AnswerCount \/ AnswerRow
    BY <2>0, <2>5 DEF SyncDone, AnswerCount, AnswerRow, Reply
  <2>6. CASE CleanupRows \/ CleanupElements
    BY <2>0, <2>6 DEF CleanupRows, CleanupElements, handlerVars
  <2>7. CASE UNCHANGED vars
    BY <2>0, <2>7 DEF vars, handlerVars
  <2>8. QED
    BY <2>1, <2>2, <2>3, <2>4, <2>5, <2>6, <2>7 DEF Next, Sync
<1>3. QED
  BY <1>1, <1>2 DEF TypeOK, Typed

\* The tables' state stays within its types: no row beyond the table is ever
\* registered, however long the HAL's list is.
THEOREM TypeCorrect == Spec => []TypeOK
<1>1. TypeOK /\ [Next]_vars => TypeOK'
  BY TypeStep
<1>2. QED
  BY TypeInit, <1>1, PTL DEF Spec

-----------------------------------------------------------------------------
(***************************************************************************)
(* The GET under way.                                                      *)
(***************************************************************************)
LEMMA RequestStep ==
    ASSUME TypeOK, RequestInv, [Next]_vars
    PROVE  RequestInv'
<1>. USE DEF RequestInv, Instance
<1>1. CASE GetTable
  BY <1>1 DEF GetTable, NoAnswer, TypeOK
<1>2. CASE HalChanges \/ CleanupRows \/ CleanupElements \/ UNCHANGED vars
  BY <1>2 DEF HalChanges, CleanupRows, CleanupElements, vars, handlerVars
<1>3. CASE GetParam \/ AnswerCount \/ AnswerRow
  BY <1>3 DEF GetParam, AnswerCount, AnswerRow, Reply
<1>4. CASE \/ Refresh \/ RefreshFails \/ RegisterRow \/ RefuseRow \/ SkipRow \/ SyncDone
  BY <1>4 DEF Refresh, RefreshFails, RegisterRow, RefuseRow, SkipRow, SyncDone, Syncing
<1>5. QED
  BY <1>1, <1>2, <1>3, <1>4 DEF Next, Sync

LEMMA ListStep ==
    ASSUME TypeOK, RequestInv, ListInv, [Next]_vars
    PROVE  ListInv'
<1>. USE DEF ListInv, Delivered
<1>1. CASE GetTable \/ AnswerCount \/ AnswerRow \/ GetParam
  BY <1>1 DEF GetTable, AnswerCount, AnswerRow, Reply, GetParam
<1>2. CASE Refresh
  BY <1>2 DEF Refresh, TypeOK
<1>3. CASE RefreshFails
  <2>1. ~refreshed /\ refreshed' = refreshed
    BY <1>3 DEF RefreshFails, RequestInv
  <2>2. list'.len = 0
    BY <1>3, FailLeavesNothing
  <2>3. QED
    BY <2>1, <2>2
<1>4. CASE \/ RegisterRow \/ RefuseRow \/ SkipRow \/ SyncDone
  BY <1>4 DEF RegisterRow, RefuseRow, SkipRow, SyncDone, Syncing
<1>5. CASE HalChanges \/ CleanupRows \/ CleanupElements \/ UNCHANGED vars
  BY <1>5 DEF HalChanges, CleanupRows, CleanupElements, vars, handlerVars
<1>6. QED
  BY <1>1, <1>2, <1>3, <1>4, <1>5 DEF Next, Sync

LEMMA SyncStep ==
    ASSUME IInv, [Next]_vars
    PROVE  SyncInv'
<1>. USE DEF SyncInv, Asked, Instance
<1>0. TypeOK /\ ListInv /\ SyncInv /\ FlagsMatchBus
  BY DEF IInv
<1>1. CASE GetTable \/ AnswerCount \/ AnswerRow \/ GetParam \/ CleanupRows \/ CleanupElements
  BY <1>0, <1>1
     DEF GetTable, AnswerCount, AnswerRow, Reply, GetParam, CleanupRows, CleanupElements,
         TypeOK, handlerVars
<1>2. CASE Refresh \/ RefreshFails
  <2>1. row' = 1 /\ pc' \in {"sync_changed", "sync"} /\ table' = table
    BY <1>2 DEF Refresh, RefreshFails
  <2>2. \A i \in Instance : ~(i < 1)
    BY <1>0, TableBounds
  <2>3. QED
    BY <2>1, <2>2
<1>3. CASE RegisterRow \/ RefuseRow
  <2>1. /\ row \in Nat /\ row' = row + 1 /\ pc' = pc /\ pc \in {"sync_changed", "sync"}
        /\ Asked' = Asked \cup {row} /\ main' = main /\ refreshed' = refreshed
        /\ table' = table
    BY <1>3, <1>0, TableBounds DEF RegisterRow, RefuseRow, Syncing
  <2>2. ASSUME NEW i \in Instance, i < row + 1 PROVE i < row \/ i = row
    BY <2>1, <2>2, TableBounds, <1>0
  <2>3. QED
    BY <1>0, <2>1, <2>2
<1>4. CASE SkipRow
  <2>1. /\ row \in Instance /\ row <= list.count /\ row' = row + 1
        /\ pc' = pc /\ pc \in {"sync_changed", "sync"}
        /\ Asked' = Asked /\ main' = main /\ refreshed' = refreshed /\ table' = table
    BY <1>4, <1>0, SyncWithin DEF SkipRow, Syncing
  <2>2. refreshed /\ main = "up" => row \in Asked
    BY <1>0, <1>4, <2>1 DEF SkipRow, Missing, ListInv, Delivered, FlagsMatchBus
  <2>3. ASSUME NEW i \in Instance, i < row + 1 PROVE i < row \/ i = row
    BY <2>1, <2>3, TableBounds, <1>0
  <2>4. QED
    BY <1>0, <2>1, <2>2, <2>3
<1>5. CASE SyncDone
  <2>1. /\ row' = 1 /\ pc \in {"sync_changed", "sync"}
        /\ pc' \in {"sync", "answer"}
        /\ main = "up" => row > SyncEnd
        /\ Asked' = Asked /\ main' = main /\ refreshed' = refreshed
        /\ UNCHANGED <<table, list>>
    BY <1>5 DEF SyncDone
  <2>2. SyncEnd' = SyncEnd /\ SyncEnd \in Nat /\ row \in Nat
    BY <1>0, <2>1, TableBounds DEF SyncEnd, Lesser
  <2>3. ASSUME NEW i \in Instance, i <= SyncEnd, row > SyncEnd PROVE i < row
    BY <2>2, <2>3, TableBounds, <1>0
  <2>4. QED
    BY <1>0, <2>1, <2>2, <2>3, TableBounds
<1>6. CASE HalChanges \/ UNCHANGED vars
  BY <1>0, <1>6 DEF HalChanges, vars, handlerVars, SyncEnd
<1>7. QED
  BY <1>1, <1>2, <1>3, <1>4, <1>5, <1>6 DEF Next, Sync

-----------------------------------------------------------------------------
(***************************************************************************)
(* What the properties say.                                                *)
(***************************************************************************)
LEMMA FlagsStep ==
    ASSUME FlagsMatchBus, [Next]_vars
    PROVE  FlagsMatchBus'
<1>. USE DEF FlagsMatchBus
<1>1. CASE RegisterRow
  BY <1>1 DEF RegisterRow
<1>2. CASE CleanupRows \/ CleanupElements
  BY <1>2 DEF CleanupRows, CleanupElements
<1>3. CASE \/ HalChanges \/ GetParam \/ GetTable \/ Refresh \/ RefreshFails \/ RefuseRow
           \/ SkipRow \/ SyncDone \/ AnswerCount \/ AnswerRow \/ UNCHANGED vars
  BY <1>3 DEF HalChanges, GetParam, GetTable, Refresh, RefreshFails, RefuseRow, SkipRow,
              SyncDone, AnswerCount, AnswerRow, Reply, vars
<1>4. QED
  BY <1>1, <1>2, <1>3 DEF Next, Sync

LEMMA CountStep ==
    ASSUME IInv, [Next]_vars
    PROVE  CountIsBacked'
<1>0. TypeOK /\ RequestInv /\ ListInv /\ SyncInv /\ CountIsBacked
  BY DEF IInv
<1>1. CASE AnswerCount
  <2>1. /\ answer' = [kind |-> "count", status |-> "ok", count |-> list.count]
        /\ pc = "answer" /\ UNCHANGED <<table, busRows, refused, refreshed, seen, main>>
    BY <1>1 DEF AnswerCount, Reply
  <2>2. ASSUME refreshed, main = "up"
        PROVE  /\ list.count = seen.len
               /\ 1 .. Lesser(list.count, Rows[table]) \subseteq busRows \cup refused
    <3>1. 1 .. Lesser(list.count, Rows[table]) \subseteq Instance
      BY <1>0, TableBounds DEF Instance, Lesser
    <3>2. \A i \in 1 .. Lesser(list.count, Rows[table]) : i <= SyncEnd
      BY <1>0, TableBounds DEF SyncEnd, Lesser
    <3>3. QED
      BY <1>0, <2>1, <2>2, <3>1, <3>2 DEF SyncInv, ListInv, Delivered, Asked
  <2>3. QED
    BY <2>1, <2>2 DEF CountIsBacked
<1>2. CASE AnswerRow \/ GetParam \/ GetTable
  <2>1. answer'.kind # "count"
    BY <1>2 DEF AnswerRow, Reply, GetParam, GetTable, NoAnswer
  <2>2. QED
    BY <2>1 DEF CountIsBacked
<1>3. CASE Refresh \/ RefreshFails \/ RegisterRow \/ RefuseRow \/ SkipRow \/ SyncDone
  <2>1. answer' = answer /\ pc # "idle"
    BY <1>3 DEF Refresh, RefreshFails, RegisterRow, RefuseRow, SkipRow, SyncDone, Syncing
  <2>2. QED
    BY <1>0, <2>1 DEF CountIsBacked, RequestInv
<1>4. CASE HalChanges \/ CleanupRows \/ CleanupElements \/ UNCHANGED vars
  BY <1>0, <1>4
     DEF HalChanges, CleanupRows, CleanupElements, vars, handlerVars, CountIsBacked
<1>5. QED
  BY <1>1, <1>2, <1>3, <1>4 DEF Next, Sync

LEMMA RowStep ==
    ASSUME IInv, [Next]_vars
    PROVE  RowFromThisRefresh'
<1>0. TypeOK /\ RequestInv /\ ListInv /\ RowFromThisRefresh
  BY DEF IInv
<1>1. CASE AnswerRow
  <2>1. /\ pc = "answer" /\ request.row \in Instance
        /\ UNCHANGED <<table, refreshed, seen>>
        /\ request.row \in Nat /\ request.row >= 1
    BY <1>0, <1>1, TableBounds DEF AnswerRow, Reply, RequestInv, Instance
  <2>. DEFINE i == request.row
  <2>2. CASE i > Answered[table]
    <3>1. answer' = [kind |-> "row", row |-> i, status |-> "invalid_input"]
      BY <1>0, <1>1, <2>1, <2>2, TableBounds DEF AnswerRow, Reply
    <3>2. ~(i <= Lesser(seen.len, Answered[table]))
      BY <1>0, <2>1, <2>2, TableBounds DEF Lesser, TypeOK
    <3>3. QED
      BY <2>1, <3>1, <3>2 DEF RowFromThisRefresh
  <2>3. CASE i <= Answered[table] /\ i > Lesser(list.count, list.len)
    <3>1. answer' = [kind |-> "row", row |-> i, status |-> "does_not_exist"]
      BY <1>0, <1>1, <2>1, <2>3, TableBounds DEF AnswerRow, Reply
    <3>2. refreshed => ~(i <= Lesser(seen.len, Answered[table]))
      BY <1>0, <2>1, <2>3, TableBounds DEF Lesser, ListInv, Delivered
    <3>3. QED
      BY <2>1, <3>1, <3>2 DEF RowFromThisRefresh
  <2>4. CASE i <= Answered[table] /\ ~(i > Lesser(list.count, list.len))
    <3>1. answer' = [kind |-> "row", row |-> i, status |-> "ok", gen |-> list.gen]
      BY <1>0, <1>1, <2>1, <2>4, TableBounds DEF AnswerRow, Reply
    <3>2. refreshed /\ i <= Lesser(seen.len, Answered[table]) /\ list.gen = seen.gen
      BY <1>0, <2>1, <2>4, TableBounds DEF Lesser, ListInv, Delivered
    <3>3. QED
      BY <2>1, <3>1, <3>2 DEF RowFromThisRefresh
  <2>5. QED
    BY <1>0, <2>1, <2>2, <2>3, <2>4, TableBounds
<1>2. CASE AnswerCount \/ GetParam \/ GetTable
  <2>1. answer'.kind # "row"
    BY <1>2 DEF AnswerCount, Reply, GetParam, GetTable, NoAnswer
  <2>2. QED
    BY <2>1 DEF RowFromThisRefresh
<1>3. CASE Refresh \/ RefreshFails \/ RegisterRow \/ RefuseRow \/ SkipRow \/ SyncDone
  <2>1. answer' = answer /\ pc # "idle"
    BY <1>3 DEF Refresh, RefreshFails, RegisterRow, RefuseRow, SkipRow, SyncDone, Syncing
  <2>2. QED
    BY <1>0, <2>1 DEF RowFromThisRefresh, RequestInv
<1>4. CASE HalChanges \/ CleanupRows \/ CleanupElements \/ UNCHANGED vars
  BY <1>0, <1>4
     DEF HalChanges, CleanupRows, CleanupElements, vars, handlerVars, RowFromThisRefresh
<1>5. QED
  BY <1>1, <1>2, <1>3, <1>4 DEF Next, Sync

LEMMA Invariance == Spec => []IInv
<1>1. Init => IInv
  <2>. SUFFICES ASSUME Init PROVE IInv
    OBVIOUS
  <2>1. RequestInv /\ ListInv /\ FlagsMatchBus
    BY DEF Init, RequestInv, ListInv, Delivered, FlagsMatchBus, NoAnswer
  <2>2. SyncInv /\ CountIsBacked /\ RowFromThisRefresh
    BY DEF Init, SyncInv, CountIsBacked, RowFromThisRefresh, NoAnswer
  <2>3. QED
    BY <2>1, <2>2, TypeInit DEF IInv
<1>2. IInv /\ [Next]_vars => IInv'
  BY TypeStep, RequestStep, ListStep, SyncStep, FlagsStep, CountStep, RowStep DEF IInv
<1>3. QED
  BY <1>1, <1>2, PTL DEF Spec

\* A row is marked registered exactly when the bus has it, for tables of any size
\* and whichever registrations the bus refuses.
THEOREM FlagsAgree == Spec => []FlagsMatchBus
<1>1. IInv => FlagsMatchBus
  BY DEF IInv
<1>2. QED
  BY <1>1, Invariance, PTL

\* Behind the number of entries a client is told there are rows it can read, or
\* rows the bus refused to this GET, whatever the length of the list and the table.
THEOREM CountBacked == Spec => []CountIsBacked
<1>1. IInv => CountIsBacked
  BY DEF IInv
<1>2. QED
  BY <1>1, Invariance, PTL

\* A row is answered from the list the HAL delivered to this GET, and is refused
\* when there is none, however often the HAL's list changes.
THEOREM RowsAreFresh == Spec => []RowFromThisRefresh
<1>1. IInv => RowFromThisRefresh
  BY DEF IInv
<1>2. QED
  BY <1>1, Invariance, PTL
=============================================================================
