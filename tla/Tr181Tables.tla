---------------------------- MODULE Tr181Tables ----------------------------
(***************************************************************************)
(* The GET handlers of eponMgr_tr181.c.  Most look one value up; the       *)
(* handlers of the dynamic tables LLID and DPOE.CPE first read the list    *)
(* from the HAL anew, register the rows the bus does not know yet, and     *)
(* then answer.  They hold the data context's mutex from beginning to end, *)
(* so one GET is under way at a time; the HAL may change its list, and the *)
(* main thread shut the TR-181 interface down, which takes no mutex, at    *)
(* any time.                                                               *)
(*                                                                         *)
(* A list is known by its generation: entry i of generation g.             *)
(***************************************************************************)
EXTENDS Tr181Params

CONSTANTS Table,         \* "llid", "cpe", "none": what a behaviour follows, one
                         \* of the tables or the parameters outside the tables,
                         \* which share no state
          Rows,          \* rows that can be registered; 64 and 256
          Answered,      \* rows the handler accepts; 32 and 256
          MaxEntries,    \* bound: entries in the HAL's list
          MaxGen         \* bound: how often the HAL changes its list

ASSUME TableAssumption ==
    /\ Rows \in [Table -> Nat]
    /\ Answered \in [Table -> Nat]
    /\ MaxEntries \in Nat \ {0} /\ MaxGen \in Nat

VARIABLES
    table,
    hal,          \* the HAL's list: how long it is, and its generation
    list,         \* the list in eponMgr_data_t: its count, and what is allocated
    count_cache,  \* llid_count_cache, cpe_count_cache
    registered,   \* the instances with registered = true
    busRows,      \* the rows the bus library knows
    main,         \* how far the shutdown of TR-181 is
    pc,           \* where the GET handler is
    request,
    row,          \* the row sync is at
    refreshed,    \* the HAL delivered its list to this GET
    seen,         \* history: the HAL's list when this GET read it
    refused,      \* history: rows the bus refused to this GET
    answer

handlerVars == <<pc, request, row, refreshed, seen, refused, answer>>
vars == <<table, hal, list, count_cache, registered, busRows, main, handlerVars>>

Lesser(a, b) == IF a <= b THEN a ELSE b
Instance == 1 .. Rows[table]

NoRequest == [kind |-> "none"]
NoAnswer == [kind |-> "none"]
Param == [handler : Handler, name : UNION {Name(h) : h \in Handler}]

Init ==
    /\ table \in Table
    /\ hal \in [len : 0 .. MaxEntries, gen : {0}]
    /\ list = [count |-> 0, len |-> 0, gen |-> 0]
    /\ count_cache = 0
    /\ registered = {} /\ busRows = {}
    /\ main = "up"
    /\ pc = "idle" /\ request = NoRequest /\ row = 1
    /\ refreshed = FALSE /\ seen = [len |-> 0, gen |-> 0] /\ refused = {}
    /\ answer = NoAnswer

-----------------------------------------------------------------------------
HalChanges ==
    /\ hal.gen < MaxGen
    /\ \E n \in 0 .. MaxEntries : hal' = [len |-> n, gen |-> hal.gen + 1]
    /\ UNCHANGED <<table, list, count_cache, registered, busRows, main, handlerVars>>

-----------------------------------------------------------------------------
\* A handler without a table: the value is read, from a cache or the HAL, which
\* may fail.
GetParam ==
    /\ pc = "idle" /\ main # "gone" /\ table = "none"
    /\ \E h \in Handler : \E n \in Name(h) :
          \/ answer' = [kind |-> "param", status |-> "ok",
                        name |-> n, field |-> FieldRead(h, n)]
          \/ /\ h \in {"optical", "stats", "transceiver", "manufacturer", "olt", "poller"}
             /\ answer' = [kind |-> "param", status |-> "bus_error"]
    /\ UNCHANGED <<table, hal, list, count_cache, registered, busRows, main,
                   pc, request, row, refreshed, seen, refused>>

\* A GET of the number of entries, or of a row, which the bus routes to the
\* handler only if it knows the row.
GetTable ==
    /\ pc = "idle" /\ main # "gone" /\ table # "none"
    /\ request' \in {[kind |-> "count"]} \cup {[kind |-> "row", row |-> i] : i \in busRows}
    /\ pc' = "refresh"
    /\ refreshed' = FALSE /\ refused' = {} /\ answer' = NoAnswer
    /\ UNCHANGED <<table, hal, list, count_cache, registered, busRows, main, row, seen>>

\* eponMgr_data_get_llid_info, eponMgr_data_get_cpe_mac_table: an allocated list
\* is freed first.
Freed == IF list.len > 0 THEN [list EXCEPT !.count = 0, !.len = 0] ELSE list

\* Variant with a fault: the old list stays until there is a new one.
RefreshFailsKeepingList ==
    /\ pc = "refresh"
    /\ UNCHANGED list
    /\ pc' = "sync" /\ row' = 1
    /\ seen' = [len |-> hal.len, gen |-> hal.gen]
    /\ UNCHANGED <<table, hal, count_cache, registered, busRows, main,
                   request, refreshed, refused, answer>>

Refresh ==
    /\ pc = "refresh"
    /\ list' = [count |-> hal.len, len |-> hal.len, gen |-> hal.gen]
    /\ count_cache' = hal.len
    /\ pc' = IF hal.len # count_cache THEN "sync_changed" ELSE "sync"
    /\ row' = 1
    /\ refreshed' = TRUE /\ seen' = hal
    /\ UNCHANGED <<table, hal, registered, busRows, main, request, refused, answer>>

\* The HAL fails before it writes anything, or after it wrote the count and found
\* no memory for the list.
RefreshFails ==
    /\ pc = "refresh"
    /\ list' \in {Freed, [Freed EXCEPT !.count = hal.len, !.len = 0]}
    /\ pc' = "sync" /\ row' = 1
    /\ seen' = hal
    /\ UNCHANGED <<table, hal, count_cache, registered, busRows, main,
                   request, refreshed, refused, answer>>

-----------------------------------------------------------------------------
(***************************************************************************)
(* eponMgr_tr181_sync_llid_table, eponMgr_tr181_sync_cpe_table, row after  *)
(* row.  The first call comes from the refresh that saw another count, the *)
(* second from the handler.                                                *)
(***************************************************************************)
SyncPastTable == list.count    \* variant with a fault: the table's size is not tested
SyncEnd == Lesser(list.count, Rows[table])
Syncing == pc \in {"sync_changed", "sync"} /\ row <= SyncEnd
Missing(i) == i \notin registered /\ i <= list.len

\* Variant with a fault: what the bus refused counts as registered.
RefuseRowForGood ==
    /\ Syncing /\ Missing(row)
    /\ registered' = registered \cup {row}
    /\ refused' = refused \cup {row}
    /\ row' = row + 1
    /\ UNCHANGED <<table, hal, list, count_cache, busRows, main,
                   pc, request, refreshed, seen, answer>>

RegisterRow ==
    /\ Syncing /\ Missing(row)
    /\ main # "gone" /\ row \notin busRows
    /\ registered' = registered \cup {row}
    /\ busRows' = busRows \cup {row}
    /\ row' = row + 1
    /\ UNCHANGED <<table, hal, list, count_cache, main,
                   pc, request, refreshed, seen, refused, answer>>

\* The bus may refuse a row; the instance stays unregistered and the next sync
\* tries again.
RefuseRow ==
    /\ Syncing /\ Missing(row)
    /\ refused' = refused \cup {row}
    /\ row' = row + 1
    /\ UNCHANGED <<table, hal, list, count_cache, registered, busRows, main,
                   pc, request, refreshed, seen, answer>>

SkipRow ==
    /\ Syncing /\ ~Missing(row)
    /\ row' = row + 1
    /\ UNCHANGED <<table, hal, list, count_cache, registered, busRows, main,
                   pc, request, refreshed, seen, refused, answer>>

\* Variant with a fault: the handler relies on the sync of the refresh.
HandlerSkipsSync ==
    /\ pc \in {"sync_changed", "sync"}
    /\ pc = "sync_changed" => row > SyncEnd
    /\ pc' = "answer" /\ row' = 1
    /\ UNCHANGED <<table, hal, list, count_cache, registered, busRows, main,
                   request, refreshed, seen, refused, answer>>

\* A sync also ends at once when tr181_cleanup has cleared the handle.
SyncDone ==
    /\ pc \in {"sync_changed", "sync"}
    /\ row > SyncEnd \/ main = "gone"
    /\ pc' = IF pc = "sync_changed" THEN "sync" ELSE "answer"
    /\ row' = 1
    /\ UNCHANGED <<table, hal, list, count_cache, registered, busRows, main,
                   request, refreshed, seen, refused, answer>>

-----------------------------------------------------------------------------
Reply(a) ==
    /\ answer' = a
    /\ pc' = "idle"
    /\ UNCHANGED <<table, hal, list, count_cache, registered, busRows, main,
                   request, row, refreshed, seen, refused>>

AnswerCount ==
    /\ pc = "answer" /\ request.kind = "count"
    /\ Reply([kind |-> "count", status |-> "ok", count |-> list.count])

AnswerRow ==
    /\ pc = "answer" /\ request.kind = "row"
    /\ LET i == request.row
       IN  CASE i > Answered[table] ->
                    Reply([kind |-> "row", row |-> i, status |-> "invalid_input"])
             [] i <= Answered[table] /\ i > Lesser(list.count, list.len) ->
                    Reply([kind |-> "row", row |-> i, status |-> "does_not_exist"])
             [] OTHER ->
                    Reply([kind |-> "row", row |-> i, status |-> "ok", gen |-> list.gen])

-----------------------------------------------------------------------------
(***************************************************************************)
(* eponMgr_tr181_cleanup on the main thread, without the mutex.  The rows  *)
(* of these tables are unregistered by the name of the table, which names  *)
(* no row: the flags are cleared, the bus keeps the rows.                  *)
(***************************************************************************)
CleanupRows ==
    /\ main = "up"
    /\ registered' = {}
    /\ main' = "cleaning"
    /\ UNCHANGED <<table, hal, list, count_cache, busRows, handlerVars>>

CleanupElements ==
    /\ main = "cleaning"
    /\ main' = "gone"
    /\ UNCHANGED <<table, hal, list, count_cache, registered, busRows, handlerVars>>

Sync == RegisterRow \/ RefuseRow \/ SkipRow \/ SyncDone

Next ==
    \/ HalChanges
    \/ GetParam \/ GetTable \/ Refresh \/ RefreshFails
    \/ Sync \/ AnswerCount \/ AnswerRow
    \/ CleanupRows \/ CleanupElements

Spec == Init /\ [][Next]_vars

-----------------------------------------------------------------------------
\* The names the chain of the statistics handler answers with the field of a
\* shorter name: their texts are tested after PacketsSent and PacketsReceived.
Shadowed == {<<".", "Discard", "Packets", d>> : d \in Direction}
                \cup {<<".", "X_RDK_", c, "Packets", d>> : c \in Cast, d \in Direction}

\* The state stays within its types.
TypeOK ==
    /\ table \in Table
    /\ hal \in [len : 0 .. MaxEntries, gen : 0 .. MaxGen]
    /\ list \in [count : 0 .. MaxEntries, len : 0 .. MaxEntries, gen : 0 .. MaxGen]
    /\ count_cache \in 0 .. MaxEntries
    /\ registered \subseteq Instance /\ busRows \subseteq Instance
    /\ main \in {"up", "cleaning", "gone"}
    /\ pc \in {"idle", "refresh", "sync_changed", "sync", "answer"}
    /\ request.kind \in {"none", "count", "row"}
    /\ row \in 1 .. Rows[table] + 1
    /\ refreshed \in BOOLEAN
    /\ seen \in [len : 0 .. MaxEntries, gen : 0 .. MaxGen]
    /\ refused \subseteq Instance
    /\ answer.kind \in {"none", "param", "count", "row"}

\* Until the interface is shut down an instance is marked registered exactly when
\* the bus has its row, whichever registrations the bus refused: no row is
\* registered twice and none is given up.
FlagsMatchBus == main = "up" => registered = busRows

\* A client that was told there are n entries can read n rows, as far as the
\* table has them: each has been registered, or this very GET tried to and the
\* bus refused.
CountIsBacked ==
    answer.kind = "count" /\ refreshed /\ main = "up" =>
        /\ answer.count = seen.len
        /\ 1 .. Lesser(answer.count, Rows[table]) \subseteq busRows \cup refused

\* A row is answered from the list the HAL delivered to this very GET: never from
\* an older one when the HAL failed or the list became shorter, and whenever that
\* list has the entry and the handler accepts the instance.
RowFromThisRefresh ==
    answer.kind = "row" =>
        IF refreshed /\ answer.row <= Lesser(seen.len, Answered[table])
          THEN answer.status = "ok" /\ answer.gen = seen.gen
          ELSE answer.status # "ok"

\* A parameter is answered with the field it is named after, the shadowed names
\* apart.
UnshadowedReadTheirField ==
    answer.kind = "param" /\ answer.status = "ok" /\ answer.name \notin Shadowed =>
        answer.field = FieldOf(answer.name)

\* The same for every parameter, as the telemetry reference describes them: the
\* code answers a GET of Stats.DiscardPacketsSent with the packets sent.
EveryParamReadsItsField ==
    answer.kind = "param" /\ answer.status = "ok" => answer.field = FieldOf(answer.name)
=============================================================================
