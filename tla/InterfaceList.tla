--------------------------- MODULE InterfaceList ---------------------------
(***************************************************************************)
(* data->interface_list and what is derived from it: the PHY status and    *)
(* the virtual interfaces in WanManager, and the rows of the TR-181 table  *)
(* VEIP_Interface.                                                         *)
(*                                                                         *)
(* Two threads write the list.  The main thread processes interface events *)
(* (process_interface_status_event) and never takes the data mutex for it; *)
(* the stats poller lets the HAL rewrite the whole list under the mutex    *)
(* (eponMgr_data_get_interface_list).  The main thread's reads and writes  *)
(* of the list and of the cached count are actions of their own, a read    *)
(* and the write that depends on it too, and so are the poller's of the    *)
(* count; a loop over the entries is one action, and so is a HAL call.     *)
(***************************************************************************)
EXTENDS Integers, Sequences

CONSTANTS Name,           \* the interfaces the ONU may have
          InitialHal,     \* what the HAL's list may be at the start
          MaxInterfaces,  \* EPON_HAL_MAX_INTERFACES: the size of the array
          MaxRows,        \* MAX_VEIP_INSTANCES; 16 in the code
          MaxEvents,      \* bound: interfaces the HAL starts with and events it raises
          NoName,         \* the name in an entry that is still zeroed
          NoRow           \* in place of the name of a row that is not registered

Interface == [name : Name, up : BOOLEAN]

\* A list that names each interface once.
Once(s) == \A i, j \in DOMAIN s : s[i].name = s[j].name => i = j

ASSUME InterfaceAssumption ==
    /\ NoName \notin Name /\ NoRow \notin Name \cup {NoName} /\ "phy" \notin Name
    /\ InitialHal # {} /\ InitialHal \subseteq Seq(Interface)
    /\ \A h \in InitialHal : Once(h) /\ Len(h) <= MaxInterfaces
    /\ MaxInterfaces \in Nat /\ MaxRows \in Nat /\ MaxEvents \in Nat

VARIABLES
    hal,             \* the HAL's own list of interfaces
    events,          \* interface events in the controller's queue
    raised,          \* how many interfaces the HAL began with and events it raised
    interface,       \* data->interface_list.interface: the array of entries
    interface_count, \* data->interface_list.interface_count
    count_cache,     \* data->if_list_count_cache
    mutex,           \* who owns the data mutex
    rows,            \* g_veip_instances: the name of each row
    wan,             \* WanManager: the PHY status, Enable of each interface
    mpc,             \* where the main thread is
    info,            \* the event it processes
    place,           \* the place in the array it will write
    phy_is_up,       \* what has_any_interface_up returned
    main_count,      \* the count it read last
    polling,         \* the stats poller is enabled
    ppc,             \* where the stats poller is
    poll_count,      \* the count it read last
    last,            \* history: the status in the last event of each interface
    failed,          \* history: WanManager parameters whose last set failed
    refused,         \* history: rows whose last registration failed
    raced            \* history: the threads' last turns overlapped or the HAL failed

halVars == <<hal, events, raised>>
listVars == <<interface, interface_count>>
mainVars == <<mpc, info, place, phy_is_up, main_count>>
pollVars == <<polling, ppc, poll_count>>
wanVars == <<wan, failed>>
rowVars == <<rows, refused>>
vars == <<halVars, listVars, count_cache, mutex, rowVars, wanVars, mainVars, pollVars, last, raced>>

Place == 1 .. MaxInterfaces
Row == 1 .. MaxRows
Status(b) == IF b THEN "up" ELSE "down"
NoInterface == [name |-> NoName, up |-> FALSE]

\* The entries in use.
Listed == 1 .. interface_count

\* The data context is zeroed, and the sync of eponMgr_tr181_init found no row
\* to register.
Init ==
    /\ hal \in InitialHal
    /\ events = <<>> /\ raised = Len(hal)
    /\ interface = [i \in Place |-> NoInterface] /\ interface_count = 0
    /\ count_cache = 0 /\ mutex = "free"
    /\ rows = [r \in Row |-> NoRow]
    /\ wan = [phy |-> "unknown", enable |-> [n \in Name |-> "unknown"]]
    /\ mpc = "idle" /\ info = NoInterface /\ place = 0
    /\ phy_is_up = FALSE /\ main_count = 0
    /\ polling \in BOOLEAN /\ ppc = "idle" /\ poll_count = 0
    /\ last = [n \in Name |-> "none"]
    /\ failed = {} /\ refused = {} /\ raced = FALSE

\* The HAL's list has the size of the array.  It reports every change, of an
\* interface its list has no space for too.
Reported(e) ==
    IF \E i \in DOMAIN hal : hal[i].name = e.name
      THEN [i \in DOMAIN hal |-> IF hal[i].name = e.name THEN e ELSE hal[i]]
      ELSE IF Len(hal) < MaxInterfaces THEN Append(hal, e) ELSE hal

RaiseInterface ==
    /\ raised < MaxEvents
    /\ \E e \in Interface :
          /\ hal' = Reported(e)
          /\ events' = Append(events, e)
    /\ raised' = raised + 1
    /\ UNCHANGED <<listVars, count_cache, mutex, rowVars, wanVars, mainVars, pollVars, last, raced>>

-----------------------------------------------------------------------------
(***************************************************************************)
(* process_interface_status_event on the main thread.  Its locals are      *)
(* reset after their last use.                                             *)
(***************************************************************************)
MainGoes(p, q) ==
    /\ mpc = p
    /\ mpc' = q
    /\ UNCHANGED <<hal, raised, mutex, pollVars>>

TakeEvent ==
    /\ MainGoes("idle", "find")
    /\ events # <<>>
    /\ info' = Head(events)
    /\ events' = Tail(events)
    /\ last' = [last EXCEPT ![Head(events).name] = Status(Head(events).up)]
    /\ raced' = (ppc # "idle")
    /\ UNCHANGED <<listVars, count_cache, rowVars, wanVars, place, phy_is_up, main_count>>

\* The first entry of that name, if there is one, or else a check for space.
Places == {i \in Listed : interface[i].name = info.name}
First(i) == i \in Places /\ \A j \in Places : i <= j

\* Variant with a fault: there is space for one interface too many.
FindOverfull ==
    /\ \/ \E i \in Listed : First(i) /\ place' = i /\ MainGoes("find", "store")
       \/ /\ Places = {}
          /\ place' = 0
          /\ MainGoes("find", IF interface_count <= MaxInterfaces THEN "append" ELSE "enable")
    /\ UNCHANGED <<events, listVars, count_cache, rowVars, wanVars, info, phy_is_up, main_count,
                   last, raced>>

FindInterface ==
    /\ \/ \E i \in Listed : First(i) /\ place' = i /\ MainGoes("find", "store")
       \/ /\ Places = {}
          /\ place' = 0
          /\ MainGoes("find", IF interface_count < MaxInterfaces THEN "append" ELSE "enable")
    /\ UNCHANGED <<events, listVars, count_cache, rowVars, wanVars, info, phy_is_up, main_count,
                   last, raced>>

\* interface[interface_count++] = *info: the count is read, written back, and the
\* entry copied.  The poller may have filled the array since the check for space;
\* what a write past its end does to the rest of the context is undefined, and
\* the main thread is not followed beyond it.
AppendRead ==
    /\ MainGoes("append", IF interface_count < MaxInterfaces THEN "count" ELSE "overrun")
    /\ place' = interface_count + 1
    /\ UNCHANGED <<events, listVars, count_cache, rowVars, wanVars, info, phy_is_up, main_count,
                   last, raced>>

AppendCount ==
    /\ MainGoes("count", "store")
    /\ interface_count' = place
    /\ UNCHANGED <<events, interface, count_cache, rowVars, wanVars, info, place, phy_is_up,
                   main_count, last, raced>>

StoreInterface ==
    /\ MainGoes("store", "enable")
    /\ interface' = [interface EXCEPT ![place] = info]
    /\ place' = 0
    /\ UNCHANGED <<events, interface_count, count_cache, rowVars, wanVars, info, phy_is_up,
                   main_count, last, raced>>

\* A set of a WanManager parameter p, which may fail: nothing is tried again.
WanSet(p, newWan) ==
    \/ wan' = newWan /\ failed' = failed \ {p}
    \/ UNCHANGED wan /\ failed' = failed \cup {p}

\* eponMgr_rbus_update_virtual_interface.
EnableVirtualInterface ==
    /\ MainGoes("enable", "any_up")
    /\ WanSet(info.name, [wan EXCEPT !.enable[info.name] = Status(info.up)])
    /\ info' = NoInterface
    /\ UNCHANGED <<events, listVars, count_cache, rowVars, place, phy_is_up, main_count, last, raced>>

\* Variant with a fault: only the first interface is looked at.
IsFirstInterfaceUp ==
    /\ MainGoes("any_up", "notify")
    /\ phy_is_up' = (interface_count > 0 /\ interface[1].up)
    /\ UNCHANGED <<events, listVars, count_cache, rowVars, wanVars, info, place, main_count, last,
                   raced>>

\* has_any_interface_up.
HasAnyInterfaceUp ==
    /\ MainGoes("any_up", "notify")
    /\ phy_is_up' = \E i \in Listed : interface[i].up
    /\ UNCHANGED <<events, listVars, count_cache, rowVars, wanVars, info, place, main_count, last,
                   raced>>

\* eponMgr_rbus_notify_wanmanager_phy_status.
NotifyPhy ==
    /\ MainGoes("notify", "count_list")
    /\ WanSet("phy", [wan EXCEPT !.phy = Status(phy_is_up)])
    /\ phy_is_up' = FALSE
    /\ UNCHANGED <<events, listVars, count_cache, rowVars, info, place, main_count, last, raced>>

\* interface_count != if_list_count_cache: one is read, then the other.
CountList ==
    /\ MainGoes("count_list", "compare")
    /\ main_count' = interface_count
    /\ UNCHANGED <<events, listVars, count_cache, rowVars, wanVars, info, place, phy_is_up, last,
                   raced>>

CompareCount ==
    /\ MainGoes("compare", IF main_count # count_cache THEN "sync" ELSE "idle")
    /\ main_count' = 0
    /\ UNCHANGED <<events, listVars, count_cache, rowVars, wanVars, info, place, phy_is_up, last,
                   raced>>

\* Variant with a fault: the last interface gets no row.
sync_all_but_last ==
    LET missing == {r \in Row : r < interface_count /\ rows[r] = NoRow}
    IN  /\ mutex = "free"
        /\ refused' \in SUBSET missing
        /\ rows' = [r \in Row |-> IF r \in missing \ refused' THEN interface[r].name ELSE rows[r]]

\* eponMgr_tr181_sync_veip_table, under the data mutex: a row for each position
\* of the list that has none.  A row once registered is never touched again.
sync_veip_table ==
    LET missing == {r \in Row : r <= interface_count /\ rows[r] = NoRow}
    IN  /\ mutex = "free"
        /\ refused' \in SUBSET missing
        /\ rows' = [r \in Row |-> IF r \in missing \ refused' THEN interface[r].name ELSE rows[r]]

MainSync ==
    /\ MainGoes("sync", "recount")
    /\ sync_veip_table
    /\ UNCHANGED <<events, listVars, count_cache, wanVars, info, place, phy_is_up, main_count,
                   last, raced>>

\* if_list_count_cache = interface_count: read, then written, without the mutex
\* and whatever became of the sync.
Recount ==
    /\ MainGoes("recount", "cache")
    /\ main_count' = interface_count
    /\ UNCHANGED <<events, listVars, count_cache, rowVars, wanVars, info, place, phy_is_up, last,
                   raced>>

\* Variant with a fault: the count is not cached.
CacheNothing ==
    /\ MainGoes("cache", "idle")
    /\ main_count' = 0
    /\ UNCHANGED <<events, listVars, count_cache, rowVars, wanVars, info, place, phy_is_up, last,
                   raced>>

CacheCount ==
    /\ MainGoes("cache", "idle")
    /\ count_cache' = main_count
    /\ main_count' = 0
    /\ UNCHANGED <<events, listVars, rowVars, wanVars, info, place, phy_is_up, last, raced>>

-----------------------------------------------------------------------------
(***************************************************************************)
(* eponMgr_data_get_interface_list, called by the stats poller.            *)
(***************************************************************************)
PollerGoes(p, q) ==
    /\ ppc = p
    /\ ppc' = q
    /\ UNCHANGED <<halVars, wanVars, mainVars, polling, last>>

PollLock ==
    /\ polling
    /\ PollerGoes("idle", "fill")
    /\ mutex = "free"
    /\ mutex' = "poller"
    /\ raced' = (mpc # "idle")
    /\ UNCHANGED <<listVars, count_cache, rowVars, poll_count>>

\* The HAL writes its first n entries into the array.
Written(n) == [i \in Place |-> IF i <= n THEN hal[i] ELSE interface[i]]

HalFills ==
    /\ PollerGoes("fill", "compare")
    /\ interface' = Written(Len(hal))
    /\ interface_count' = Len(hal)
    /\ UNCHANGED <<count_cache, mutex, rowVars, poll_count, raced>>

\* A call that fails leaves the list as it is, or partly written.
HalFails ==
    /\ PollerGoes("fill", "idle")
    /\ \E n \in 0 .. Len(hal) : interface' = Written(n)
    /\ interface_count' \in {interface_count, Len(hal)}
    /\ mutex' = "free"
    /\ raced' = TRUE
    /\ UNCHANGED <<count_cache, rowVars, poll_count>>

PollCompare ==
    /\ \/ /\ interface_count # count_cache
          /\ PollerGoes("compare", "cache")
          /\ poll_count' = interface_count
          /\ UNCHANGED mutex
       \/ /\ interface_count = count_cache
          /\ PollerGoes("compare", "idle")
          /\ mutex' = "free"
          /\ UNCHANGED poll_count
    /\ UNCHANGED <<listVars, count_cache, rowVars, raced>>

\* The build may read the count once for the test and the assignment, or again.
\* The rows are synced after the mutex is released.
PollCache ==
    /\ PollerGoes("cache", "sync")
    /\ count_cache' \in {poll_count, interface_count}
    /\ poll_count' = 0
    /\ mutex' = "free"
    /\ UNCHANGED <<listVars, rowVars, raced>>

PollSync ==
    /\ PollerGoes("sync", "idle")
    /\ sync_veip_table
    /\ UNCHANGED <<listVars, count_cache, mutex, poll_count, raced>>

-----------------------------------------------------------------------------
Main ==
    \/ TakeEvent \/ FindInterface \/ AppendRead \/ AppendCount \/ StoreInterface
    \/ EnableVirtualInterface \/ HasAnyInterfaceUp \/ NotifyPhy
    \/ CountList \/ CompareCount \/ MainSync \/ Recount \/ CacheCount

Poller == PollLock \/ HalFills \/ HalFails \/ PollCompare \/ PollCache \/ PollSync

Next == RaiseInterface \/ Main \/ Poller

Spec == Init /\ [][Next]_vars

-----------------------------------------------------------------------------
\* The state stays within its types.  The count never exceeds the array, and the
\* main thread writes past its end only when a poller may have filled it between
\* the check for space and the append.
TypeOK ==
    /\ hal \in Seq(Interface) /\ events \in Seq(Interface)
    /\ raised \in Nat
    /\ interface \in [Place -> Interface \cup {NoInterface}]
    /\ interface_count \in 0 .. MaxInterfaces
    /\ count_cache \in 0 .. MaxInterfaces
    /\ mutex \in {"free", "poller"}
    /\ rows \in [Row -> Name \cup {NoName, NoRow}]
    /\ wan \in [phy : {"unknown", "up", "down"},
               enable : [Name -> {"unknown", "up", "down"}]]
    /\ mpc \in {"idle", "find", "append", "count", "store", "enable", "any_up", "notify",
                "count_list", "compare", "sync", "recount", "cache", "overrun"}
    /\ mpc = "overrun" => polling
    /\ info \in Interface \cup {NoInterface}
    /\ place \in 0 .. MaxInterfaces + 1
    /\ phy_is_up \in BOOLEAN /\ main_count \in 0 .. MaxInterfaces
    /\ polling \in BOOLEAN /\ poll_count \in 0 .. MaxInterfaces
    /\ ppc \in {"idle", "fill", "compare", "cache", "sync"}
    /\ last \in [Name -> {"none", "up", "down"}]
    /\ failed \subseteq Name \cup {"phy"}
    /\ refused \subseteq Row /\ raced \in BOOLEAN

\* Between two events, what WanManager was last told holds.  Enable of each
\* virtual interface is the status of that interface's last event, which the
\* poller cannot disturb; while the poller is disabled, the PHY status is UP if
\* and only if the last event of some interface in the list was UP: one that
\* found the array full does not count.  A set that failed excuses its parameter
\* only until the next set of it.
WanFollowsEvents ==
    mpc = "idle" =>
        /\ \A n \in Name \ failed : last[n] # "none" => wan.enable[n] = last[n]
        /\ ~polling /\ "phy" \notin failed /\ (\E n \in Name : last[n] # "none")
              => wan.phy = Status(\E i \in Listed : last[interface[i].name] = "up")

\* While the poller is disabled, every interface that had an event is in the list
\* once and has exactly one row, the one at its place, unless the bus refused
\* the row or the table is full; it is left out only when the array is full.
OneRowPerInterface ==
    ~polling /\ mpc = "idle" =>
        \A n \in Name : last[n] # "none" =>
            \/ \E i \in Listed :
                  /\ \A j \in Listed : interface[j].name = n <=> j = i
                  /\ i \in Row \ refused => rows[i] = n
                  /\ \A r \in Row \ {i} : rows[r] # n
            \/ /\ interface_count = MaxInterfaces
               /\ \A i \in Listed : interface[i].name # n
               /\ \A r \in Row : rows[r] # n

\* At rest the cached count is the count of the list, so the next change of the
\* count is noticed, whichever thread makes it, unless an event was processed
\* while the poller refreshed the list, or the refresh failed: the main thread
\* reads and caches the count without the mutex the poller holds, and only a
\* turn of either thread by itself puts the cache right again.
CountSettles ==
    mpc = "idle" /\ ppc = "idle" /\ ~raced => count_cache = interface_count
=============================================================================
