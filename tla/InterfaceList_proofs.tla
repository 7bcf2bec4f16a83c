------------------------ MODULE InterfaceList_proofs ------------------------
(***************************************************************************)
(* Proofs about InterfaceList, for any interfaces, any list the HAL starts *)
(* with, an array and a table of any size and any number of events.  While *)
(* the poller is disabled the main thread has the list to itself, and the  *)
(* list is what the events said as far as the array has space; otherwise   *)
(* only what each turn of a thread leaves behind is known.                 *)
(***************************************************************************)
EXTENDS InterfaceList, SequenceTheorems, TLAPS

\* The points of process_interface_status_event at which the event is still in
\* use (or was when the array was overrun), and those at which the list does not
\* show it yet.
Using   == {"find", "append", "count", "store", "enable", "overrun"}
Pending == {"find", "append", "count", "store"}

-----------------------------------------------------------------------------
\* The HAL lists each interface once and no more than its array holds.
HalInv == Once(hal) /\ Len(hal) <= MaxInterfaces

\* The event in use is one; its status is the last of its interface.
InfoInv ==
    mpc \in Using => info \in Interface /\ last[info.name] = Status(info.up)

\* What the main thread writes lies within the array.
PlaceInv == mpc \in {"count", "store"} => place \in Place

\* A disabled poller does nothing; without it the space found is still there.
SpaceInv == ~polling => ppc = "idle" /\ ~raced /\ (mpc = "append" => interface_count < MaxInterfaces)

\* Enable of a virtual interface follows the events of that interface.
EnableInv ==
    \A n \in Name \ failed :
        last[n] = "none" \/ wan.enable[n] = last[n] \/ (mpc \in Using /\ info.name = n)

\* A thread that has its turn alone finds the count as it read it.
CountInv ==
    ~raced =>
        /\ mpc = "idle" \/ ppc = "idle"
        /\ mpc = "idle" /\ ppc = "idle" => count_cache = interface_count
        /\ mpc \in {"compare", "cache"} => main_count = interface_count
        /\ ppc = "cache" => poll_count = interface_count
        /\ ppc = "sync" => count_cache = interface_count

\* The interface whose last event is not in the list yet, and the entries that
\* are not about to be overwritten.
Waiting(n) == mpc \in Pending /\ info.name = n
Known == {i \in Listed : ~(mpc = "store" /\ i = place)}

\* Without the poller the list holds each interface that had an event once, with
\* the status of its last event, as far as there is space.
ListInv ==
    ~polling =>
        /\ \A i \in Known : /\ interface[i] \in Interface
                            /\ last[interface[i].name] # "none" \/ Waiting(interface[i].name)
        /\ \A i, j \in Known : interface[i].name = interface[j].name => i = j
        /\ \A n \in Name : \/ last[n] = "none" \/ Waiting(n)
                           \/ interface_count = MaxInterfaces
                           \/ \E i \in Known : interface[i].name = n
        /\ \A i \in Known : \/ Waiting(interface[i].name)
                            \/ last[interface[i].name] = Status(interface[i].up)
        /\ mpc \in {"append", "count", "store"} => \A i \in Known : interface[i].name # info.name
        /\ mpc = "count" => place = interface_count + 1
        /\ mpc = "store" => place \in Listed

AnyUp == \E i \in Listed : last[interface[i].name] = "up"

\* Without the poller the PHY status is computed, and told, from the last events.
PhyInv ==
    ~polling =>
        /\ mpc = "notify" => (phy_is_up <=> AnyUp)
        /\ /\ mpc \in {"count_list", "compare", "sync", "recount", "cache", "idle"}
           /\ "phy" \notin failed
           /\ \E n \in Name : last[n] # "none"
           => wan.phy = Status(AnyUp)

\* Without the poller a row names the interface at its place in the list, and is
\* registered or was refused when it is among those that were counted.
RowInv ==
    ~polling =>
        /\ \A r \in Row : rows[r] # NoRow => r \in Listed /\ rows[r] = interface[r].name
        /\ \A r \in Row : r <= count_cache \/ (mpc \in {"recount", "cache"} /\ r <= interface_count)
                             => r \in refused \/ rows[r] # NoRow
        /\ count_cache <= interface_count
        /\ mpc = "store" /\ place \in Row /\ rows[place] # NoRow
              => interface[place].name = info.name

TypeInv == TypeOK /\ HalInv /\ InfoInv /\ PlaceInv /\ SpaceInv

IInv == TypeInv /\ EnableInv /\ CountInv /\ ListInv /\ PhyInv /\ RowInv

-----------------------------------------------------------------------------
(***************************************************************************)
(* Sequences of interfaces.                                                *)
(***************************************************************************)
LEMMA Entry ==
    ASSUME NEW s \in Seq(Interface)
    PROVE  /\ Len(s) \in Nat /\ DOMAIN s = 1 .. Len(s)
           /\ \A i \in DOMAIN s : s[i] \in Interface
<1>1. Len(s) \in Nat /\ DOMAIN s = 1 .. Len(s)
  BY LenProperties
<1>2. \A i \in 1 .. Len(s) : s[i] \in Interface
  BY ElementOfSeq
<1>3. QED
  BY <1>1, <1>2

\* What RaiseInterface makes of the HAL's list.
LEMMA ReportedOnce ==
    ASSUME hal \in Seq(Interface), HalInv, NEW e \in Interface
    PROVE  /\ Reported(e) \in Seq(Interface) /\ Once(Reported(e))
           /\ Len(Reported(e)) <= MaxInterfaces
<1>0. Len(hal) \in Nat /\ DOMAIN hal = 1 .. Len(hal) /\ \A i \in DOMAIN hal : hal[i] \in Interface
  BY Entry
<1>1. CASE \E i \in DOMAIN hal : hal[i].name = e.name
  <2>. DEFINE t == [i \in DOMAIN hal |-> IF hal[i].name = e.name THEN e ELSE hal[i]]
  <2>1. Reported(e) = t
    BY <1>1 DEF Reported
  <2>2. t \in [1 .. Len(hal) -> Interface]
    BY <1>0
  <2>3. t \in Seq(Interface)
    BY <1>0, <2>2, SeqDef
  <2>4. Len(t) = Len(hal) /\ DOMAIN t = DOMAIN hal
    BY <1>0, <2>2, <2>3, LenProperties
  <2>5. \A i \in DOMAIN hal : t[i].name = hal[i].name
    OBVIOUS
  <2>6. Once(t)
    BY <2>4, <2>5 DEF Once, HalInv
  <2>. HIDE DEF t
  <2>7. QED
    BY <2>1, <2>3, <2>4, <2>6 DEF HalInv
<1>2. CASE ~(\E i \in DOMAIN hal : hal[i].name = e.name) /\ Len(hal) < MaxInterfaces
  <2>. DEFINE t == Append(hal, e)
  <2>1. Reported(e) = t
    BY <1>2 DEF Reported
  <2>2. /\ t \in Seq(Interface) /\ Len(t) = Len(hal) + 1
        /\ \A i \in 1 .. Len(hal) : t[i] = hal[i]
        /\ t[Len(hal) + 1] = e
    BY AppendProperties
  <2>3. DOMAIN t = 1 .. Len(hal) + 1
    BY <2>2, LenProperties
  <2>. HIDE DEF t
  <2>4. ASSUME NEW i \in DOMAIN t, NEW j \in DOMAIN t, t[i].name = t[j].name PROVE i = j
    <3>1. i \in DOMAIN hal \/ i = Len(hal) + 1
      BY <1>0, <2>3
    <3>2. j \in DOMAIN hal \/ j = Len(hal) + 1
      BY <1>0, <2>3
    <3>3. QED
      BY <1>0, <1>2, <2>2, <2>4, <3>1, <3>2 DEF Once, HalInv
  <2>5. QED
    BY <1>0, <1>2, <2>1, <2>2, <2>4, InterfaceAssumption DEF Once
<1>3. CASE ~(\E i \in DOMAIN hal : hal[i].name = e.name) /\ ~(Len(hal) < MaxInterfaces)
  BY <1>3 DEF Reported, HalInv
<1>4. QED
  BY <1>1, <1>2, <1>3

\* What the HAL writes into the array.
LEMMA WrittenOK ==
    ASSUME hal \in Seq(Interface), interface \in [Place -> Interface \cup {NoInterface}],
           NEW n \in 0 .. Len(hal)
    PROVE  Written(n) \in [Place -> Interface \cup {NoInterface}]
<1>1. /\ Len(hal) \in Nat /\ DOMAIN hal = 1 .. Len(hal)
      /\ \A i \in DOMAIN hal : hal[i] \in Interface
  BY Entry
<1>2. \A i \in Place : i <= n => hal[i] \in Interface
  BY <1>1, InterfaceAssumption DEF Place
<1>3. QED
  BY <1>2 DEF Written

-----------------------------------------------------------------------------
(***************************************************************************)
(* Typing.                                                                 *)
(***************************************************************************)
QueueOK == hal \in Seq(Interface) /\ events \in Seq(Interface) /\ raised \in Nat

ListOK ==
    /\ interface \in [Place -> Interface \cup {NoInterface}]
    /\ interface_count \in 0 .. MaxInterfaces

CountsOK ==
    /\ count_cache \in 0 .. MaxInterfaces
    /\ main_count \in 0 .. MaxInterfaces /\ poll_count \in 0 .. MaxInterfaces

RowsOK == rows \in [Row -> Name \cup {NoName, NoRow}] /\ refused \subseteq Row

WanOK ==
    /\ wan \in [phy : {"unknown", "up", "down"},
               enable : [Name -> {"unknown", "up", "down"}]]
    /\ failed \subseteq Name \cup {"phy"}

FlagsOK == phy_is_up \in BOOLEAN /\ polling \in BOOLEAN /\ raced \in BOOLEAN

StatesOK ==
    /\ mutex \in {"free", "poller"}
    /\ mpc \in {"idle", "find", "append", "count", "store", "enable", "any_up", "notify",
                "count_list", "compare", "sync", "recount", "cache", "overrun"}
    /\ mpc = "overrun" => polling
    /\ ppc \in {"idle", "fill", "compare", "cache", "sync"}
    /\ info \in Interface \cup {NoInterface}
    /\ place \in 0 .. MaxInterfaces + 1
    /\ last \in [Name -> {"none", "up", "down"}]

LEMMA TypeParts ==
    TypeOK <=> QueueOK /\ ListOK /\ CountsOK /\ RowsOK /\ WanOK /\ FlagsOK /\ StatesOK
  BY DEF TypeOK, QueueOK, ListOK, CountsOK, RowsOK, WanOK, FlagsOK, StatesOK

LEMMA TypeInit == Init => TypeInv
<1>. SUFFICES ASSUME Init PROVE TypeInv
  OBVIOUS
<1>1. FlagsOK
  BY DEF Init, FlagsOK
<1>2. QueueOK /\ HalInv
  <2>1. hal \in Seq(Interface) /\ Once(hal) /\ Len(hal) <= MaxInterfaces
    BY InterfaceAssumption DEF Init
  <2>2. <<>> \in Seq(Interface)
    BY EmptySeq
  <2>3. QED
    BY <2>1, <2>2, LenProperties DEF Init, QueueOK, HalInv
<1>3. ListOK /\ CountsOK /\ RowsOK
  BY InterfaceAssumption DEF Init, ListOK, CountsOK, RowsOK
<1>4. WanOK
  BY DEF Init, WanOK
<1>5. StatesOK
  BY InterfaceAssumption DEF Init, StatesOK
<1>6. InfoInv /\ PlaceInv /\ SpaceInv
  BY DEF Init, InfoInv, PlaceInv, SpaceInv, Using
<1>7. QED
  BY <1>1, <1>2, <1>3, <1>4, <1>5, <1>6, TypeParts DEF TypeInv

\* Nobody enables or disables the poller.
LEMMA PollingStays == [Next]_vars => polling' = polling
  BY DEF Next, RaiseInterface, Main, TakeEvent, FindInterface, AppendRead, AppendCount,
         StoreInterface, EnableVirtualInterface, HasAnyInterfaceUp, NotifyPhy, CountList,
         CompareCount, MainSync, Recount, CacheCount, Poller, PollLock, HalFills, HalFails,
         PollCompare, PollCache, PollSync, MainGoes, PollerGoes, pollVars, vars

\* The main thread's steps that touch neither list, cached count nor rows.
Aside == TakeEvent \/ FindInterface \/ AppendRead \/ EnableVirtualInterface
            \/ HasAnyInterfaceUp \/ NotifyPhy \/ CountList \/ CompareCount \/ Recount

LEMMA AsideStep ==
    ASSUME Aside
    PROVE  UNCHANGED <<interface, interface_count, count_cache, rows, refused, poll_count, hal>>
  BY DEF Aside, TakeEvent, FindInterface, AppendRead, EnableVirtualInterface, HasAnyInterfaceUp,
         NotifyPhy, CountList, CompareCount, Recount, MainGoes, listVars, rowVars, pollVars

LEMMA MainSplit ==
    Main <=> Aside \/ AppendCount \/ StoreInterface \/ MainSync \/ CacheCount
  BY DEF Main, Aside

LEMMA QueueStep ==
    ASSUME QueueOK, HalInv, [Next]_vars
    PROVE  QueueOK' /\ HalInv'
<1>1. CASE RaiseInterface
  <2>1. PICK e \in Interface : hal' = Reported(e) /\ events' = Append(events, e)
    BY <1>1 DEF RaiseInterface
  <2>2. hal' \in Seq(Interface) /\ HalInv'
    BY <2>1, ReportedOnce DEF QueueOK, HalInv
  <2>3. events' \in Seq(Interface)
    BY <2>1, AppendProperties DEF QueueOK
  <2>4. QED
    BY <1>1, <2>2, <2>3 DEF RaiseInterface, QueueOK
<1>2. CASE TakeEvent
  <2>1. events' \in Seq(Interface)
    BY <1>2, HeadTailProperties DEF TakeEvent, QueueOK
  <2>2. QED
    BY <1>2, <2>1 DEF TakeEvent, MainGoes, QueueOK, HalInv
<1>3. CASE \/ FindInterface \/ AppendRead \/ AppendCount \/ StoreInterface
           \/ EnableVirtualInterface \/ HasAnyInterfaceUp \/ NotifyPhy \/ CountList
           \/ CompareCount \/ MainSync \/ Recount \/ CacheCount
  BY <1>3 DEF FindInterface, AppendRead, AppendCount, StoreInterface, EnableVirtualInterface,
              HasAnyInterfaceUp, NotifyPhy, CountList, CompareCount, MainSync, Recount,
              CacheCount, MainGoes, QueueOK, HalInv
<1>4. CASE Poller \/ UNCHANGED vars
  BY <1>4 DEF Poller, PollLock, HalFills, HalFails, PollCompare, PollCache, PollSync, PollerGoes,
              halVars, vars, QueueOK, HalInv
<1>5. QED
  BY <1>1, <1>2, <1>3, <1>4 DEF Next, Main

LEMMA ListTypeStep ==
    ASSUME QueueOK, ListOK, HalInv, InfoInv, PlaceInv, [Next]_vars
    PROVE  ListOK'
<1>. USE DEF ListOK
<1>1. CASE AppendCount
  BY <1>1, InterfaceAssumption DEF AppendCount, MainGoes, PlaceInv, Place
<1>2. CASE StoreInterface
  BY <1>2 DEF StoreInterface, MainGoes, PlaceInv, InfoInv, Using
<1>3. CASE HalFills
  <2>1. Len(hal) \in 0 .. Len(hal) /\ Len(hal) \in 0 .. MaxInterfaces
    BY Entry, InterfaceAssumption DEF QueueOK, HalInv
  <2>2. QED
    BY <1>3, <2>1, WrittenOK DEF HalFills, QueueOK
<1>4. CASE HalFails
  <2>1. Len(hal) \in 0 .. MaxInterfaces
    BY Entry, InterfaceAssumption DEF QueueOK, HalInv
  <2>2. QED
    BY <1>4, <2>1, WrittenOK DEF HalFails, QueueOK
<1>5. CASE \/ RaiseInterface \/ MainSync \/ CacheCount \/ PollLock \/ PollCompare \/ PollCache
           \/ PollSync \/ UNCHANGED vars
  BY <1>5 DEF RaiseInterface, MainSync, CacheCount, PollLock, PollCompare, PollCache, PollSync,
              listVars, vars
<1>6. CASE Aside
  BY <1>6, AsideStep
<1>7. QED
  BY <1>1, <1>2, <1>3, <1>4, <1>5, <1>6, MainSplit DEF Next, Poller

LEMMA CountsStep ==
    ASSUME ListOK, CountsOK, [Next]_vars
    PROVE  CountsOK'
<1>. USE InterfaceAssumption DEF ListOK, CountsOK
<1>1. CASE CountList \/ CompareCount \/ Recount \/ CacheCount
  BY <1>1 DEF CountList, CompareCount, Recount, CacheCount, MainGoes, pollVars
<1>2. CASE \/ TakeEvent \/ FindInterface \/ AppendRead \/ AppendCount \/ StoreInterface
           \/ EnableVirtualInterface \/ HasAnyInterfaceUp \/ NotifyPhy \/ MainSync
  BY <1>2 DEF TakeEvent, FindInterface, AppendRead, AppendCount, StoreInterface,
              EnableVirtualInterface, HasAnyInterfaceUp, NotifyPhy, MainSync, MainGoes, pollVars
<1>3. CASE PollCompare \/ PollCache
  BY <1>3 DEF PollCompare, PollCache, PollerGoes, mainVars
<1>4. CASE RaiseInterface \/ PollLock \/ HalFills \/ HalFails \/ PollSync \/ UNCHANGED vars
  BY <1>4 DEF RaiseInterface, PollLock, HalFills, HalFails, PollSync, PollerGoes, mainVars,
              pollVars, vars
<1>5. QED
  BY <1>1, <1>2, <1>3, <1>4 DEF Next, Main, Poller

\* A sync names rows after entries of the array.
LEMMA SyncOK ==
    ASSUME ListOK, RowsOK, sync_veip_table
    PROVE  RowsOK'
<1>. DEFINE missing == {r \in Row : r <= interface_count /\ rows[r] = NoRow}
<1>1. refused' \in SUBSET missing
      /\ rows' = [r \in Row |-> IF r \in missing \ refused' THEN interface[r].name ELSE rows[r]]
  BY DEF sync_veip_table
<1>2. \A r \in missing : interface[r].name \in Name \cup {NoName}
  <2>1. \A r \in missing : r \in Place
    BY InterfaceAssumption DEF ListOK, Row, Place
  <2>2. QED
    BY <2>1 DEF ListOK, Interface, NoInterface
<1>3. rows \in [Row -> Name \cup {NoName, NoRow}] /\ missing \subseteq Row
  BY DEF RowsOK
<1>. HIDE DEF missing
<1>4. QED
  BY <1>1, <1>2, <1>3 DEF RowsOK

LEMMA RowsStep ==
    ASSUME ListOK, RowsOK, [Next]_vars
    PROVE  RowsOK'
<1>1. CASE MainSync \/ PollSync
  BY <1>1, SyncOK DEF MainSync, PollSync
<1>2. CASE Aside
  BY <1>2, AsideStep DEF RowsOK
<1>3. CASE \/ RaiseInterface \/ AppendCount \/ StoreInterface \/ CacheCount \/ PollLock
           \/ HalFills \/ HalFails \/ PollCompare \/ PollCache \/ UNCHANGED vars
  BY <1>3 DEF RaiseInterface, AppendCount, StoreInterface, CacheCount, PollLock, HalFills,
              HalFails, PollCompare, PollCache, rowVars, vars, RowsOK
<1>4. QED
  BY <1>1, <1>2, <1>3, MainSplit DEF Next, Poller

LEMMA WanStep ==
    ASSUME WanOK, FlagsOK, InfoInv, [Next]_vars
    PROVE  WanOK'
<1>1. CASE EnableVirtualInterface
  <2>1. info.name \in Name /\ Status(info.up) \in {"up", "down"}
    BY <1>1 DEF EnableVirtualInterface, MainGoes, InfoInv, Using, Interface, Status
  <2>2. QED
    BY <1>1, <2>1 DEF EnableVirtualInterface, WanSet, WanOK
<1>2. CASE NotifyPhy
  <2>1. Status(phy_is_up) \in {"up", "down"}
    BY DEF Status
  <2>2. QED
    BY <1>2, <2>1 DEF NotifyPhy, WanSet, WanOK
<1>3. CASE \/ RaiseInterface \/ TakeEvent \/ FindInterface \/ AppendRead \/ AppendCount
           \/ StoreInterface \/ HasAnyInterfaceUp \/ CountList \/ CompareCount \/ MainSync
           \/ Recount \/ CacheCount \/ Poller \/ UNCHANGED vars
  BY <1>3 DEF RaiseInterface, TakeEvent, FindInterface, AppendRead, AppendCount, StoreInterface,
              HasAnyInterfaceUp, CountList, CompareCount, MainSync, Recount, CacheCount, Poller,
              PollLock, HalFills, HalFails, PollCompare, PollCache, PollSync, PollerGoes, wanVars,
              vars, WanOK
<1>4. QED
  BY <1>1, <1>2, <1>3 DEF Next, Main

LEMMA FlagsStep ==
    ASSUME FlagsOK, [Next]_vars
    PROVE  FlagsOK'
<1>. USE DEF FlagsOK
<1>1. CASE HasAnyInterfaceUp
  <2>1. phy_is_up' \in BOOLEAN
    BY <1>1 DEF HasAnyInterfaceUp
  <2>2. UNCHANGED raced
    BY <1>1 DEF HasAnyInterfaceUp
  <2>3. QED
    BY <2>1, <2>2, PollingStays
<1>2. CASE RaiseInterface \/ Poller \/ UNCHANGED vars
  BY <1>2, PollingStays
     DEF RaiseInterface, Poller, PollLock, HalFills, HalFails, PollCompare, PollCache, PollSync,
         PollerGoes, mainVars, vars
<1>3. CASE \/ TakeEvent \/ FindInterface \/ AppendRead \/ AppendCount \/ StoreInterface
           \/ EnableVirtualInterface \/ NotifyPhy \/ CountList \/ CompareCount \/ MainSync
           \/ Recount \/ CacheCount
  BY <1>3, PollingStays
     DEF TakeEvent, FindInterface, AppendRead, AppendCount, StoreInterface,
         EnableVirtualInterface, NotifyPhy, CountList, CompareCount, MainSync, Recount, CacheCount
<1>4. QED
  BY <1>1, <1>2, <1>3 DEF Next, Main

LEMMA StatesStep ==
    ASSUME QueueOK, ListOK, StatesOK, SpaceInv, [Next]_vars
    PROVE  StatesOK'
<1>. USE InterfaceAssumption DEF StatesOK
<1>0. polling' = polling
  BY PollingStays
<1>1. CASE RaiseInterface
  BY <1>1 DEF RaiseInterface, mainVars, pollVars
<1>2. CASE TakeEvent
  <2>1. Head(events) \in Interface
    BY <1>2, HeadTailProperties DEF TakeEvent, QueueOK
  <2>2. QED
    BY <1>2, <2>1 DEF TakeEvent, MainGoes, pollVars, Status, Interface
<1>3. CASE FindInterface
  <2>1. CASE \E i \in Listed : First(i) /\ place' = i /\ MainGoes("find", "store")
    <3>1. place' \in 0 .. MaxInterfaces
      BY <2>1 DEF Listed, ListOK
    <3>2. QED
      BY <1>3, <2>1, <3>1 DEF FindInterface, MainGoes, pollVars
  <2>2. CASE /\ Places = {}
             /\ place' = 0
             /\ MainGoes("find", IF interface_count < MaxInterfaces THEN "append" ELSE "enable")
    BY <1>3, <2>2 DEF FindInterface, MainGoes, pollVars
  <2>3. QED
    BY <1>3, <2>1, <2>2 DEF FindInterface
<1>4. CASE AppendRead
  <2>1. mpc' = "overrun" => polling
    BY <1>4 DEF AppendRead, MainGoes, SpaceInv
  <2>2. place' \in 0 .. MaxInterfaces + 1
    BY <1>4 DEF AppendRead, ListOK
  <2>3. QED
    BY <1>0, <1>4, <2>1, <2>2 DEF AppendRead, MainGoes, pollVars
<1>5. CASE AppendCount \/ StoreInterface
  BY <1>5 DEF AppendCount, StoreInterface, MainGoes, pollVars
<1>6. CASE \/ EnableVirtualInterface \/ HasAnyInterfaceUp \/ NotifyPhy \/ CountList
           \/ CompareCount \/ MainSync \/ Recount \/ CacheCount
  <2>1. UNCHANGED <<mutex, ppc, place, last>>
    BY <1>6 DEF EnableVirtualInterface, HasAnyInterfaceUp, NotifyPhy, CountList, CompareCount,
                MainSync, Recount, CacheCount, MainGoes, pollVars
  <2>2. info' = info \/ info' = NoInterface
    BY <1>6 DEF EnableVirtualInterface, HasAnyInterfaceUp, NotifyPhy, CountList, CompareCount,
                MainSync, Recount, CacheCount
  <2>3. mpc' \in {"any_up", "notify", "count_list", "compare", "sync", "recount", "cache", "idle"}
    BY <1>6 DEF EnableVirtualInterface, HasAnyInterfaceUp, NotifyPhy, CountList, CompareCount,
                MainSync, Recount, CacheCount, MainGoes
  <2>4. QED
    BY <2>1, <2>2, <2>3
<1>7. CASE Poller \/ UNCHANGED vars
  BY <1>0, <1>7 DEF Poller, PollLock, HalFills, HalFails, PollCompare, PollCache, PollSync,
              sync_veip_table, PollerGoes, halVars, mainVars, pollVars, vars
<1>8. QED
  BY <1>1, <1>2, <1>3, <1>4, <1>5, <1>6, <1>7 DEF Next, Main
\* The event in use.
LEMMA InfoStep ==
    ASSUME QueueOK, StatesOK, InfoInv, [Next]_vars
    PROVE  InfoInv'
<1>. USE DEF InfoInv, Using
<1>1. CASE TakeEvent
  <2>1. Head(events) \in Interface
    BY <1>1, HeadTailProperties DEF TakeEvent, QueueOK
  <2>2. QED
    BY <1>1, <2>1 DEF TakeEvent, StatesOK, Interface
<1>2. CASE FindInterface \/ AppendRead \/ AppendCount \/ StoreInterface
  BY <1>2 DEF FindInterface, AppendRead, AppendCount, StoreInterface, MainGoes
<1>3. CASE \/ EnableVirtualInterface \/ HasAnyInterfaceUp \/ NotifyPhy \/ CountList
           \/ CompareCount \/ MainSync \/ Recount \/ CacheCount
  BY <1>3 DEF EnableVirtualInterface, HasAnyInterfaceUp, NotifyPhy, CountList, CompareCount,
              MainSync, Recount, CacheCount, MainGoes
<1>4. CASE RaiseInterface \/ Poller \/ UNCHANGED vars
  BY <1>4 DEF RaiseInterface, Poller, PollLock, HalFills, HalFails, PollCompare, PollCache,
              PollSync, PollerGoes, mainVars, vars
<1>5. QED
  BY <1>1, <1>2, <1>3, <1>4 DEF Next, Main

\* A poller that is disabled takes no step.
LEMMA NoPoller == SpaceInv /\ ~polling => ~Poller
  BY DEF SpaceInv, Poller, PollLock, HalFills, HalFails, PollCompare, PollCache, PollSync,
         PollerGoes

LEMMA PlaceStep ==
    ASSUME ListOK, StatesOK, PlaceInv, SpaceInv, [Next]_vars
    PROVE  PlaceInv' /\ SpaceInv'
<1>0. polling' = polling /\ interface_count \in 0 .. MaxInterfaces
  BY PollingStays DEF ListOK
<1>. USE DEF PlaceInv, SpaceInv
<1>1. CASE FindInterface
  <2>1. CASE \E i \in Listed : First(i) /\ place' = i /\ MainGoes("find", "store")
    BY <1>0, <1>1, <2>1, InterfaceAssumption DEF FindInterface, MainGoes, pollVars, Listed, Place
  <2>2. CASE /\ Places = {}
             /\ place' = 0
             /\ MainGoes("find", IF interface_count < MaxInterfaces THEN "append" ELSE "enable")
    BY <1>0, <1>1, <2>2 DEF FindInterface, MainGoes, pollVars, listVars
  <2>3. QED
    BY <1>1, <2>1, <2>2 DEF FindInterface
<1>2. CASE AppendRead
  <2>1. mpc' = "count" => place' \in Place
    BY <1>0, <1>2, InterfaceAssumption DEF AppendRead, MainGoes, Place
  <2>2. QED
    BY <1>2, <2>1 DEF AppendRead, MainGoes, pollVars
<1>3. CASE AppendCount \/ StoreInterface
  BY <1>3 DEF AppendCount, StoreInterface, MainGoes, pollVars
<1>4. CASE \/ TakeEvent \/ EnableVirtualInterface \/ HasAnyInterfaceUp \/ NotifyPhy
           \/ CountList \/ CompareCount \/ MainSync \/ Recount \/ CacheCount
  <2>1. mpc' \notin {"append", "count", "store"} /\ UNCHANGED ppc
    BY <1>4 DEF TakeEvent, EnableVirtualInterface, HasAnyInterfaceUp, NotifyPhy, CountList,
                CompareCount, MainSync, Recount, CacheCount, MainGoes, pollVars
  <2>2. raced' = raced \/ raced' = (ppc # "idle")
    BY <1>4 DEF TakeEvent, EnableVirtualInterface, HasAnyInterfaceUp, NotifyPhy, CountList,
                CompareCount, MainSync, Recount, CacheCount
  <2>3. ppc = "idle" /\ ~raced => ~raced'
    BY <2>2
  <2>4. QED
    BY <1>0, <2>1, <2>3
<1>5. CASE RaiseInterface \/ UNCHANGED vars
  BY <1>5 DEF RaiseInterface, mainVars, pollVars, listVars, vars
<1>6. CASE Poller
  <2>1. polling
    BY <1>6, NoPoller
  <2>2. UNCHANGED <<mpc, place>>
    BY <1>6 DEF Poller, PollLock, HalFills, HalFails, PollCompare, PollCache, PollSync,
                PollerGoes, mainVars
  <2>3. QED
    BY <1>0, <2>1, <2>2
<1>7. QED
  BY <1>1, <1>2, <1>3, <1>4, <1>5, <1>6 DEF Next, Main

LEMMA TypeStep ==
    ASSUME TypeInv, [Next]_vars
    PROVE  TypeInv'
<1>1. QueueOK /\ ListOK /\ CountsOK /\ RowsOK /\ WanOK /\ FlagsOK /\ StatesOK
      /\ HalInv /\ InfoInv /\ PlaceInv /\ SpaceInv
  BY TypeParts DEF TypeInv
<1>2. QueueOK' /\ ListOK' /\ CountsOK' /\ RowsOK' /\ WanOK' /\ FlagsOK' /\ StatesOK'
      /\ HalInv' /\ InfoInv' /\ PlaceInv' /\ SpaceInv'
  BY <1>1, QueueStep, ListTypeStep, CountsStep, RowsStep, WanStep, FlagsStep, StatesStep,
     InfoStep, PlaceStep
<1>3. TypeOK'
  BY <1>2 DEF TypeOK, QueueOK, ListOK, CountsOK, RowsOK, WanOK, FlagsOK, StatesOK
<1>4. QED
  BY <1>2, <1>3 DEF TypeInv

\* The state stays within its types for any interfaces, as many as there may be:
\* the count never exceeds the array, and without the poller the main thread
\* never writes past its end.
THEOREM TypeCorrect == Spec => []TypeOK
<1>1. Init => TypeInv
  BY TypeInit
<1>2. TypeInv /\ [Next]_vars => TypeInv'
  BY TypeStep
<1>3. TypeInv => TypeOK
  BY DEF TypeInv
<1>4. QED
  BY <1>1, <1>2, <1>3, PTL DEF Spec

-----------------------------------------------------------------------------
(***************************************************************************)
(* With the poller or without it: Enable of the virtual interfaces and the *)
(* cached count.                                                           *)
(***************************************************************************)
LEMMA EnableStep ==
    ASSUME TypeInv, EnableInv, [Next]_vars
    PROVE  EnableInv'
<1>0. QueueOK /\ StatesOK /\ WanOK /\ InfoInv /\ EnableInv
  BY TypeParts DEF TypeInv
<1>. USE DEF EnableInv, Using
<1>1. CASE TakeEvent
  <2>1. Head(events) \in Interface
    BY <1>0, <1>1, HeadTailProperties DEF TakeEvent, QueueOK
  <2>2. /\ mpc = "idle" /\ mpc' = "find" /\ info' = Head(events)
        /\ last' = [last EXCEPT ![info'.name] = Status(info'.up)]
        /\ info'.name \in Name /\ UNCHANGED <<wan, failed>>
    BY <1>1, <2>1 DEF TakeEvent, MainGoes, wanVars, Interface
  <2>3. QED
    BY <1>0, <2>2 DEF StatesOK
<1>2. CASE EnableVirtualInterface
  <2>1. /\ mpc = "enable" /\ mpc' = "any_up" /\ last' = last
        /\ info.name \in Name /\ last[info.name] = Status(info.up)
        /\ WanSet(info.name, [wan EXCEPT !.enable[info.name] = Status(info.up)])
    BY <1>0, <1>2 DEF EnableVirtualInterface, MainGoes, InfoInv, Using, Interface
  <2>2. CASE /\ wan' = [wan EXCEPT !.enable[info.name] = Status(info.up)]
             /\ failed' = failed \ {info.name}
    <3>1. wan'.enable = [wan.enable EXCEPT ![info.name] = Status(info.up)]
      BY <1>0, <2>2 DEF WanOK
    <3>2. wan.enable \in [Name -> {"unknown", "up", "down"}]
      BY <1>0 DEF WanOK
    <3>3. QED
      BY <1>0, <2>1, <2>2, <3>1, <3>2
  <2>3. CASE UNCHANGED wan /\ failed' = failed \cup {info.name}
    BY <1>0, <2>1, <2>3
  <2>4. QED
    BY <2>1, <2>2, <2>3 DEF WanSet
<1>3. CASE NotifyPhy
  <2>1. /\ mpc \notin Using /\ UNCHANGED <<last, info>> /\ mpc' \notin Using
        /\ WanSet("phy", [wan EXCEPT !.phy = Status(phy_is_up)])
    BY <1>3 DEF NotifyPhy, MainGoes
  <2>2. wan'.enable = wan.enable /\ (failed' = failed \ {"phy"} \/ failed' = failed \cup {"phy"})
    BY <1>0, <2>1 DEF WanSet, WanOK
  <2>3. QED
    BY <1>0, <2>1, <2>2, InterfaceAssumption
<1>4. CASE FindInterface \/ AppendRead \/ AppendCount \/ StoreInterface
  BY <1>0, <1>4 DEF FindInterface, AppendRead, AppendCount, StoreInterface, MainGoes, wanVars
<1>5. CASE HasAnyInterfaceUp \/ CountList \/ CompareCount \/ MainSync \/ Recount \/ CacheCount
  BY <1>0, <1>5 DEF HasAnyInterfaceUp, CountList, CompareCount, MainSync, Recount, CacheCount,
                    MainGoes, wanVars
<1>6. CASE RaiseInterface \/ Poller \/ UNCHANGED vars
  BY <1>0, <1>6
     DEF RaiseInterface, Poller, PollLock, HalFills, HalFails, PollCompare, PollCache, PollSync,
         PollerGoes, mainVars, wanVars, vars
<1>7. QED
  BY <1>1, <1>2, <1>3, <1>4, <1>5, <1>6 DEF Next, Main

LEMMA CountStep ==
    ASSUME CountInv, [Next]_vars
    PROVE  CountInv'
<1>. USE DEF CountInv
<1>1. CASE TakeEvent
  <2>1. mpc = "idle" /\ mpc' = "find" /\ ppc' = ppc
    BY <1>1 DEF TakeEvent, MainGoes, pollVars
  <2>2. ~raced' => ppc = "idle"
    BY <1>1 DEF TakeEvent
  <2>3. QED
    BY <2>1, <2>2
<1>2. CASE FindInterface \/ AppendRead \/ AppendCount \/ StoreInterface \/ EnableVirtualInterface
           \/ HasAnyInterfaceUp \/ NotifyPhy
  <2>1. /\ mpc # "idle" /\ mpc' \notin {"idle", "compare", "cache"}
        /\ UNCHANGED <<raced, ppc>>
    BY <1>2 DEF FindInterface, AppendRead, AppendCount, StoreInterface, EnableVirtualInterface,
                HasAnyInterfaceUp, NotifyPhy, MainGoes, pollVars
  <2>2. QED
    BY <2>1
<1>3. CASE CountList \/ CompareCount \/ MainSync \/ Recount \/ CacheCount
  <2>1. UNCHANGED <<raced, ppc, interface_count>> /\ mpc # "idle"
    BY <1>3 DEF CountList, CompareCount, MainSync, Recount, CacheCount, MainGoes, pollVars, listVars
  <2>2. CASE CountList \/ Recount
    BY <2>1, <2>2 DEF CountList, Recount, MainGoes
  <2>3. CASE CompareCount
    BY <2>1, <2>3 DEF CompareCount, MainGoes
  <2>4. CASE MainSync
    BY <2>1, <2>4 DEF MainSync, MainGoes
  <2>5. CASE CacheCount
    BY <2>1, <2>5 DEF CacheCount, MainGoes
  <2>6. QED
    BY <1>3, <2>2, <2>3, <2>4, <2>5
<1>4. CASE PollLock
  <2>1. ppc' = "fill" /\ UNCHANGED mpc
    BY <1>4 DEF PollLock, PollerGoes, mainVars
  <2>2. ~raced' => mpc = "idle"
    BY <1>4 DEF PollLock
  <2>3. QED
    BY <2>1, <2>2
<1>5. CASE HalFails
  BY <1>5 DEF HalFails
<1>6. CASE HalFills \/ PollCompare \/ PollCache \/ PollSync
  <2>1. UNCHANGED <<raced, mpc, main_count>> /\ ppc # "idle"
    BY <1>6 DEF HalFills, PollCompare, PollCache, PollSync, PollerGoes, mainVars
  <2>2. CASE HalFills
    BY <2>1, <2>2 DEF HalFills, PollerGoes
  <2>3. CASE PollCompare
    BY <2>1, <2>3 DEF PollCompare, PollerGoes, listVars
  <2>4. CASE PollCache
    BY <2>1, <2>4 DEF PollCache, PollerGoes, listVars
  <2>5. CASE PollSync
    BY <2>1, <2>5 DEF PollSync, PollerGoes, listVars
  <2>6. QED
    BY <1>6, <2>2, <2>3, <2>4, <2>5
<1>7. CASE RaiseInterface \/ UNCHANGED vars
  BY <1>7 DEF RaiseInterface, listVars, mainVars, pollVars, vars
<1>8. QED
  BY <1>1, <1>2, <1>3, <1>4, <1>5, <1>6, <1>7 DEF Next, Main, Poller

-----------------------------------------------------------------------------
(***************************************************************************)
(* Without the poller: the list.                                           *)
(***************************************************************************)
LEMMA ListParts ==
    ASSUME IInv
    PROVE  /\ QueueOK /\ ListOK /\ CountsOK /\ RowsOK /\ WanOK /\ FlagsOK /\ StatesOK
           /\ HalInv /\ InfoInv /\ PlaceInv /\ SpaceInv
           /\ EnableInv /\ CountInv /\ ListInv /\ PhyInv /\ RowInv
  BY TypeParts DEF IInv, TypeInv

\* Between two stores every entry in use is known.
LEMMA AllKnown == mpc # "store" => Known = Listed
  BY DEF Known

LEMMA ListTake ==
    ASSUME IInv, ~polling, TakeEvent
    PROVE  ListInv'
<1>0. QueueOK /\ StatesOK /\ ListInv
  BY ListParts
<1>1. Head(events) \in Interface
  BY <1>0, HeadTailProperties DEF TakeEvent, QueueOK
<1>2. /\ mpc = "idle" /\ mpc' = "find" /\ info' = Head(events) /\ info'.name \in Name
      /\ last' = [last EXCEPT ![info'.name] = Status(info'.up)]
      /\ UNCHANGED <<interface, interface_count, polling>>
  BY <1>1 DEF TakeEvent, MainGoes, listVars, pollVars, Interface
<1>3. Known = Listed /\ Known' = Listed
  BY <1>2 DEF Known, Listed
<1>4. (\A n : ~Waiting(n)) /\ (\A n : n = info'.name => Waiting(n)')
  BY <1>2 DEF Waiting, Pending
<1>5. \A n \in Name : n # info'.name => last'[n] = last[n]
  BY <1>0, <1>2 DEF StatesOK
<1>6. \A i \in Listed : interface[i] \in Interface /\ interface[i].name \in Name
  BY <1>0, <1>3 DEF ListInv, Interface
<1>7. \A i \in Listed : \/ interface[i].name = info'.name
                        \/ /\ last'[interface[i].name] # "none"
                           /\ last'[interface[i].name] = Status(interface[i].up)
  BY <1>0, <1>3, <1>4, <1>5, <1>6 DEF ListInv
<1>8. \A n \in Name : \/ last'[n] = "none" \/ n = info'.name \/ interface_count = MaxInterfaces
                      \/ \E i \in Listed : interface[i].name = n
  BY <1>0, <1>3, <1>4, <1>5 DEF ListInv
<1>9. \A i, j \in Listed : interface[i].name = interface[j].name => i = j
  BY <1>0, <1>3 DEF ListInv
<1>10. QED
  BY <1>2, <1>3, <1>4, <1>6, <1>7, <1>8, <1>9 DEF ListInv

LEMMA ListFind ==
    ASSUME IInv, ~polling, FindInterface
    PROVE  ListInv'
<1>0. ListOK /\ StatesOK /\ InfoInv /\ ListInv
  BY ListParts
<1>1. /\ mpc = "find" /\ UNCHANGED <<interface, interface_count, info, last, polling>>
      /\ mpc' \in {"store", "append", "enable"}
  BY DEF FindInterface, MainGoes, listVars, pollVars
<1>2. Known = Listed /\ Listed' = Listed
  BY <1>1 DEF Known, Listed
<1>3. \A n : Waiting(n) <=> info.name = n
  BY <1>1 DEF Waiting, Pending
<1>4. CASE \E i \in Listed : First(i) /\ place' = i /\ MainGoes("find", "store")
  <2>1. mpc' = "store" /\ place' \in Listed /\ interface[place'].name = info.name
    BY <1>4 DEF First, Places, MainGoes
  <2>2. Known' = Listed \ {place'}
    BY <1>2, <2>1 DEF Known
  <2>3. \A n : Waiting(n)' <=> Waiting(n)
    BY <1>1, <1>3, <2>1 DEF Waiting, Pending
  <2>4. \A n \in Name : \/ last[n] = "none" \/ Waiting(n) \/ interface_count = MaxInterfaces
                        \/ \E i \in Listed \ {place'} : interface[i].name = n
    BY <1>0, <1>2, <1>3, <2>1 DEF ListInv
  <2>5. \A i \in Listed \ {place'} : interface[i].name # info.name
    BY <1>0, <1>2, <2>1 DEF ListInv
  <2>6. \A i \in Listed \ {place'} :
            /\ interface[i] \in Interface
            /\ last[interface[i].name] # "none" \/ Waiting(interface[i].name)
            /\ Waiting(interface[i].name) \/ last[interface[i].name] = Status(interface[i].up)
    BY <1>0, <1>2 DEF ListInv
  <2>7. \A i, j \in Listed \ {place'} : interface[i].name = interface[j].name => i = j
    BY <1>0, <1>2 DEF ListInv
  <2>8. QED
    BY <1>1, <1>2, <2>1, <2>2, <2>3, <2>4, <2>5, <2>6, <2>7 DEF ListInv
<1>5. CASE /\ Places = {}
           /\ place' = 0
           /\ MainGoes("find", IF interface_count < MaxInterfaces THEN "append" ELSE "enable")
  <2>1. Known' = Listed /\ mpc' \in {"append", "enable"}
    BY <1>2, <1>5 DEF Known, MainGoes
  <2>2. \A i \in Listed : interface[i].name # info.name
    BY <1>5 DEF Places
  <2>3. interface_count = MaxInterfaces \/ mpc' = "append"
    BY <1>0, <1>5, InterfaceAssumption DEF MainGoes, ListOK
  <2>4. \A n : mpc' = "append" => (Waiting(n)' <=> Waiting(n))
    BY <1>1, <1>3 DEF Waiting, Pending
  <2>5. \A i \in Listed :
            /\ interface[i] \in Interface
            /\ last[interface[i].name] # "none"
            /\ last[interface[i].name] = Status(interface[i].up)
    BY <1>0, <1>2, <1>3, <2>2 DEF ListInv
  <2>6. \A i, j \in Listed : interface[i].name = interface[j].name => i = j
    BY <1>0, <1>2 DEF ListInv
  <2>7. \A n \in Name : \/ last[n] = "none" \/ interface_count = MaxInterfaces
                        \/ Waiting(n)' \/ \E i \in Listed : interface[i].name = n
    BY <1>0, <1>2, <2>3, <2>4 DEF ListInv
  <2>8. QED
    BY <1>1, <2>1, <2>2, <2>5, <2>6, <2>7 DEF ListInv
<1>6. QED
  BY <1>4, <1>5 DEF FindInterface

LEMMA ListAppend ==
    ASSUME IInv, ~polling, AppendRead \/ AppendCount
    PROVE  ListInv'
<1>0. ListOK /\ SpaceInv /\ ListInv
  BY ListParts
<1>1. UNCHANGED <<interface, info, last, polling>>
  BY DEF AppendRead, AppendCount, MainGoes, listVars, pollVars
<1>2. CASE AppendRead
  <2>1. /\ mpc = "append" /\ mpc' = "count" /\ place' = interface_count + 1
        /\ UNCHANGED interface_count
    BY <1>0, <1>2 DEF AppendRead, MainGoes, SpaceInv, listVars
  <2>2. Known' = Known
    BY <2>1 DEF Known, Listed
  <2>3. \A n : Waiting(n)' <=> Waiting(n)
    BY <1>1, <2>1 DEF Waiting, Pending
  <2>4. QED
    BY <1>0, <1>1, <2>1, <2>2, <2>3 DEF ListInv
<1>3. CASE AppendCount
  <2>1. /\ mpc = "count" /\ mpc' = "store" /\ place = interface_count + 1
        /\ place' = place /\ interface_count' = place
    BY <1>0, <1>3 DEF AppendCount, MainGoes, ListInv
  <2>2. Known = Listed /\ Known' = Listed /\ place' \in Listed'
    BY <1>0, <2>1 DEF Known, Listed, ListOK
  <2>3. \A n : Waiting(n)' <=> Waiting(n)
    BY <1>1, <2>1 DEF Waiting, Pending
  <2>4. interface_count < MaxInterfaces
    <3>1. PlaceInv
      BY ListParts
    <3>2. QED
      BY <1>0, <2>1, <3>1, InterfaceAssumption DEF PlaceInv, Place, ListOK
  <2>5. interface_count # MaxInterfaces
    BY <1>0, <2>4, InterfaceAssumption DEF ListOK
  <2>6. QED
    BY <1>0, <1>1, <2>1, <2>2, <2>3, <2>5 DEF ListInv
<1>4. QED
  BY <1>2, <1>3

LEMMA ListStore ==
    ASSUME IInv, ~polling, StoreInterface
    PROVE  ListInv'
<1>0. ListOK /\ StatesOK /\ InfoInv /\ PlaceInv /\ ListInv
  BY ListParts
<1>1. /\ mpc = "store" /\ mpc' = "enable"
      /\ interface' = [interface EXCEPT ![place] = info]
      /\ UNCHANGED <<interface_count, info, last, polling>>
  BY DEF StoreInterface, MainGoes, pollVars
<1>2. /\ info \in Interface /\ info.name \in Name /\ last[info.name] = Status(info.up)
  BY <1>0, <1>1 DEF InfoInv, Using, Interface
<1>3. place \in Listed /\ Known = Listed \ {place} /\ Known' = Listed
  BY <1>0, <1>1 DEF ListInv, Known, Listed
<1>4. /\ interface'[place] = info
      /\ \A i \in Listed \ {place} : interface'[i] = interface[i]
  BY <1>0, <1>1 DEF ListOK, PlaceInv
<1>5. \A i \in Listed \ {place} :
          /\ interface[i] \in Interface /\ interface[i].name # info.name
          /\ last[interface[i].name] = Status(interface[i].up)
  BY <1>0, <1>1, <1>3 DEF ListInv, Waiting
<1>6. \A i \in Listed : /\ interface'[i] \in Interface
                        /\ last'[interface'[i].name] = Status(interface'[i].up)
  BY <1>1, <1>2, <1>4, <1>5
<1>7. \A i \in Listed : last'[interface'[i].name] # "none"
  BY <1>6 DEF Status
<1>8. \A i, j \in Listed : interface'[i].name = interface'[j].name => i = j
  BY <1>0, <1>3, <1>4, <1>5 DEF ListInv
<1>9. \A n \in Name : \/ last'[n] = "none" \/ interface_count' = MaxInterfaces
                      \/ \E i \in Listed : interface'[i].name = n
  BY <1>0, <1>1, <1>3, <1>4 DEF ListInv, Waiting
<1>10. QED
  BY <1>1, <1>3, <1>6, <1>7, <1>8, <1>9 DEF ListInv

LEMMA ListStep ==
    ASSUME IInv, [Next]_vars
    PROVE  ListInv'
<1>0. SpaceInv /\ ListInv
  BY ListParts
<1>1. CASE polling
  BY <1>1, PollingStays DEF ListInv
<1>2. CASE ~polling /\ (TakeEvent \/ FindInterface \/ AppendRead \/ AppendCount \/ StoreInterface)
  BY <1>2, ListTake, ListFind, ListAppend, ListStore
<1>3. CASE ~polling /\ (\/ EnableVirtualInterface \/ HasAnyInterfaceUp \/ NotifyPhy
                        \/ CountList \/ CompareCount \/ MainSync \/ Recount \/ CacheCount)
  <2>1. /\ UNCHANGED <<interface, interface_count, last, polling>>
        /\ mpc \notin Pending /\ mpc' \notin Pending
    BY <1>3 DEF EnableVirtualInterface, HasAnyInterfaceUp, NotifyPhy, CountList, CompareCount,
                MainSync, Recount, CacheCount, MainGoes, Pending, listVars, pollVars
  <2>2. Known = Listed /\ Known' = Listed
    BY <2>1 DEF Known, Pending, Listed
  <2>3. QED
    BY <1>0, <1>3, <2>1, <2>2 DEF ListInv, Waiting, Pending
<1>4. CASE RaiseInterface \/ UNCHANGED vars
  <2>1. UNCHANGED <<interface, interface_count, mpc, info, place, last, polling>>
    BY <1>4 DEF RaiseInterface, listVars, mainVars, pollVars, vars
  <2>2. Known' = Known /\ Listed' = Listed
    BY <2>1 DEF Known, Listed
  <2>3. QED
    BY <1>0, <2>1, <2>2 DEF ListInv, Waiting
<1>5. CASE ~polling /\ Poller
  BY <1>0, <1>5, NoPoller
<1>6. QED
  BY <1>1, <1>2, <1>3, <1>4, <1>5 DEF Next, Main

-----------------------------------------------------------------------------
(***************************************************************************)
(* Without the poller: the PHY status and the rows.                        *)
(***************************************************************************)
\* has_any_interface_up says what the last events said.
LEMMA AnyUpInList ==
    ASSUME ListInv, ~polling, mpc = "any_up"
    PROVE  (\E i \in Listed : interface[i].up) <=> AnyUp
<1>1. \A i \in Listed : /\ interface[i] \in Interface
                        /\ last[interface[i].name] = Status(interface[i].up)
  BY DEF ListInv, Waiting, Pending, Known
<1>2. \A i \in Listed : interface[i].up <=> last[interface[i].name] = "up"
  BY <1>1 DEF Status, Interface
<1>3. QED
  BY <1>2 DEF AnyUp

LEMMA PhyStep ==
    ASSUME IInv, [Next]_vars
    PROVE  PhyInv'
<1>0. FlagsOK /\ WanOK /\ SpaceInv /\ ListInv /\ PhyInv
  BY ListParts
<1>1. CASE polling
  BY <1>1, PollingStays DEF PhyInv
<1>2. CASE ~polling /\ HasAnyInterfaceUp
  <2>1. mpc = "any_up" /\ mpc' = "notify" /\ UNCHANGED <<last, interface, interface_count>>
    BY <1>2 DEF HasAnyInterfaceUp, MainGoes, listVars
  <2>2. phy_is_up' = \E i \in Listed : interface[i].up
    BY <1>2 DEF HasAnyInterfaceUp
  <2>3. AnyUp' = AnyUp
    BY <2>1 DEF AnyUp, Listed
  <2>4. (\E i \in Listed : interface[i].up) <=> AnyUp
    BY <1>0, <1>2, <2>1, AnyUpInList
  <2>5. phy_is_up' <=> AnyUp'
    BY <2>2, <2>3, <2>4
  <2>6. QED
    BY <2>1, <2>5 DEF PhyInv
<1>3. CASE ~polling /\ NotifyPhy
  <2>1. /\ mpc = "notify" /\ mpc' = "count_list" /\ UNCHANGED <<last, interface, interface_count>>
        /\ WanSet("phy", [wan EXCEPT !.phy = Status(phy_is_up)])
    BY <1>3 DEF NotifyPhy, MainGoes, listVars
  <2>2. Status(phy_is_up) = Status(AnyUp)'
    <3>1. phy_is_up <=> AnyUp
      BY <1>0, <1>3, <2>1 DEF PhyInv
    <3>2. AnyUp' = AnyUp
      BY <2>1 DEF AnyUp, Listed
    <3>3. Status(phy_is_up) = Status(AnyUp) /\ Status(AnyUp)' = Status(AnyUp)
      BY <3>1, <3>2 DEF Status
    <3>4. QED
      BY <3>3
  <2>3. "phy" \notin failed' => wan'.phy = Status(phy_is_up)
    BY <1>0, <2>1 DEF WanSet, WanOK
  <2>4. QED
    BY <2>1, <2>2, <2>3 DEF PhyInv
<1>4. CASE ~polling /\ (CountList \/ CompareCount \/ MainSync \/ Recount \/ CacheCount)
  <2>1. /\ mpc \in {"count_list", "compare", "sync", "recount", "cache"}
        /\ mpc' \in {"compare", "sync", "recount", "cache", "idle"}
        /\ UNCHANGED <<last, wan, failed, interface, interface_count>>
    BY <1>4 DEF CountList, CompareCount, MainSync, Recount, CacheCount, MainGoes, wanVars, listVars
  <2>2. AnyUp' = AnyUp /\ Status(AnyUp)' = Status(AnyUp)
    BY <2>1 DEF AnyUp, Listed, Status
  <2>3. QED
    BY <1>0, <1>4, <2>1, <2>2 DEF PhyInv
<1>5. CASE \/ TakeEvent \/ FindInterface \/ AppendRead \/ AppendCount \/ StoreInterface
           \/ EnableVirtualInterface
  <2>1. mpc' \in {"find", "append", "count", "store", "enable", "any_up", "overrun"}
    BY <1>5 DEF TakeEvent, FindInterface, AppendRead, AppendCount, StoreInterface,
                EnableVirtualInterface, MainGoes
  <2>2. QED
    BY <2>1 DEF PhyInv
<1>6. CASE RaiseInterface \/ UNCHANGED vars
  <2>1. UNCHANGED <<mpc, phy_is_up, polling, last, wan, failed, interface, interface_count>>
    BY <1>6 DEF RaiseInterface, mainVars, wanVars, listVars, pollVars, vars
  <2>2. AnyUp' = AnyUp /\ Status(AnyUp)' = Status(AnyUp)
    BY <2>1 DEF AnyUp, Listed, Status
  <2>3. QED
    BY <1>0, <2>1, <2>2 DEF PhyInv
<1>7. CASE ~polling /\ Poller
  BY <1>0, <1>7, NoPoller
<1>8. QED
  BY <1>1, <1>2, <1>3, <1>4, <1>5, <1>6, <1>7 DEF Next, Main

LEMMA RowSync ==
    ASSUME IInv, ~polling, MainSync
    PROVE  RowInv'
<1>0. ListOK /\ CountsOK /\ RowsOK /\ RowInv
  BY ListParts
<1>. DEFINE missing == {r \in Row : r <= interface_count /\ rows[r] = NoRow}
<1>1. /\ UNCHANGED <<interface, interface_count, count_cache>> /\ mpc' = "recount"
      /\ refused' \in SUBSET missing
      /\ rows' = [r \in Row |-> IF r \in missing \ refused' THEN interface[r].name ELSE rows[r]]
  BY DEF MainSync, MainGoes, sync_veip_table, listVars
<1>2. /\ interface_count \in Nat /\ count_cache \in Nat /\ count_cache <= interface_count
      /\ \A r \in Row : r \in Nat /\ r >= 1
  BY <1>0, InterfaceAssumption DEF ListOK, CountsOK, RowInv, Row
<1>3. \A r \in missing : r \in Listed /\ interface[r].name # NoRow
  <2>1. \A r \in missing : r \in Listed /\ r \in Place
    BY <1>0, <1>2, InterfaceAssumption DEF ListOK, Listed, Place
  <2>2. QED
    BY <1>0, <2>1, InterfaceAssumption DEF ListOK, Interface, NoInterface
<1>4. ASSUME NEW r \in Row, rows'[r] # NoRow
      PROVE  r \in Listed' /\ rows'[r] = interface'[r].name
  <2>1. Listed' = Listed
    BY <1>1 DEF Listed
  <2>2. CASE r \in missing \ refused'
    BY <1>1, <1>3, <2>1, <2>2
  <2>3. CASE r \notin missing \ refused'
    BY <1>0, <1>1, <1>4, <2>1, <2>3 DEF RowInv
  <2>4. QED
    BY <2>2, <2>3
<1>5. ASSUME NEW r \in Row, r <= count_cache \/ r <= interface_count
      PROVE  r \in refused' \/ rows'[r] # NoRow
  <2>1. CASE r \in missing
    BY <1>1, <1>3, <2>1
  <2>2. CASE r \notin missing
    BY <1>1, <1>2, <1>5, <2>2
  <2>3. QED
    BY <2>1, <2>2
<1>. HIDE DEF missing
<1>6. QED
  BY <1>1, <1>2, <1>4, <1>5 DEF RowInv

LEMMA RowStep ==
    ASSUME IInv, [Next]_vars
    PROVE  RowInv'
<1>0. /\ ListOK /\ CountsOK /\ RowsOK /\ PlaceInv /\ SpaceInv /\ InfoInv
      /\ CountInv /\ ListInv /\ RowInv
  BY ListParts
<1>1. CASE polling
  BY <1>1, PollingStays DEF RowInv
<1>2. CASE ~polling /\ FindInterface
  <2>1. /\ UNCHANGED <<interface, interface_count, count_cache, rows, refused, info>>
        /\ mpc' \in {"store", "append", "enable"}
    BY <1>2 DEF FindInterface, MainGoes, listVars, rowVars
  <2>2. mpc' = "store" => interface[place'].name = info.name
    BY <1>2 DEF FindInterface, MainGoes, First, Places
  <2>3. QED
    BY <1>0, <1>2, <2>1, <2>2 DEF RowInv, Listed
<1>3. CASE ~polling /\ AppendCount
  <2>1. /\ UNCHANGED <<interface, count_cache, rows, refused, place>>
        /\ mpc' = "store" /\ interface_count' = interface_count + 1 /\ place = interface_count + 1
    BY <1>0, <1>3 DEF AppendCount, MainGoes, rowVars, ListInv
  <2>2. interface_count \in Nat /\ count_cache \in Nat /\ count_cache <= interface_count
    BY <1>0, <1>3, InterfaceAssumption DEF ListOK, CountsOK, RowInv
  <2>3. \A r \in Row : r \in Nat /\ (r \in Listed => r \in Listed') /\ place \notin Listed
    BY <2>1, <2>2, InterfaceAssumption DEF Row, Listed
  <2>4. place \in Row => rows[place] = NoRow
    BY <1>0, <1>3, <2>3 DEF RowInv
  <2>5. count_cache' <= interface_count'
    BY <2>1, <2>2
  <2>6. QED
    BY <1>0, <1>3, <2>1, <2>3, <2>4, <2>5 DEF RowInv
<1>4. CASE ~polling /\ StoreInterface
  <2>1. /\ interface' = [interface EXCEPT ![place] = info] /\ mpc = "store" /\ mpc' = "enable"
        /\ UNCHANGED <<interface_count, count_cache, rows, refused>>
    BY <1>4 DEF StoreInterface, MainGoes, rowVars
  <2>2. place \in Place /\ \A r \in Listed : r \in Place
    BY <1>0, <2>1, InterfaceAssumption DEF PlaceInv, ListOK, Listed, Place
  <2>3. \A r \in Row : rows[r] # NoRow => interface'[r].name = interface[r].name
    BY <1>0, <1>4, <2>1, <2>2 DEF RowInv, ListOK
  <2>4. QED
    BY <1>0, <1>4, <2>1, <2>3 DEF RowInv, Listed
<1>5. CASE ~polling /\ MainSync
  BY <1>5, RowSync
<1>6. CASE ~polling /\ (Recount \/ CacheCount)
  <2>1. UNCHANGED <<interface, interface_count, rows, refused>>
    BY <1>6 DEF Recount, CacheCount, MainGoes, listVars, rowVars
  <2>2. CASE Recount
    <3>1. UNCHANGED count_cache /\ mpc = "recount" /\ mpc' = "cache"
      BY <2>2 DEF Recount, MainGoes
    <3>2. QED
      BY <1>0, <1>6, <2>1, <3>1 DEF RowInv, Listed
  <2>3. CASE CacheCount
    <3>1. count_cache' = interface_count /\ mpc = "cache" /\ mpc' = "idle"
      BY <1>0, <1>6, <2>3 DEF CacheCount, MainGoes, CountInv, SpaceInv
    <3>2. count_cache' <= interface_count'
      BY <1>0, <2>1, <3>1 DEF ListOK
    <3>3. QED
      BY <1>0, <1>6, <2>1, <3>1, <3>2 DEF RowInv, Listed
  <2>4. QED
    BY <1>6, <2>2, <2>3
<1>7. CASE ~polling /\ (\/ TakeEvent \/ AppendRead \/ EnableVirtualInterface \/ HasAnyInterfaceUp
                        \/ NotifyPhy \/ CountList \/ CompareCount)
  <2>1. /\ UNCHANGED <<interface, interface_count, count_cache, rows, refused>>
        /\ mpc' \notin {"store", "recount", "cache"}
    BY <1>7 DEF TakeEvent, AppendRead, EnableVirtualInterface, HasAnyInterfaceUp, NotifyPhy,
                CountList, CompareCount, MainGoes, listVars, rowVars
  <2>2. QED
    BY <1>0, <1>7, <2>1 DEF RowInv, Listed
<1>8. CASE RaiseInterface \/ UNCHANGED vars
  <2>1. UNCHANGED <<interface, interface_count, count_cache, rows, refused, mpc, place, info, polling>>
    BY <1>8 DEF RaiseInterface, listVars, rowVars, mainVars, pollVars, vars
  <2>2. QED
    BY <1>0, <2>1 DEF RowInv, Listed
<1>9. CASE ~polling /\ Poller
  BY <1>0, <1>9, NoPoller
<1>10. QED
  BY <1>1, <1>2, <1>3, <1>4, <1>5, <1>6, <1>7, <1>8, <1>9 DEF Next, Main

-----------------------------------------------------------------------------
(***************************************************************************)
(* What the properties say.                                                *)
(***************************************************************************)
LEMMA InitInv == Init => IInv
<1>. SUFFICES ASSUME Init PROVE IInv
  OBVIOUS
<1>1. Listed = {} /\ Known = {}
  BY DEF Init, Listed, Known
<1>2. EnableInv /\ CountInv
  BY DEF Init, EnableInv, CountInv
<1>3. ListInv /\ PhyInv
  BY <1>1 DEF Init, ListInv, PhyInv
<1>4. RowInv
  <2>1. \A r \in Row : ~(r <= 0)
    BY InterfaceAssumption DEF Row
  <2>2. QED
    BY <1>1, <2>1 DEF Init, RowInv
<1>5. QED
  BY <1>2, <1>3, <1>4, TypeInit DEF IInv

LEMMA Invariance == Spec => []IInv
<1>1. IInv /\ [Next]_vars => IInv'
  BY TypeStep, EnableStep, CountStep, ListStep, PhyStep, RowStep DEF IInv
<1>2. QED
  BY InitInv, <1>1, PTL DEF Spec

\* Between two events WanManager was last told what the events said, for any
\* interfaces and whatever sets of its parameters fail.
THEOREM WanFollows == Spec => []WanFollowsEvents
<1>1. IInv => WanFollowsEvents
  <2>. SUFFICES ASSUME IInv, mpc = "idle" PROVE WanFollowsEvents
    BY DEF WanFollowsEvents
  <2>1. \A n \in Name \ failed : last[n] # "none" => wan.enable[n] = last[n]
    BY DEF IInv, EnableInv, Using
  <2>2. ~polling /\ "phy" \notin failed /\ (\E n \in Name : last[n] # "none")
           => wan.phy = Status(\E i \in Listed : last[interface[i].name] = "up")
    BY DEF IInv, PhyInv, AnyUp
  <2>3. QED
    BY <2>1, <2>2 DEF WanFollowsEvents
<1>2. QED
  BY <1>1, Invariance, PTL

\* Without the poller every interface that had an event has its one row, or finds
\* the array full and has none, for tables and lists of any size.
THEOREM OneRow == Spec => []OneRowPerInterface
<1>1. IInv => OneRowPerInterface
  <2>. SUFFICES ASSUME IInv, ~polling, mpc = "idle", NEW n \in Name, last[n] # "none"
                PROVE  \/ \E i \in Listed :
                             /\ \A j \in Listed : interface[j].name = n <=> j = i
                             /\ i \in Row \ refused => rows[i] = n
                             /\ \A r \in Row \ {i} : rows[r] # n
                       \/ /\ interface_count = MaxInterfaces
                          /\ \A i \in Listed : interface[i].name # n
                          /\ \A r \in Row : rows[r] # n
    BY DEF OneRowPerInterface
  <2>1. ListOK /\ SpaceInv /\ ListInv /\ RowInv /\ CountInv /\ Known = Listed
    BY ListParts DEF Known
  <2>2. count_cache = interface_count
    BY <2>1 DEF CountInv, SpaceInv
  <2>3. \A r \in Row : rows[r] = n => r \in Listed /\ interface[r].name = n
    BY <2>1, InterfaceAssumption DEF RowInv
  <2>4. CASE \A i \in Listed : interface[i].name # n
    <3>1. interface_count = MaxInterfaces
      BY <2>1, <2>4 DEF ListInv, Waiting, Pending
    <3>2. QED
      BY <2>3, <2>4, <3>1
  <2>5. ASSUME NEW i \in Listed, interface[i].name = n
        PROVE  /\ \A j \in Listed : interface[j].name = n <=> j = i
               /\ i \in Row \ refused => rows[i] = n
               /\ \A r \in Row \ {i} : rows[r] # n
    <3>1. \A j \in Listed : interface[j].name = n <=> j = i
      BY <2>1, <2>5 DEF ListInv
    <3>2. i <= count_cache
      BY <2>1, <2>2, <2>5 DEF Listed, ListOK
    <3>3. ASSUME i \in Row \ refused PROVE rows[i] = n
      <4>1. rows[i] # NoRow
        BY <2>1, <3>2, <3>3 DEF RowInv
      <4>2. QED
        BY <2>1, <2>5, <3>3, <4>1 DEF RowInv
    <3>4. \A r \in Row \ {i} : rows[r] # n
      BY <2>3, <3>1
    <3>5. QED
      BY <3>1, <3>3, <3>4
  <2>6. QED
    BY <2>4, <2>5
<1>2. QED
  BY <1>1, Invariance, PTL

\* At rest the cached count is the list's, whichever thread changed the list last,
\* unless the last turns of the two overlapped or the HAL failed in one.
THEOREM CountIsRight == Spec => []CountSettles
<1>1. IInv => CountSettles
  BY DEF IInv, CountInv, CountSettles
<1>2. QED
  BY <1>1, Invariance, PTL
=============================================================================
