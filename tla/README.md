# A verification project for epon-manager

epon-manager is the RDK daemon between the vendor's EPON HAL, the RBus message
bus and WAN Manager. It is a C program of some 7000 lines with four kinds of
threads whose interplay this project models in TLA+, model-checks with TLC and
proves, its safety nearly throughout, with TLAPS. All paths below are relative to the repository.

## 1. The system

| Component | Source | State | Operations |
|---|---|---|---|
| Event queue | `src/core/data_structures/eponMgr_queue.c` | ring buffer, head, tail, count, mutex | init, destroy, push, pop, is_empty, is_full, size |
| Controller | `src/core/controller/eponMgr_controller.c`, `src/core/epon_manager_main.c` | `g_controller`, `running`, `shutdown_requested`, `mutex`, `event_mutex`/`event_cond` | init, HAL callbacks, run (event loop), three event handlers, shutdown (from SIGINT/SIGTERM), destroy |
| Stats poller | `src/core/stats_poller/eponMgr_stats_poller.c` | enabled, interval, running, shutdown_requested, thread, mutex/cond | init, thread loop, start, stop, set_enabled, set_interval, destroy |
| Data context | `src/core/data_structures/eponMgr_data.c`, `eponMgr_statsData.c` | cached statistics (TTL), cached info, LLID/CPE/interface lists, recursive mutex, `g_eponData` | init, hal_init, twelve getters, lock/unlock, clear_stats, reset, factory_reset, destroy |
| ONU state | `eponMgr_onu_state.c` | status, last change | update, get |
| Interface list and VEIP table | controller `process_interface_status_event`, `eponMgr_data_get_interface_list`, `eponMgr_tr181_sync_veip_table` | list, cached count, registered rows | event, refresh, sync |
| TR-181 | `src/rbus/tr181/eponMgr_tr181.c` | handle, LLID/CPE/VEIP rows | GET and SET handlers, table syncs, cleanup |
| RBus connection | `src/rbus/eponMgr_rbus.c` | handle | init, register_tr181, cleanup |
| WAN Manager update | `src/rbus/wanmanager_update/eponMgr_wanmanager_update.c` | cached interface index | set PHY status, set virtual interface |
| Persistence, PSM | `src/core/config/eponMgr_persistence.c`, `src/rbus/eponMgr_psm.c` | four settings in memory, four records in PSM | defaults, load, save |
| Telemetry | `src/telemetry/eponMgr_telemetry.c` | initialised flag, its mutex | init, cleanup, raise (simple, interface, alarm) |
| Logger, systemd unit, HAL mock | `src/logger`, `systemd`, `tests` | - | - |

How they interact. **HAL threads** call back into the controller, which only
enqueues; the **main thread** takes the events out, updates the data context
and talks to WAN Manager. **Bus threads** run the TR-181 handlers, which read
and write through the data context and reconfigure the poller. The **poller
thread** refreshes the data context. Shared are `g_controller`, the queue, the
data context (mutex, but the main thread writes the interface list without it),
`ctrl->mutex` (configuration and poller) and the poller's fields.

What is hard here: condition variables signalled without their predicate, a
global pointer tested and read again, a plain mutex locked twice by nested
calls (and kept for ever) and from a signal handler, pointers handed out from under a mutex, a
`running` flag set by the thread and not by its starter, results cached
although the step they describe failed, records written one after another with
no way back, a shutdown order that differs from the start's, names told apart
by the first text that occurs in them.

What makes each part correct: the queue is a bounded FIFO; the controller
handles every event once and in order, and stops when asked; the poller polls
while enabled, can always be stopped, and uses a new interval; the caches never
serve counters from before a reset, have the HAL answer at most once per TTL
and never expose half-written data to a handler; WAN Manager and the VEIP rows follow the
interface events; TR-181 rows and parameters answer with their own data;
a stored setting survives a restart; the process starts completely or
reports that it did not, and ends without using what it freed.

## 2. Modules

| Module | Models | Notes |
|---|---|---|
| `BoundedFifo` | what a queue of bounded length promises | abstract, no code |
| `EventDelivery` | what an event raised may become: handled once, after the older ones of its source, or given up | abstract, no code |
| `EventQueue` | `eponMgr_queue.c` | implements `BoundedFifo` (`ImplementsFifo`) |
| `EventQueue_proofs` | - | theorems about `EventQueue` |
| `Controller` | callbacks, event loop, shutdown, destroy, the bus threads' use of `ctrl->mutex` | uses the queue as the FIFO it was shown to be; implements `EventDelivery` (`ImplementsDelivery`) |
| `Controller_proofs` | - | theorems about `Controller` |
| `StatsPoller` | the poller, the TR-181 handlers of its parameters, the main thread that starts and destroys it | two kinds of mutex |
| `StatsPoller_proofs` | - | theorems about `StatsPoller` |
| `StatsCache` | getters, clear and factory reset, status events | time, versions of data |
| `StatsCache_proofs` | - | theorems about `StatsCache` |
| `InterfaceList` | interface events, refresh by the poller, WanManager, VEIP rows | main thread unlocked |
| `InterfaceList_proofs` | - | theorems about `InterfaceList` |
| `Persistence` | defaults, load, save, PSM's records, restart, the poller's copies | composes the persistence with the poller's settings |
| `Persistence_proofs` | - | theorems about `Persistence` |
| `Tr181Params` | the registered names and the chains of `strstr` tests of eight GET handlers | operators only |
| `Tr181Tables` | GET handlers: the LLID and CPE tables with refresh, sync and cleanup, and single parameters | uses `Tr181Params` |
| `Tr181Tables_proofs` | - | theorems about `Tr181Tables` |
| `Lifecycle` | start, failing start, run and shutdown of the process beside its threads; bus connection, telemetry, the global pointers | the work in between is in the other modules |
| `Lifecycle_proofs` | - | theorems about `Lifecycle` |
| `MC*` | instances for TLC | constants and symmetry only |

Correspondence. A program counter per thread (`mpc`, `tpc`, `bpc`, `hpc`,
`spc`, `rpc`, `cpc`, `ppc`) says where in its function the thread is; an action
is the stretch of code between two points at which another thread can
interfere. A section under a mutex that is not kept across a call is one
action. `PROJECT.json` maps each definition to its lines. Definitions whose
comment says "variant with a fault" are wrong on purpose: each takes the place
of a definition of the model to show that a property notices the fault.

* `Controller`: `Raise`, `CallbackPush`, `CallbackSignal` are one callback
  (the three of them differ in the event they build). `RunLock` ...
  `LeaveUnlock` are `eponMgr_controller_run`; between `BeginWait` and the
  return of the timed wait a signal wakes the thread, anywhere else it is lost.
  `Deliver` runs the signal handler on the main thread or a bus thread, which is
  then suspended where it stands, or on another thread. `Receive` ... `BusUnlock`
  are the TR-181 GET and SET of the poller's parameters as far as `ctrl->mutex`
  goes: a SET locks it a second time in `BusRelock`; what it does to the poller
  is in `StatsPoller`. The history variables `handled` and `missed` record what
  happened to each event. For `EventDelivery` an event that is being pushed or is queued
  is pending, `handled` is what was handed over, and an event is lost when
  `g_controller` was not published, the queue was full, or the queue was freed.
* `StatsPoller`: `mutex` is `ctrl->mutex`, taken by
  `eponMgr_controller_get_stats_poller` and
  `eponMgr_controller_lock_persistence_config`; `UnlockMutex` frees it whoever
  owns it, as a plain mutex of glibc does. `Relock` is the lock taken inside
  `set_enabled` and `set_interval`. `eponMgr_stats_poller_start` is
  `StartAllowed` (its test of `running`) and `CreateThread`;
  `eponMgr_stats_poller_stop` is `StopRunning`, `JoinBegin` and `Joined`: other
  threads may come in between. The history variable `stolen` records that
  somebody unlocked `ctrl->mutex` for its owner (`tr181.c:1533`). A thread on a
  freed poller is not followed.
* `StatsCache`: a cached entry is a version (how often the HAL had been cleared,
  or the status had changed, when it was read), a time stamp and a validity
  flag. `floor` is the version a read that begins now must at least see, and
  `answered` when the HAL last answered for a statistic since its last reset.
* `InterfaceList`: the main thread takes no mutex, so each of its accesses to the
  list and to the cached count is an action, a read and the write that depends
  on it being two (`AppendRead`/`AppendCount`/`StoreInterface`,
  `CountList`/`CompareCount`, `Recount`/`CacheCount`); a search of the list is
  one action. So are the poller's accesses to the count (`PollCompare`,
  `PollCache`) and the HAL's call, which may fail with the list partly written
  (`HalFails`). At `overrun` the main thread writes past the end of the array,
  which is undefined, and it is not followed any further. The history variable
  `raced` says that the last turns of the two threads overlapped or the HAL
  failed. `WanSet` succeeds or fails.
* `Persistence`: a record of PSM is a number, TRUE, FALSE, another text, or
  missing; `UIntOf` and `BoolOf` are what `atoi` and the comparison in
  `eponMgr_psm_get_bool` make of it (numbers fit an `int`). One read and one
  write of a record are a step each; each may fail, and `Die` may come between
  any two. A SET goes through the locks as TR-181 calls it: `SetPoller` under
  `ctrl->mutex` (`locked`) changes the poller, `ConfigTest` or `ConfigSkipped` is
  the test of `g_controller` (`published`) at `stats_poller.c:375` and 415, and
  `Relock` is the second lock, which succeeds only after a GET unlocked the mutex
  (`StrayUnlock`, the unlock of a GET that came before `g_controller` was
  published). At most one SET is under way, since each holds `ctrl->mutex` for
  good or to its end. `kept`, `promise` and `unread` record which setting was
  last read, or stored by a SET, and not changed since, and which was never read;
  `skipped` that the last SET was answered without being stored.
* `Tr181Params`: a name is the sequence of its words, and `Contains` is
  `strstr` on such sequences. `CountersTested` and `CastsTested` are the two
  stretches of the statistics handler's chain.
* `Tr181Tables`: one table, LLID or CPE, per behaviour: they share no code that
  writes the other's state. An entry of the HAL's list is known by the list's
  generation. The handler holds the data mutex throughout (it is recursive), so
  its steps interleave with the HAL and with `eponMgr_tr181_cleanup` only, which
  takes no mutex. `RefreshFails` is a HAL that fails before or after it wrote
  the count.
* `Lifecycle`: `pc` says where each thread is; `main` goes through the steps of
  `eponMgr_controller_init`, `_run` and `_destroy` by the names of `BringUp` and
  `TakeDown`. Any step of init may fail. Each global pointer is read again after
  its test (`HandlerCrashes`, `~g_controller` in `Callback`). `Dispatch` tests
  the flag in one step and sends in the next. `SetLock` ... `SetUnlock` are the
  SET of the poller's parameters, with its second lock and the join and start of
  the poller's thread; whether it starts one is decided at its end. At `sleep`
  the poller is before a test of `shutdown_requested`, the one at its first lines
  included. A thread started beside one that has not set `running` yet, or before
  a join has returned, is not followed here; `StatsPoller` has it.

## 3. Runs

| Run | Result | Shows |
|---|---|---|
| `event_queue` | pass | index arithmetic across wrap-around at capacity 3; refinement of the FIFO |
| `controller` | pass | no event lost unaccounted for or duplicated; refinement of the delivery in order; no callback on a freed queue; lost wakeups delay but never strand an event or a shutdown, and only a thread that blocks itself on `ctrl->mutex`, or a crash, does |
| `controller_forgotten` | **violated** | a SIGTERM between publishing `g_controller` and the loop is erased by `controller.c:687` |
| `poller_safety` | pass | handlers return without the mutex, a stop request is not withdrawn while joined unless a GET unlocked `ctrl->mutex` for its owner, intervals stay in range |
| `poller_live` | pass | stop returns, polling goes on, a new interval is used |
| `poller_set` | **violated** | a SET of Enable or PollingInterval locks `ctrl->mutex` twice and never returns |
| `cache_safety` | pass | no counters from before a reset, one answer of the HAL per TTL, no half-written data in handlers |
| `interfaces_safety` | pass | WanManager follows the events, one row per interface (poller disabled), the cached count settles after turns that did not overlap, nothing is written past the array while the poller is disabled |
| `persistence` | pass | settings in range whatever PSM holds; poller and configuration agree while `g_controller` is set; success means all is stored, but for a SET overtaken by the shutdown; a stored setting survives failures and restarts |
| `tr181_tables` | pass | rows and flags agree; a count is backed by rows; a row is answered from the list just delivered, or not at all; every name outside the eight shadowed ones reads its field |
| `tr181_names` | **violated** | `Stats.DiscardPacketsSent` and seven more names are answered with packets_sent or packets_received |
| `lifecycle` | pass | nothing freed is used, markers find the telemetry library open, every exit is reported, the shutdown completes but for four named faults |

### Bounds

* `event_queue`: three slots and three events: a capacity that is not a power of
  two wraps, three distinct events tell all orders apart. Every capacity is proved.
* `controller`: two HAL threads, one of which raises two events and the other one
  (`FewEvents`), and a queue of two: full queues, interleaved pushes and
  leftovers at destruction all occur (the safety properties are proved for any
  number of each). One bus thread with any number of GETs and SETs, since a
  second one only waits for what the first one has. Any number of signals, one at
  a time: the second takes the early return of `eponMgr_controller_shutdown`.
  Batch 1 makes the loop leave with events queued. Signals arrive anywhere, so
  liveness is stated for what the loop owes: a request made in the loop, an
  event queued while the loop runs. It is owed unless the process crashed or the
  main thread waits for a `ctrl->mutex` that is never freed (`MainStops`): because
  the signal handler interrupted its holder (`HandlerBlocksItself`), or because a
  SET locks it twice (`SetBlocksItself`; `poller_set` shows that it does).
* `poller_*`: limits 1 and 2 for 60 and 3600, requests 0 to 3, so both sides of
  both limits are tried; two poller threads, since a second one needs a SET of
  Enable that gets to its start, which takes a theft of `ctrl->mutex` (then a start can
  also put another thread in place of the one being joined: `stolen` in
  `StopRequestStands` and `JoinReturns`) or the shutdown under way
  (`OnePollerThread` in section 4); two bus threads, since handlers
  interfere in pairs. The safety run has two requests per bus thread, the liveness run one. The safety properties
  are proved for any number of threads and requests.
* `cache_safety`: TTL 2 and time 4, so a statistic expires and is read again;
  two resets overlap; one statistic and one info entry, as entries of a kind do
  not interact. Any number of readers, resets and entries is proved.
* `interfaces_safety`: three interfaces and an array of two, so that the array
  fills, an event finds it full, and the append races with the poller for its
  last entry; three events, less the interface the HAL may know at the start;
  two rows. The names are symmetric. Any number of each is proved.
* `persistence`: the limits and defaults of the code; numbers at and beyond them
  (60 and 3601 in the records, 59 and 3600 in a SET; 60 is also a usable TTL and
  3601 a bad one); every combination of good, bad and missing records; two SETs
  (the second meets what a failed first one left), one GET before `g_controller`
  is published in each run of the daemon, which lets one SET past its second
  lock, and two deaths of the daemon.
* `tr181_*`: lists of up to three entries with tables of two and three rows, so
  a list overflows a table and (LLID) a row lies beyond what the handler
  accepts; two changes of the HAL's list give growth, shrinking and both. Tables and
  lists of any size are proved. The
  bounds of the names are the code's: every registered name is tried.
* `lifecycle`: two bus threads, since one may wait behind the other; one HAL
  thread; any number of handlers and callbacks. SETs of the poller arrive on one
  of the bus threads (`Setter`): a second SET would wait at its first lock. Sixty
  steps of main each with its failure, so no bound is needed.

CHECK_DEADLOCK is FALSE in all but `event_queue`: the process ends or dies, and
the bounds on events, requests and time stop the environment.

### Fairness

Weak fairness of the main thread, callbacks under way, the poller's threads and
bus handlers under way: the scheduler runs every thread that can run, and each
is a thread of its own. In `Controller` the main thread and the signal handler
get `ctrl->mutex` if it is free again and again (strong fairness of `Main` and
`Handler`): TR-181 requests for the poller's parameters are not so dense that
the mutex is never free when a thread that waits for it is woken. In `Lifecycle` a bus thread that
waits for the data mutex gets it in the end (strong fairness of `DataLocked`):
the only thread that takes it again and again is the poller, which sleeps for a
minute or more in between. The timeouts of the two timed
waits are part of their threads. Nothing the environment may do is fair: the
HAL need not raise events, nobody need send a signal, a GET, a SET or a shutdown.

### Known deviations without a run of their own

These follow from reading the code. Where a model contains the step it is
named; no run is kept for them.

* `eponMgr_controller_shutdown` (`controller.c:755`) takes `ctrl->mutex` in a
  signal handler ("Safe to call from signal handlers", `controller.c:750`); a
  signal that interrupts the main thread inside 685-697 or 731-737, or a handler
  that holds the mutex, blocks that thread (`HandlerBlocksItself`).
* A SET of the poller's parameters keeps `ctrl->mutex` for good (`poller_set`).
  From then on the main thread waits for ever at `controller.c:733`, or at 755 in
  a signal handler, and the shutdown does not happen (`MainStops`). One that enters
  after 735 and before 789 makes `rbus_close` (795) wait for ever
  (`SetBlocksItself` in `Lifecycle`, and `SetNeverReturns`, proved).
* The setters skip the configuration when `g_controller` is cleared
  (`stats_poller.c:375`, 415): the poller changes, nothing is stored and the SET
  is answered with success, although it "Persists setting to PSM configuration"
  (`stats_poller.c:363`). `ConfigSkipped`.
* `eponMgr_controller_destroy` clears `g_controller` (789) before the HAL is
  stopped (810): a callback after its NULL test reads NULL (`NullDereference`).
* Events raised between `controller.c:559` and 632 are dropped (`missed["unpublished"]`).
* `eponMgr_stats_poller_set_interval` says it applies the interval
  "immediately" (`stats_poller.c:403`): the wakeup is lost while the thread
  collects, so it applies after the present sleep (`NewIntervalIsUsed`).
* `stats_poller_get_handler` unlocks (`tr181.c:1533`) what it did not lock when
  `g_controller` was published between its two calls, possibly a mutex that
  `eponMgr_controller_run` holds at that moment (`stolen`).
* `eponMgr_stats_poller_start` says "Returns error if already running"
  (`stats_poller.c:243`) but tests `running`, which only the new thread sets
  (114). Two starts in a row create two threads. While `g_controller` is set
  they do not happen, since a SET blocks itself before it starts anything
  (`OnePollerThread`, proved), unless the unlock above releases it. During the
  shutdown they do: once `g_controller` is cleared (789) a SET of Enable no
  longer locks a second time, and can start a thread while the one that
  `eponMgr_controller_run` created has not set `running` yet.
* The main thread tests for space in the interface list (`controller.c:240`) and
  appends (241) without the mutex: when the poller has the HAL fill the array in
  between, the entry is written past its end (`overrun`; it takes a poller that
  is enabled, which `TypeOK` says).
* The main thread reads the count and caches it (`controller.c:284`) without the
  mutex. When the poller counts a new list in between, the cached count is stale
  afterwards, and the next change may go unnoticed: "Automatically triggers
  TR-181 VEIP table sync if interface count changes" (`eponMgr_data.c:398`) does
  not hold then. `CountSettles` excepts turns that overlap (`raced`).
* An interface whose event found the array full is left out of the list, so it
  does not count for the PHY status and gets no row.
* Pointers of the getters are said to be valid "until next cache invalidation"
  (`eponMgr_data.c:259`): an expired entry is refilled in place under a reader
  that holds no mutex, such as the poller.
* `eponMgr_stats_poller_stop` returns when `running` is not set, and only the
  new thread sets it (`stats_poller.c:114`): a thread just created is neither
  stopped nor joined although "Ensures thread is stopped before destroying
  resources" (`stats_poller.c:314`). `Missed` in `Lifecycle`.
* "All data entries invalidated when EPON ONU status changes"
  (`eponMgr_statsData.h:28`): `process_onu_status_event` invalidates nothing, and
  nothing calls `eponMgr_data_invalidate_cache`, so OLT, manufacturer and link
  info is never read again once it is cached.
* "PHY is UP if any interface is UP" (`wanmanager_update.c:128`): the main thread
  searches and extends the interface list without the mutex while the poller
  has it rewritten; an interface can be listed twice and its second entry stay
  UP. `InterfaceList` contains it; what its properties say of the PHY status is
  for a disabled poller.
* "All fields are written atomically" (`persistence.c:131`): a save stops at the
  first record that fails (`persistence.c:134` says so). The SET answers with an
  error, but poller and configuration keep the new value and the next save
  stores it.
* "using cached data" (`tr181.c:1163`, 1281): the old list was freed before the
  HAL was asked, so after a failure there is none (`RefreshFails`).
* Rows are never unregistered when a list shrinks ("registers/unregisters
  instances as needed", `tr181.c:253`): a GET of such a row is answered "does
  not exist". LLID rows 33 to 64 are registered and refused by the handler
  (`tr181.c:1194`). At cleanup LLID and CPE rows are unregistered by the table's
  name, without an instance (`tr181.c:375`, 385).
* `MaxLLIDSupported` (`tr181.c:1016`) is 0 until a GET of the LLID table.
* "Destroys all subsystems in reverse initialization order"
  (`controller.c:772`): the bus is closed (795) before the poller is stopped, so
  a VEIP sync under way (`tr181.c:1399`) may use the closed handle.
* The error path of init (641) leaves the HAL, the bus, the queue and the data
  context as they are; `NothingUsedAfterFree` shows that nothing freed is used.
* A handler that finds `g_controller` cleared at its unlock keeps `ctrl->mutex`;
  a handler behind it never returns, and neither does `rbus_close` (`Abandoned`).
* A cached statistic whose HAL call fails is asked for again by the next reader,
  so the HAL may be asked more often than once per TTL; it answers at most once
  (`OneAnswerPerTTL`).

## 4. Proofs

Proved with TLAPS for every value of the constants: every invariant of every
passing run but one, both refinements (`EventQueue` of the FIFO, `Controller`
of the delivery), the action properties of the caches, and, of four liveness
properties (`QueuedEventIsHandled`, `RequestInLoopEndsRun`, `JoinReturns`,
`ShutdownCompletes`), the part that is safety: that what is waited for comes
nearer with each step of the thread concerned and is never put off. That the
thread takes its steps is fairness and stays with TLC. The proofs use the named assumptions of the modules and nothing
else (`CapacityAssumption`, `EventAssumption`, `ControllerAssumption`,
`PollerAssumption`, `CacheAssumption`, `InterfaceAssumption`,
`PersistenceAssumption`, `TableAssumption`, `LifecycleAssumption`): limits are
numbers and in their order, threads of different kinds and the markers for
"nobody" are different, the list the HAL starts with names an interface once
and fits the array.

Each module follows one plan: an inductive invariant `IInv` of named parts, one
lemma that types are kept, one per remaining part with a step per action that
can disturb it, `Invariance`, and the theorems as consequences.

* `EventQueue_proofs`: `TypeCorrect`, `RingCorrect`, `RefinesFifo`. `RingInv`
  ties the indices to the count (the slots from tail on, count many, hold the
  queued events); it is inductive together with `TypeOK`. The arithmetic of `%`
  is confined to the lemmas `ModSmall`, `ModWraps` and the `Slot...` lemmas,
  which turn it into case distinctions. Refinement: the abstract queue is the
  sequence of the slots from tail on; each operation maps to the abstract one.
* `Controller_proofs`: `TypeCorrect`, `InOrder`, `OnePlace`,
  `QueueOutlivesCallbacks`, for any number of HAL threads, events and signals and
  any capacity and batch. That events are handled in order is not inductive: it
  needs that what is handled is older than what is queued, that what is queued
  is in order (`OrderInv`), and that a callback pushes an event that is nowhere
  yet. The last follows from `PlaceInv`, which is `EachEventInOnePlace` said of
  every event, also of those not raised yet: they are at no place. `BatchInv`
  keeps the pass of the loop within its limit, `PushInv` gives a pushing
  callback an event, and `TeardownInv` says that nothing is at work any more when
  the queue goes and that only then anything is freed.
  `RefinesDelivery`: the pending events of `EventDelivery` are by `PlaceInv` the
  pushed and the queued ones (`PendingIs`), and the head of the queue is the
  oldest of its thread by `OrderInv`; each step maps to one of the abstract ones or a stutter.
  `QueueIsFifo`: every use the controller makes of the queue is a step of
  `BoundedFifo` on a queue that is not freed, so `EventQueue`, which implements it,
  is the queue the controller relies on. `EventsMoveUp` and `RequestEndsRunSoon`
  are the safety parts of `QueuedEventIsHandled` and `RequestInLoopEndsRun`:
  each event handled moves the queue up by one place, and a request finds the
  loop's end at most `Batch + 3` steps of the main thread away, whatever the HAL
  raises. `OnlySelfDeadlocks`: who holds `ctrl->mutex` shows in where main,
  signal handler and bus threads are (`LockInv`), and the holder has a step to
  take, except for the two that wait for themselves: one the signal handler
  interrupted inside its critical section, and a SET at its second lock.
* `StatsPoller_proofs`: `TypeCorrect`, `MutexReleased`, `RequestStands`, for any
  number of bus threads, poller threads and requests. That no start withdraws a
  stop somebody waits for rests on the order of `main()` and on `ctrl->mutex`
  together. As long as the mutex is not stolen, it is owned by the handler that is
  inside (`OwnerInv`), so handlers exclude each other; a SET gets as far as a
  start only after `g_controller` was cleared, as before that it blocks itself;
  nothing can be stopped before `main()` started it (`StopInv`); and `main()`
  stops only when the bus has closed and no handler is left (`PublishInv`).
  `ReleaseInv` is what `MutexReleasedOnReturn` says, and also of handlers that wait.
  `SetNeverStores` follows from `OwnerInv`: it is what `poller_set` shows by one
  behaviour, said of all: no SET changes the configuration or gets past its second lock.
  Which threads exist is `ThreadInv`: a poller that runs, or that is being stopped,
  has a thread. From it follow `JoinIsSafe` (whoever is joined was created, and the poller is
  not freed meanwhile) and `JoinEndsSoon`, the safety part of `JoinReturns`: the
  thread joined has at most seven steps left and nobody adds one; this needs
  `RequestStands`. `OnePollerThread`: one thread at most while `g_controller` is set.
* `StatsCache_proofs`: the inductive invariant is `TypeOK` with `CacheInv`, whose
  parts are `FillOwnsMutex`, `NothingOlderThanClear` and
  `FillsSpareCachedEntries`, and `AnswerIsStamped`. That no read sees
  counters from before a reset is not inductive: a fill that started before the
  reset could finish after it. It cannot, because the reset invalidates under
  the mutex the fill owns (`FillOwnsMutex`), so a version that is valid, or
  about to become so, is never older than the last reset that returned. The
  action properties `NoCountersFromBeforeClear` and `HandlersReadWholeData`
  follow. `OneAnswerPerTTL` (`AnswersAreRare`) looks across time: an answer of the
  HAL is recorded when it comes and the entry is stamped afterwards
  (`AnswerIsStamped`: nobody else can fill or reset it in between unnoticed), so
  that an entry that has expired was answered a TTL ago.
* `Persistence_proofs`: all five invariants of the run, for any limits, any
  contents of the records, any number of SETs and deaths. None is inductive
  alone: the inductive invariant says how far a load or a save has got. Records
  before the next one of a save are written (`Stored`), records before the next
  one of a load are in memory and those from it on still have their defaults
  there (`Remembered`), which decides what an unusable text becomes; a setting
  that was read, or stored by a SET that reached its end, stays in its record
  (`Recorded`). Until `g_controller` is cleared the poller is ahead of the
  configuration by exactly the setting the SET under way changes (`Follows`);
  afterwards a SET changes the poller alone, which is why `PollerFollowsConfig`
  stops there and `SuccessStoresAll` excepts a SET that was `skipped`. The lemma
  `Restores` is the round trip: what `_save` writes of a value within the limits,
  `_load` turns into that value.
* `InterfaceList_proofs`: `TypeCorrect`, `WanFollows`, `OneRow`, `CountIsRight`,
  for any interfaces, events and rows and an array of any size, full or not.
  Beside the poller: Enable follows the events (`EnableInv`); the count a thread
  has read is still the list's, and what it caches is right, as long as the
  threads' turns do not overlap (`CountInv`); what the main thread writes lies in
  the array (`PlaceInv`), except at the `overrun`, which needs a poller.
  Without the poller nothing overlaps and the space found by the search is still
  there (`SpaceInv`); the list holds each interface with an event once and with
  its last status, as far as there is space (`ListInv`); PHY status and rows
  follow the list (`PhyInv`, `RowInv`). `HalInv` and `InfoInv` say what the HAL's
  list and the event in use are.
* `Tr181Tables_proofs`: `TypeCorrect`, `FlagsAgree`, `CountBacked`,
  `RowsAreFresh`, for tables and lists of any size. Which rows are registered
  depends on how far a sync has got: rows before the one it is at are
  registered or were refused, and when it is done, all rows of the list that
  fit are (`SyncInv`). The list it works on is the one delivered to this GET, or
  empty (`ListInv`), since the handler keeps the data mutex (`RequestInv`).
* `Lifecycle_proofs`: all five invariants of the run, for any number of bus and
  HAL threads. The inductive invariant says, for each point of `main()`, which
  objects exist (`Owned`), what is connected and published (`Connected`), which
  threads may be at work (`AtWork`) and which markers were raised (`Reported`),
  and that the data mutex belongs to the thread that is where the code holds it
  (`MutexInv`). A handler is at work only while `main()` is between the
  registration of the elements and the return of `rbus_close`, a callback only
  until `epon_hal_deinit` returns, the poller only until the join, unless it was
  never asked to stop (`Missed`). `NoTwoWaitForEachOther` adds where the owner of
  `ctrl->mutex` is (`CtrlInv`): no two threads wait for each other by way of the
  two mutexes, and the one circle is a SET that waits for itself at its second
  lock. `EachWaitShortens` is the safety part of `ShutdownCompletes`: `rbus_close`,
  the joins and `epon_hal_deinit` wait for threads that take up nothing new and
  whose remaining work (`Work`) only shrinks. `ShutdownCompletes` excepts the ways
  in which such a thread stops before its work is done: a mutex kept by a handler
  that returned (`Abandoned`) or by a SET that blocks itself (`SetBlocksItself`;
  by `SetNeverReturns`, once `rbus_close` waits for that SET it waits for ever), a
  crash, and a poller that was not asked to stop (`Missed`).

Only model-checked:

* All liveness: fairness and ENABLED are beyond the prover. What is proved of
  it are the bounds and rankings named above.
* `UnshadowedReadTheirField`. It has no constant to generalise: the names and
  the tests are the code's, and the run tries every one of them. Its `FieldOf` is a
  filter of a sequence, which is defined by recursion over data.
* The three violated properties, which a counterexample settles.

## 5. Assumptions about code outside the repository

* `epon_hal_deinit` and `rbus_close` return when the threads they own have left
  their callbacks. If they do not, `NoCallbackOutlivesQueue` fails.
* Time does not go back. If it does, an entry counts as expired
  (`is_stats_valid` tests for it), so the HAL is asked more often.
* A HAL call that succeeds writes its list in one step, and one that fails may
  leave it partly written; finer steps only add races to the ones between the
  main thread and the poller. The HAL appends interfaces, does not remove them,
  lists each once and no more of them than `EPON_HAL_MAX_INTERFACES`, the size of
  the array it is given; it may report events of more.
* `ctrl->mutex` is a default glibc mutex: a relock blocks, an unlock by another
  thread frees it.

* One HAL call delivers one list: the count and the entries belong together.
* Reading or writing one PSM record is one step for everybody else.

## 6. Not modelled, and why

* Logger, systemd unit and HAL mock keep no state of the program.
* Telemetry: the table of markers, the mapping of alarms and statuses to them
  and the formatting of values are constant data.
* TR-181: the formatting of values; the SET of `Enable` and `Alias`, which
  changes nothing; the names of the tables' own parameters.
* `eponMgr_stats_poller_trigger_now`, `eponMgr_data_invalidate_cache`,
  `eponMgr_data_get_max_cpe`, `eponMgr_data_set_oam_log_level`: no caller.
  `eponMgr_psm_init` and `eponMgr_psm_close` do nothing.
* Daemonizing and the PID file, before any thread exists.
* The computation of the bit error rate (floating point).

## 7. Plan

Done: all modules of section 2, the runs of section 3 and the proofs of section
4. Every invariant of a passing run is proved but the one about constant names,
and every refinement.

What would come next, should the code or the tools change:

1. A run of its own for a deviation of section 3 once its code is changed, to
   show that the change removes it: first the second lock of SET.
   `SetNeverStores` must then fail, and whether `OnePollerThread` survives is
   the question to ask of the change.
2. The info caches and the telemetry table, if the code starts to invalidate
   the one and to compute the other.
3. The liveness properties, from the rankings that are proved, with a prover that knows
   ENABLED.
