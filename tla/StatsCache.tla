---------------------------- MODULE StatsCache -----------------------------
(***************************************************************************)
(* The caches of eponMgr_data.c: statistics, which expire after a time to  *)
(* live, and info (OLT, manufacturer, link), which stays valid until it is *)
(* invalidated.  A getter runs under the data mutex and hands out a        *)
(* pointer into the cache; the caller reads through it later.  The TR-181  *)
(* handlers hold the (recursive) mutex around both, the stats poller       *)
(* around neither.  Stats.Reset and FactoryReset clear the HAL's counters  *)
(* and invalidate the statistics; ONU status events arrive from the HAL.   *)
(*                                                                         *)
(* The data of an entry is abstracted to the version of the source the HAL *)
(* read it from, counters cleared so often or a link in such a status, and *)
(* to whether the HAL is done writing it.                                  *)
(***************************************************************************)
EXTENDS Integers

CONSTANTS Stat,        \* link_stats, transceiver_stats
          Info,        \* olt_info, manufacturer_info, link_info
          Handler,     \* readers that lock the data context: TR-181 handlers
          Poller,      \* readers that do not: the stats poller
          Resetter,    \* bus threads that run Stats.Reset or FactoryReset
          TTL,         \* seconds a statistic stays valid; 30 by default
          MaxTime,     \* bound: the clock
          MaxReads,    \* bound: reads of each reader
          MaxClears,   \* bound: successful clears of the HAL's counters
          MaxChanges,  \* bound: ONU status changes
          Nobody       \* the owner of a free mutex

Entry == Stat \cup Info
Reader == Handler \cup Poller

ASSUME CacheAssumption ==
    /\ Stat \cap Info = {}
    /\ Handler \cap Poller = {} /\ Nobody \notin Reader
    /\ TTL \in Nat /\ MaxTime \in Nat \ {0} /\ MaxReads \in Nat
    /\ MaxClears \in Nat /\ MaxChanges \in Nat

VARIABLES
    now,          \* time(NULL); 0 is the timestamp of a never filled entry
    mutex,        \* who owns the data mutex
    source,       \* the HAL: how often counters were cleared, status changed
    version,      \* what each entry's data was read from
    whole,        \* the HAL has written all of each entry's data
    timestamp,
    valid,
    answered,     \* history: when the HAL last answered for each entry, since
                  \* the last reset; 0 if it has not
    rpc,          \* where each reader is
    wanted,       \* the entry it reads
    floor,        \* history: the least version it may see
    reads,        \* reads it has begun
    cpc,          \* where each resetter is
    goal,         \* the count of clears the HAL reported to it
    cleared,      \* history: the clears whose call has returned
    onu_status    \* the status change the controller processed last

cacheVars == <<version, whole, timestamp, valid, answered>>
readerVars == <<rpc, wanted, floor, reads>>
resetVars == <<cpc, goal, cleared>>
vars == <<now, mutex, source, cacheVars, readerVars, resetVars, onu_status>>

Init ==
    /\ now = 1
    /\ mutex = Nobody
    /\ source = [clears |-> 0, changes |-> 0]
    /\ version = [k \in Entry |-> 0]
    /\ whole = [k \in Entry |-> FALSE]
    /\ timestamp = [k \in Entry |-> 0]
    /\ valid = [k \in Entry |-> FALSE]
    /\ answered = [k \in Entry |-> 0]
    /\ rpc = [r \in Reader |-> "idle"]
    /\ wanted \in [Reader -> Entry]
    /\ floor = [r \in Reader |-> 0]
    /\ reads = [r \in Reader |-> 0]
    /\ cpc = [c \in Resetter |-> "idle"]
    /\ goal = [c \in Resetter |-> 0]
    /\ cleared = 0
    /\ onu_status = 0

-----------------------------------------------------------------------------
(***************************************************************************)
(* The getters: eponMgr_data_get_link_stats and five more of their kind.   *)
(***************************************************************************)
\* eponMgr_statsData_is_stats_valid.
is_stats_valid(t) == t # 0 /\ 0 <= now - t /\ now - t < TTL

Cached(k) == valid[k] /\ (k \in Stat => is_stats_valid(timestamp[k]))

SourceOf(k) == IF k \in Stat THEN source.clears ELSE source.changes

\* Variant with a fault: a handler forgets eponMgr_data_lock.
OwnerAfterUnlocked(r) == Nobody

\* A handler keeps the mutex until it has used the pointer.
OwnerAfter(r) == IF r \in Handler THEN r ELSE Nobody

ReadBegin(r, k) ==
    /\ rpc[r] = "idle"
    /\ reads[r] < MaxReads
    /\ reads' = [reads EXCEPT ![r] = @ + 1]
    /\ rpc' = [rpc EXCEPT ![r] = "lock"]
    /\ wanted' = [wanted EXCEPT ![r] = k]
    /\ floor' = [floor EXCEPT ![r] = IF k \in Stat THEN cleared ELSE onu_status]
    /\ UNCHANGED <<now, mutex, source, cacheVars, resetVars, onu_status>>

ReadHit(r) ==
    /\ rpc[r] = "lock"
    /\ mutex = Nobody
    /\ Cached(wanted[r])
    /\ mutex' = OwnerAfter(r)
    /\ rpc' = [rpc EXCEPT ![r] = "use"]
    /\ UNCHANGED <<now, source, cacheVars, wanted, floor, reads, resetVars, onu_status>>

\* Variant with a fault: the mutex is released around the call of the HAL.
ReadMissUnlocked(r) ==
    /\ rpc[r] = "lock"
    /\ mutex = Nobody
    /\ ~Cached(wanted[r])
    /\ rpc' = [rpc EXCEPT ![r] = "fill"]
    /\ whole' = [whole EXCEPT ![wanted[r]] = FALSE]
    /\ UNCHANGED <<now, mutex, source, version, timestamp, valid, answered, wanted, floor,
                   reads, resetVars, onu_status>>

\* The HAL writes straight into the cache, under the mutex.
ReadMiss(r) ==
    /\ rpc[r] = "lock"
    /\ mutex = Nobody
    /\ ~Cached(wanted[r])
    /\ mutex' = r
    /\ rpc' = [rpc EXCEPT ![r] = "fill"]
    /\ whole' = [whole EXCEPT ![wanted[r]] = FALSE]
    /\ UNCHANGED <<now, source, version, timestamp, valid, answered, wanted, floor,
                   reads, resetVars, onu_status>>

HalFills(r) ==
    /\ rpc[r] = "fill"
    /\ rpc' = [rpc EXCEPT ![r] = "stamp"]
    /\ version' = [version EXCEPT ![wanted[r]] = SourceOf(wanted[r])]
    /\ whole' = [whole EXCEPT ![wanted[r]] = TRUE]
    /\ answered' = [answered EXCEPT ![wanted[r]] = now]
    /\ UNCHANGED <<now, mutex, source, timestamp, valid, wanted, floor, reads,
                   resetVars, onu_status>>

\* The getter returns NULL: the caller unlocks and gives up.
HalFailsToFill(r) ==
    /\ rpc[r] = "fill"
    /\ rpc' = [rpc EXCEPT ![r] = "idle"]
    /\ mutex' = Nobody
    /\ UNCHANGED <<now, source, cacheVars, wanted, floor, reads, resetVars, onu_status>>

\* Variant with a fault: the time of expiry is stored in place of the time of
\* the fill.
StampExpiry(r) ==
    /\ rpc[r] = "stamp"
    /\ rpc' = [rpc EXCEPT ![r] = "use"]
    /\ valid' = [valid EXCEPT ![wanted[r]] = TRUE]
    /\ timestamp' = [timestamp EXCEPT ![wanted[r]] = now + TTL]
    /\ mutex' = OwnerAfter(r)
    /\ UNCHANGED <<now, source, version, whole, answered, wanted, floor, reads, resetVars,
                   onu_status>>

Stamp(r) ==
    /\ rpc[r] = "stamp"
    /\ rpc' = [rpc EXCEPT ![r] = "use"]
    /\ valid' = [valid EXCEPT ![wanted[r]] = TRUE]
    /\ timestamp' = IF wanted[r] \in Stat THEN [timestamp EXCEPT ![wanted[r]] = now]
                    ELSE timestamp
    /\ mutex' = OwnerAfter(r)
    /\ UNCHANGED <<now, source, version, whole, answered, wanted, floor, reads, resetVars,
                   onu_status>>

\* The caller reads through the pointer; a handler then unlocks.
Use(r) ==
    /\ rpc[r] = "use"
    /\ rpc' = [rpc EXCEPT ![r] = "idle"]
    /\ mutex' = IF r \in Handler THEN Nobody ELSE mutex
    /\ UNCHANGED <<now, source, cacheVars, wanted, floor, reads, resetVars, onu_status>>

-----------------------------------------------------------------------------
(***************************************************************************)
(* eponMgr_data_clear_stats and eponMgr_data_factory_reset: first the HAL, *)
(* without the mutex, then, if it succeeded, the cache.                    *)
(***************************************************************************)
HalClear(c) ==
    /\ cpc[c] = "idle"
    /\ source.clears < MaxClears
    /\ source' = [source EXCEPT !.clears = @ + 1]
    /\ goal' = [goal EXCEPT ![c] = source.clears + 1]
    /\ cpc' = [cpc EXCEPT ![c] = "invalidate"]
    /\ UNCHANGED <<now, mutex, cacheVars, readerVars, cleared, onu_status>>

\* Variants with a fault: the cache is invalidated without the data mutex; it
\* is not invalidated at all.
InvalidateUnlocked(c) ==
    /\ cpc[c] = "invalidate"
    /\ valid' = [k \in Entry |-> k \in Info /\ valid[k]]
    /\ timestamp' = [k \in Entry |-> IF k \in Stat THEN 0 ELSE timestamp[k]]
    /\ answered' = [k \in Entry |-> IF k \in Stat THEN 0 ELSE answered[k]]
    /\ cleared' = IF goal[c] > cleared THEN goal[c] ELSE cleared
    /\ cpc' = [cpc EXCEPT ![c] = "idle"]
    /\ UNCHANGED <<now, mutex, source, version, whole, readerVars, goal, onu_status>>

InvalidateNothing(c) ==
    /\ cpc[c] = "invalidate"
    /\ cleared' = IF goal[c] > cleared THEN goal[c] ELSE cleared
    /\ cpc' = [cpc EXCEPT ![c] = "idle"]
    /\ UNCHANGED <<now, mutex, source, cacheVars, readerVars, goal, onu_status>>

\* eponMgr_statsData_invalidate_all, and the call returns.
Invalidate(c) ==
    /\ cpc[c] = "invalidate"
    /\ mutex = Nobody
    /\ valid' = [k \in Entry |-> k \in Info /\ valid[k]]
    /\ timestamp' = [k \in Entry |-> IF k \in Stat THEN 0 ELSE timestamp[k]]
    /\ answered' = [k \in Entry |-> IF k \in Stat THEN 0 ELSE answered[k]]
    /\ cleared' = IF goal[c] > cleared THEN goal[c] ELSE cleared
    /\ cpc' = [cpc EXCEPT ![c] = "idle"]
    /\ UNCHANGED <<now, mutex, source, version, whole, readerVars, goal, onu_status>>

-----------------------------------------------------------------------------
(***************************************************************************)
(* The HAL changes the ONU's status; the controller processes the event    *)
(* (process_onu_status_event, eponMgr_onu_state_update_status).            *)
(***************************************************************************)
OnuChanges ==
    /\ source.changes < MaxChanges
    /\ source' = [source EXCEPT !.changes = @ + 1]
    /\ UNCHANGED <<now, mutex, cacheVars, readerVars, resetVars, onu_status>>

update_status ==
    /\ onu_status < source.changes
    /\ onu_status' = source.changes
    /\ UNCHANGED <<now, mutex, source, cacheVars, readerVars, resetVars>>

Tick ==
    /\ now < MaxTime
    /\ now' = now + 1
    /\ UNCHANGED <<mutex, source, cacheVars, readerVars, resetVars, onu_status>>

-----------------------------------------------------------------------------
Read(r) ==
    \/ \E k \in Entry : ReadBegin(r, k)
    \/ ReadHit(r) \/ ReadMiss(r) \/ HalFills(r) \/ HalFailsToFill(r)
    \/ Stamp(r) \/ Use(r)

Reset(c) == HalClear(c) \/ Invalidate(c)

Next ==
    \/ \E r \in Reader : Read(r)
    \/ \E c \in Resetter : Reset(c)
    \/ OnuChanges \/ update_status \/ Tick

Spec == Init /\ [][Next]_vars

-----------------------------------------------------------------------------
\* The state stays within its types; no timestamp lies in the future.
TypeOK ==
    /\ now \in 1 .. MaxTime
    /\ mutex \in Reader \cup {Nobody}
    /\ source \in [clears : Nat, changes : Nat]
    /\ version \in [Entry -> Nat]
    /\ whole \in [Entry -> BOOLEAN]
    /\ timestamp \in [Entry -> 0 .. now]
    /\ answered \in [Entry -> 0 .. now]
    /\ valid \in [Entry -> BOOLEAN]
    /\ rpc \in [Reader -> {"idle", "lock", "fill", "stamp", "use"}]
    /\ wanted \in [Reader -> Entry]
    /\ floor \in [Reader -> Nat]
    /\ reads \in [Reader -> 0 .. MaxReads]
    /\ cpc \in [Resetter -> {"idle", "invalidate"}]
    /\ goal \in [Resetter -> Nat]
    /\ cleared \in Nat
    /\ onu_status \in Nat

\* Whoever is between a miss and the end of the fill owns the data mutex, and
\* so does a handler that holds a pointer.
FillOwnsMutex ==
    \A r \in Reader :
        rpc[r] \in {"fill", "stamp"} \/ (rpc[r] = "use" /\ r \in Handler) => mutex = r

\* What a statistic may be served from: a valid one is no older than the last
\* clear that has returned, nor is one that is about to become valid, and a
\* caller's pointer leads to one no older than the read it was obtained by.
NothingOlderThanClear ==
    /\ cleared <= source.clears
    /\ \A c \in Resetter : goal[c] <= source.clears
    /\ \A k \in Stat : valid[k] => version[k] >= cleared
    /\ \A r \in Reader : wanted[r] \in Stat =>
          /\ floor[r] <= cleared
          /\ rpc[r] = "stamp" => version[wanted[r]] >= cleared
          /\ rpc[r] = "use" => version[wanted[r]] >= floor[r]

\* What makes a cached entry safe to hand out: a fill only ever runs on an entry
\* that is not cached, so a cached one is whole, also after failed refreshes,
\* and stays whole while a handler holds a pointer to it.
FillsSpareCachedEntries ==
    /\ \A k \in Entry : Cached(k) => whole[k]
    /\ \A r \in Reader :
          /\ rpc[r] \in {"fill", "stamp"} => ~Cached(wanted[r])
          /\ rpc[r] = "stamp" => whole[wanted[r]]
          /\ rpc[r] = "use" /\ r \in Handler => whole[wanted[r]]

\* What the data mutex and the time stamps of eponMgr_data.c keep true between
\* them, in any order of fills, hits and resets: a fill owns the mutex, what may
\* be served is no older than the last clear, and no fill disturbs a live entry.
CacheInv == FillOwnsMutex /\ NothingOlderThanClear /\ FillsSpareCachedEntries

\* Once Stats.Reset or FactoryReset has returned, no read that starts later
\* sees counters from before it, whatever fills or hits were under way when
\* the counters were cleared.
NoCountersFromBeforeClear ==
    [][\A r \in Reader :
          Use(r) /\ wanted[r] \in Stat => version[wanted[r]] >= floor[r]]_vars

\* The HAL answers for a statistic at most once in TTL seconds, by however many
\* readers, unless a reset came between: one that waited for the data mutex finds
\* the answer another has fetched.  And what a hit serves is an answer given since
\* the last reset.  (A call of the HAL that fails is repeated by the next read.)
OneAnswerPerTTL ==
    [][\A r \in Reader : wanted[r] \in Stat =>
          /\ HalFills(r) /\ answered[wanted[r]] # 0 => now - answered[wanted[r]] >= TTL
          /\ ReadHit(r) => answered[wanted[r]] # 0]_vars

\* A TR-181 handler never reads data the HAL is in the middle of writing.
HandlersReadWholeData ==
    [][\A r \in Handler : Use(r) => whole[wanted[r]]]_vars
=============================================================================
