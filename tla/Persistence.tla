---------------------------- MODULE Persistence ----------------------------
(***************************************************************************)
(* The four settings of the daemon: eponMgr_persistence.c on top of        *)
(* eponMgr_psm.c.  They are read once when the daemon starts and written   *)
(* back, all four and one after another, by each successful SET of a       *)
(* stats poller parameter.  A read or a write of a record may fail, and    *)
(* the daemon may die between any two steps; systemd starts it again.      *)
(*                                                                         *)
(* A SET comes from the TR-181 handler, which owns ctrl->mutex when the    *)
(* poller's setter locks it again: it goes on from there only when a GET   *)
(* that was received before g_controller was published unlocks the mutex   *)
(* for it.  Once g_controller is cleared the setter skips the              *)
(* configuration.  At most one SET is under way: those that may enter      *)
(* after such an unlock are the subject of StatsPoller.                    *)
(***************************************************************************)
EXTENDS Integers, Sequences

CONSTANTS MinTTL, MaxTTL,            \* 1 and 300 s
          MinInterval, MaxInterval,  \* 60 and 3600 s
          DefaultTTL, DefaultInterval,
          Number,                    \* numbers PSM may hold beforehand
          Asked,                     \* numbers a SET may carry
          MaxSets,                   \* bound: SETs in all
          MaxStray,                  \* bound: GETs before publication
          MaxCrashes                 \* bound: times the daemon dies

ASSUME PersistenceAssumption ==
    /\ MinTTL \in Nat \ {0} /\ MaxTTL \in Nat /\ DefaultTTL \in MinTTL .. MaxTTL
    /\ MinInterval \in Nat \ {0} /\ MaxInterval \in Nat
    /\ DefaultInterval \in MinInterval .. MaxInterval
    /\ Number \subseteq Nat /\ Asked \subseteq Nat
    /\ MaxSets \in Nat /\ MaxStray \in Nat /\ MaxCrashes \in Nat

VARIABLES
    psm,       \* the records, which outlive the daemon
    pc,        \* where the daemon is
    at,        \* the record it reads or writes next
    config,    \* the configuration in memory
    poller,    \* the stats poller's own copy of its two settings
    published, \* whether g_controller is not yet set, set, or cleared again
    locked,    \* ctrl->mutex is locked
    stray,     \* GETs that will unlock ctrl->mutex without having locked it
    key, value,\* the setting the SET under way changes, and its new value
    reply,     \* the answer to the last SET
    sets, crashes,
    unread,    \* history: records this run of the daemon has no value from
    kept,      \* history: each setting as last read or stored by a SET
    promise,   \* history: those of them no SET has changed since
    skipped    \* history: the last SET found no controller to take the setting

setVars == <<key, value>>
mutexVars == <<published, locked, stray>>
historyVars == <<unread, kept, promise, skipped>>
vars == <<psm, pc, at, config, poller, mutexVars, setVars, reply, sets, crashes, historyVars>>

\* The order in which eponMgr_persistence_load and _save handle the records.
Order == <<"ttl", "dpoe", "enabled", "interval">>
Key == {"ttl", "dpoe", "enabled", "interval"}
Flag == {"dpoe", "enabled"}

Default == [ttl |-> DefaultTTL, dpoe |-> FALSE,
            enabled |-> FALSE, interval |-> DefaultInterval]

ValidTTL == MinTTL .. MaxTTL
ValidInterval == MinInterval .. MaxInterval
Config == [ttl : ValidTTL, dpoe : BOOLEAN, enabled : BOOLEAN, interval : ValidInterval]

-----------------------------------------------------------------------------
(***************************************************************************)
(* A record is a text: a decimal number, TRUE, FALSE, some other text, or  *)
(* it is not there.                                                        *)
(***************************************************************************)
TextOf(kind, n) == [kind |-> kind, n |-> n]
NumberText(n) == TextOf("number", n)
FlagText(b) == TextOf(IF b THEN "TRUE" ELSE "FALSE", 0)
Text == {NumberText(n) : n \in Number \cup Asked \cup {DefaultTTL, DefaultInterval}}
            \cup {TextOf(k, 0) : k \in {"TRUE", "FALSE", "other", "absent"}}

\* What eponMgr_psm_set_uint and eponMgr_psm_set_bool write.
Encode(k, v) == IF k \in Flag THEN FlagText(v) ELSE NumberText(v)

\* atoi in eponMgr_psm_get_uint yields 0 for a text that is no number;
\* eponMgr_psm_get_bool takes anything but true and 1 for false.
OnlyOne(text) == text = NumberText(1)   \* variant with a fault: TRUE is not known
UIntOf(text) == IF text.kind = "number" THEN text.n ELSE 0
BoolOf(text) == text.kind = "TRUE" \/ text = NumberText(1)

\* The value eponMgr_persistence_load takes for setting k from a text it got,
\* c being the configuration before.
UIntUpTo(valid, text, otherwise) ==    \* variant with a fault: no lower limit
    IF \E m \in valid : UIntOf(text) <= m THEN UIntOf(text) ELSE otherwise
UIntIn(valid, text, otherwise) == IF UIntOf(text) \in valid THEN UIntOf(text) ELSE otherwise
LoadedValue(k, text, c) ==
    CASE k \in Flag     -> BoolOf(text)
      [] k = "ttl"      -> UIntIn(ValidTTL, text, c.ttl)
      [] k = "interval" -> UIntIn(ValidInterval, text, c.interval)

\* The records as an earlier version, another component or nobody left them.
UIntRecord == {NumberText(n) : n \in Number} \cup {TextOf("other", 0), TextOf("absent", 0)}
FlagRecord == {FlagText(TRUE), TextOf("other", 0), TextOf("absent", 0)}
Idle == [enabled |-> FALSE, interval |-> DefaultInterval]

Init ==
    /\ \E t, i \in UIntRecord : \E d, e \in FlagRecord :
          psm = [ttl |-> t, dpoe |-> d, enabled |-> e, interval |-> i]
    /\ pc = "boot" /\ at = 1
    /\ config = Default
    /\ poller = Idle
    /\ published = "no" /\ locked = FALSE /\ stray = 0
    /\ key = "enabled" /\ value = FALSE
    /\ reply = "none" /\ sets = 0 /\ crashes = 0
    /\ unread = {} /\ kept = Default /\ promise = {} /\ skipped = FALSE

-----------------------------------------------------------------------------
\* Variant with a fault: the records are counted from zero.
BootAtZero ==
    /\ pc = "boot"
    /\ pc' = "load" /\ at' = 0
    /\ config' = Default
    /\ unread' = {}
    /\ UNCHANGED <<psm, poller, mutexVars, setVars, reply, sets, crashes, kept, promise, skipped>>

Boot ==
    /\ pc = "boot"
    /\ pc' = "load" /\ at' = 1
    /\ config' = Default
    /\ unread' = {}
    /\ UNCHANGED <<psm, poller, mutexVars, setVars, reply, sets, crashes, kept, promise, skipped>>

Advance(last) ==
    /\ at' = at + 1
    /\ pc' = IF at = Len(Order) THEN last ELSE pc

\* A record is read and a value taken from it ...
LoadRecord ==
    /\ pc = "load"
    /\ psm[Order[at]].kind # "absent"
    /\ LET k == Order[at]
           v == LoadedValue(k, psm[k], config)
       IN  /\ config' = [config EXCEPT ![k] = v]
           /\ kept' = [kept EXCEPT ![k] = IF k \in promise THEN @ ELSE v]
           /\ promise' = promise \cup {k}
    /\ Advance("start")
    /\ UNCHANGED <<psm, poller, mutexVars, setVars, reply, sets, crashes, unread, skipped>>

\* ... or the call fails, or there is no record, and the default stays.
LoadFails ==
    /\ pc = "load"
    /\ unread' = unread \cup {Order[at]}
    /\ Advance("start")
    /\ UNCHANGED <<psm, config, poller, mutexVars, setVars, reply, sets, crashes, kept, promise,
                   skipped>>

\* eponMgr_stats_poller_init is given the settings just loaded.  The elements are
\* registered next, and from there on a GET or SET may arrive.
InitPoller ==
    /\ pc = "start"
    /\ poller' = [enabled |-> config.enabled, interval |-> config.interval]
    /\ pc' = "ready"
    /\ UNCHANGED <<psm, at, config, mutexVars, setVars, reply, sets, crashes, historyVars>>

\* A GET that finds no controller takes no mutex and unlocks it all the same, if
\* g_controller is set by then.
StrayGet ==
    /\ pc = "ready" /\ published = "no" /\ stray < MaxStray
    /\ stray' = stray + 1
    /\ UNCHANGED <<psm, pc, at, config, poller, published, locked, setVars, reply, sets, crashes,
                   historyVars>>

StrayUnlock ==
    /\ stray > 0
    /\ stray' = stray - 1
    /\ locked' = (locked /\ published # "yes")
    /\ UNCHANGED <<psm, pc, at, config, poller, published, setVars, reply, sets, crashes,
                   historyVars>>

Publish ==
    /\ pc = "ready" /\ published = "no"
    /\ published' = "yes"
    /\ UNCHANGED <<psm, pc, at, config, poller, locked, stray, setVars, reply, sets, crashes,
                   historyVars>>

\* eponMgr_controller_destroy clears g_controller at any point of a SET.
ClearGlobal ==
    /\ published = "yes"
    /\ published' = "cleared"
    /\ UNCHANGED <<psm, pc, at, config, poller, locked, stray, setVars, reply, sets, crashes,
                   historyVars>>

-----------------------------------------------------------------------------
\* A SET is received when none is under way.
Receive == pc = "ready" /\ sets < MaxSets /\ sets' = sets + 1

SetUnavailable ==
    /\ Receive
    /\ published # "yes"
    /\ reply' = "failed"
    /\ UNCHANGED <<psm, pc, at, config, poller, mutexVars, setVars, crashes, historyVars>>

\* The handler takes ctrl->mutex, and the poller changes under its own mutex.
SetPoller(k, v) ==
    /\ Receive
    /\ published = "yes" /\ ~locked
    /\ locked' = TRUE
    /\ key' = k /\ value' = v
    /\ poller' = [poller EXCEPT ![k] = v]
    /\ pc' = "test" /\ reply' = "none" /\ skipped' = FALSE
    /\ UNCHANGED <<psm, at, config, published, stray, crashes, unread, kept, promise>>

SetEnabled == \E b \in BOOLEAN : SetPoller("enabled", b)
SetInterval == \E n \in Asked \cap ValidInterval : SetPoller("interval", n)

SetIntervalRefused ==
    /\ Receive
    /\ published = "yes" /\ ~locked
    /\ Asked \ ValidInterval # {}
    /\ reply' = "refused"
    /\ UNCHANGED <<psm, pc, at, config, poller, mutexVars, setVars, crashes, historyVars>>

\* eponMgr_controller_lock_persistence_config tests g_controller ...
ConfigTest ==
    /\ pc = "test"
    /\ published = "yes"
    /\ pc' = "relock"
    /\ UNCHANGED <<psm, at, config, poller, mutexVars, setVars, reply, sets, crashes, historyVars>>

\* The arguments of a SET that is over are gone.
Forget == key' = "enabled" /\ value' = FALSE

\* ... and if it is NULL the setter returns 0 without a configuration: the SET is
\* answered with success, and its unlock finds no controller either.
ConfigSkipped ==
    /\ pc = "test"
    /\ published # "yes"
    /\ pc' = "ready" /\ reply' = "ok" /\ skipped' = TRUE
    /\ Forget
    /\ UNCHANGED <<psm, at, config, poller, mutexVars, sets, crashes, unread, kept, promise>>

\* The second lock: the SET owns the mutex, so it waits for somebody else to
\* unlock it.  (Had g_controller been cleared meanwhile, reading its config after
\* the lock would kill the daemon.)
Relock ==
    /\ pc = "relock"
    /\ published = "yes" /\ ~locked
    /\ locked' = TRUE
    /\ config' = [config EXCEPT ![key] = value]
    /\ promise' = promise \ {key}
    /\ pc' = "save" /\ at' = 1
    /\ UNCHANGED <<psm, poller, published, stray, setVars, reply, sets, crashes, unread, kept,
                   skipped>>

\* The unlocks of setter and handler: none once g_controller is cleared.
Unlock == locked' = (locked /\ published # "yes")

\* One record of eponMgr_persistence_save; the last one completes the SET.
\* A setting this run never read goes back as its default, whatever PSM holds.
WriteRecord ==
    /\ pc = "save"
    /\ psm' = [psm EXCEPT ![Order[at]] = Encode(Order[at], config[Order[at]])]
    /\ Advance("ready")
    /\ unread' = unread \ {Order[at]}
    /\ IF at = Len(Order)
         THEN reply' = "ok" /\ kept' = config /\ promise' = Key /\ Unlock /\ Forget
         ELSE /\ promise' = promise \ (unread \cap {Order[at]})
              /\ UNCHANGED <<reply, kept, locked, setVars>>
    /\ UNCHANGED <<config, poller, published, stray, sets, crashes, skipped>>

\* Variant with a fault: a failed write is logged and the save goes on.
WriteFailureIgnored ==
    /\ pc = "save"
    /\ Advance("ready")
    /\ IF at = Len(Order) THEN reply' = "ok" /\ Unlock /\ Forget
                          ELSE UNCHANGED <<reply, locked, setVars>>
    /\ UNCHANGED <<psm, config, poller, published, stray, sets, crashes, historyVars>>

\* Variant with a fault: a failed SET is taken back, in the configuration only.
WriteFailsRestoresConfig ==
    /\ pc = "save"
    /\ pc' = "ready"
    /\ reply' = "failed"
    /\ Unlock /\ Forget
    /\ config' = [k \in Key |-> LoadedValue(k, psm[k], config)]
    /\ UNCHANGED <<psm, at, poller, published, stray, sets, crashes, historyVars>>

\* The first write that fails ends the save; the records before it are stored,
\* and the poller and the configuration keep the new value.
WriteFails ==
    /\ pc = "save"
    /\ pc' = "ready"
    /\ reply' = "failed"
    /\ Unlock /\ Forget
    /\ UNCHANGED <<psm, at, config, poller, published, stray, sets, crashes, historyVars>>

\* The daemon dies, or is stopped: nothing is saved on the way out, and what it
\* had in memory is lost.
Die ==
    /\ crashes < MaxCrashes
    /\ pc' = "boot"
    /\ at' = 1 /\ config' = Default /\ poller' = Idle /\ reply' = "none"
    /\ published' = "no" /\ locked' = FALSE /\ stray' = 0 /\ skipped' = FALSE
    /\ key' = "enabled" /\ value' = FALSE
    /\ crashes' = crashes + 1
    /\ UNCHANGED <<psm, sets, unread, kept, promise>>

Load == LoadRecord \/ LoadFails
Global == StrayGet \/ StrayUnlock \/ Publish \/ ClearGlobal
Set == SetUnavailable \/ SetEnabled \/ SetInterval \/ SetIntervalRefused
Save == ConfigTest \/ ConfigSkipped \/ Relock \/ WriteRecord \/ WriteFails

Next == Boot \/ Load \/ InitPoller \/ Global \/ Set \/ Save \/ Die

Spec == Init /\ [][Next]_vars

-----------------------------------------------------------------------------
\* The state stays within its types.
TypeOK ==
    /\ psm \in [Key -> Text]
    /\ pc \in {"boot", "load", "start", "ready", "test", "relock", "save"}
    /\ at \in 1 .. Len(Order) + 1
    /\ config \in [ttl : Nat, dpoe : BOOLEAN, enabled : BOOLEAN, interval : Nat]
    /\ poller \in [enabled : BOOLEAN, interval : Nat]
    /\ published \in {"no", "yes", "cleared"} /\ locked \in BOOLEAN /\ stray \in 0 .. MaxStray
    /\ \/ key = "enabled" /\ value \in BOOLEAN
       \/ key = "interval" /\ value \in Asked
    /\ reply \in {"none", "ok", "failed", "refused"}
    /\ sets \in 0 .. MaxSets /\ crashes \in 0 .. MaxCrashes
    /\ unread \subseteq Key /\ promise \subseteq Key /\ skipped \in BOOLEAN
    /\ kept \in [ttl : Nat, dpoe : BOOLEAN, enabled : BOOLEAN, interval : Nat]

\* Whatever the records hold, the cache TTL and the polling interval the daemon
\* works with are within their limits: a TTL of 0 would never cache, an interval
\* of 0 would poll without a pause.
SettingsInRange ==
    config \in Config /\ poller.interval \in ValidInterval

\* As long as a GET of its parameters can be answered and no SET is under way,
\* the poller does what the GET says: after a SET that failed to be stored and
\* after a restart too.  (Once g_controller is cleared a SET changes the poller
\* alone.)
PollerFollowsConfig ==
    pc = "ready" /\ published = "yes" =>
        poller = [enabled |-> config.enabled, interval |-> config.interval]

\* A SET that is answered with success has stored the whole configuration, the
\* values an earlier SET failed to store included, unless it was overtaken by
\* the shutdown: once g_controller is cleared the setter skips the configuration,
\* stores nothing and reports success all the same.
SuccessStoresAll ==
    pc = "ready" /\ reply = "ok" =>
        \/ \A k \in Key : psm[k] = Encode(k, config[k])
        \/ skipped /\ published = "cleared"

\* A setting that was read from PSM or stored by a SET that reached its end is
\* what the next start will read, and what the configuration of this run says,
\* until a SET changes that very setting in the configuration: neither a SET of
\* another one, nor one that waits at its second lock or is skipped, nor a save
\* that stops half-way, nor a death of the daemon at any point changes it.  (If
\* reading its record failed, the default is used and a later SET of any setting
\* stores it.)
RestartKeepsSettings ==
    \A k \in promise :
        /\ psm[k].kind # "absent"
        /\ LoadedValue(k, psm[k], Default) = kept[k]
        /\ pc \notin {"boot", "load"} /\ k \notin unread => config[k] = kept[k]
=============================================================================
