------------------------- MODULE Persistence_proofs -------------------------
(***************************************************************************)
(* Proofs about Persistence: the settings stay within their limits, the    *)
(* poller follows the configuration between two SETs, a SET that is not    *)
(* overtaken by the shutdown and succeeds has stored all four records, and *)
(* a restart keeps what was read or stored.  What makes these inductive is *)
(* how far a load or a save has got (the records before the next one are   *)
(* done, those from it on are as they were), and what the SET under way    *)
(* has still to change in the configuration.                               *)
(***************************************************************************)
EXTENDS Persistence, TLAPS

\* The numbers a record, hence the configuration, may hold.
Held == Number \cup Asked \cup {DefaultTTL, DefaultInterval}

\* Settings a daemon may have in memory.
Memory == [ttl : Held \cap ValidTTL, dpoe : BOOLEAN, enabled : BOOLEAN,
           interval : Held \cap ValidInterval]

\* The poller's copy of its two settings in configuration c.
Copy(c) == [enabled |-> c.enabled, interval |-> c.interval]

\* What the SET under way changes, and to what.
Arguments ==
    \/ key = "enabled" /\ value \in BOOLEAN
    \/ key = "interval" /\ value \in Asked \cap ValidInterval

Types ==
    /\ psm \in [Key -> Text]
    /\ pc \in {"boot", "load", "start", "ready", "test", "relock", "save"}
    /\ at \in 1 .. 5
    /\ pc \in {"load", "save"} => at \in 1 .. 4
    /\ config \in Memory
    /\ poller \in [enabled : BOOLEAN, interval : ValidInterval]
    /\ published \in {"no", "yes", "cleared"} /\ locked \in BOOLEAN /\ stray \in 0 .. MaxStray
    /\ Arguments
    /\ skipped \in BOOLEAN
    /\ pc = "test" => published # "no"
    /\ reply \in {"none", "ok", "failed", "refused"}
    /\ sets \in 0 .. MaxSets /\ crashes \in 0 .. MaxCrashes
    /\ unread \subseteq Key /\ promise \subseteq Key
    /\ kept \in Memory

\* A SET is answered with success when all is stored, or when it found no
\* controller; while a save is under way the records before the next one are.
Stored ==
    /\ reply = "ok" =>
          /\ pc = "ready"
          /\ \/ \A k \in Key : psm[k] = Encode(k, config[k])
             \/ skipped /\ published = "cleared"
    /\ pc = "save" => \A i \in 1 .. 4 :
          i < at => psm[Order[i]] = Encode(Order[i], config[Order[i]])

\* A promised setting is in its record, ...
Recorded ==
    \A k \in promise :
        psm[k].kind # "absent" /\ LoadedValue(k, psm[k], Default) = kept[k]

\* ... and in memory once its record has been reached and read.
Remembered ==
    /\ pc \in {"start", "ready", "test", "relock", "save"} =>
          \A k \in promise \ unread : config[k] = kept[k]
    /\ pc = "load" => \A i \in 1 .. 4 :
          /\ i < at /\ Order[i] \in promise \ unread => config[Order[i]] = kept[Order[i]]
          /\ i >= at => config[Order[i]] = Default[Order[i]]

\* Until g_controller is cleared the poller has what the configuration has, or
\* will have once the SET under way has its second lock.
Follows ==
    published # "cleared" =>
        /\ pc \in {"ready", "save"} => poller = Copy(config)
        /\ pc \in {"test", "relock"} => poller = Copy([config EXCEPT ![key] = value])

IInv == Types /\ Follows /\ Stored /\ Recorded /\ Remembered

-----------------------------------------------------------------------------
\* The order of the records names each setting once.
LEMMA OrderFacts ==
    /\ Len(Order) = 4
    /\ Order[1] = "ttl" /\ Order[2] = "dpoe" /\ Order[3] = "enabled" /\ Order[4] = "interval"
    /\ \A i \in 1 .. 4 : Order[i] \in Key
    /\ \A k \in Key : \E i \in 1 .. 4 : k = Order[i]
    /\ \A i, j \in 1 .. 4 : Order[i] = Order[j] => i = j
  BY DEF Order, Key

\* Assigning one setting a value of its type changes that setting only.
LEMMA MemoryUpdate ==
    ASSUME NEW c \in Memory, NEW k \in Key, NEW v,
           k \in Flag => v \in BOOLEAN,
           k = "ttl" => v \in Held \cap ValidTTL,
           k = "interval" => v \in Held \cap ValidInterval
    PROVE  /\ [c EXCEPT ![k] = v] \in Memory
           /\ [c EXCEPT ![k] = v][k] = v
           /\ \A j \in Key \ {k} : [c EXCEPT ![k] = v][j] = c[j]
  BY DEF Memory, Key, Flag

\* eponMgr_persistence_load takes a value within the limits from any text.
LEMMA LoadIsTyped ==
    ASSUME NEW k \in Key, NEW text \in Text, NEW c \in Memory
    PROVE  /\ k \in Flag => LoadedValue(k, text, c) \in BOOLEAN
           /\ k = "ttl" => LoadedValue(k, text, c) \in Held \cap ValidTTL
           /\ k = "interval" => LoadedValue(k, text, c) \in Held \cap ValidInterval
<1> USE PersistenceAssumption DEF LoadedValue, Key, Flag, Memory
<1>1. CASE k \in Flag
  BY <1>1 DEF BoolOf
<1>2. UIntOf(text) \in Held \/ UIntOf(text) = 0
  BY DEF UIntOf, Text, TextOf, NumberText, Held
<1>3. 0 \notin ValidTTL /\ 0 \notin ValidInterval
  BY DEF ValidTTL, ValidInterval
<1>4. CASE k = "ttl"
  BY <1>2, <1>3, <1>4 DEF UIntIn
<1>5. CASE k = "interval"
  BY <1>2, <1>3, <1>5 DEF UIntIn
<1>6. QED
  BY <1>1, <1>4, <1>5

\* What eponMgr_persistence_save wrote of a value, _load turns into that value.
LEMMA Restores ==
    ASSUME NEW k \in Key, NEW c \in Memory, NEW d
    PROVE  /\ Encode(k, c[k]) \in Text
           /\ Encode(k, c[k]).kind # "absent"
           /\ LoadedValue(k, Encode(k, c[k]), d) = c[k]
<1> USE PersistenceAssumption DEF Key, Flag, Memory, Encode
<1>1. CASE k \in Flag
  BY <1>1 DEF BoolOf, LoadedValue, FlagText, TextOf, NumberText, Text
<1>2. CASE k = "ttl"
  BY <1>2 DEF LoadedValue, UIntIn, UIntOf, TextOf, NumberText, Text, Held
<1>3. CASE k = "interval"
  BY <1>3 DEF LoadedValue, UIntIn, UIntOf, TextOf, NumberText, Text, Held
<1>4. QED
  BY <1>1, <1>2, <1>3

\* The configuration before matters to a load only in the setting itself.
LEMMA LoadIsLocal ==
    ASSUME NEW k \in Key, NEW text, NEW c \in Memory, NEW d \in Memory, c[k] = d[k]
    PROVE  LoadedValue(k, text, c) = LoadedValue(k, text, d)
  BY DEF LoadedValue, Key, Flag, UIntIn, Memory

LEMMA DefaultInMemory == Default \in Memory /\ Idle \in [enabled : BOOLEAN, interval : ValidInterval]
  BY PersistenceAssumption DEF Default, Idle, Memory, Held, ValidTTL, ValidInterval

-----------------------------------------------------------------------------
\* Whatever PSM holds when the daemon first starts, the invariant holds.
LEMMA InitInv == Init => IInv
<1> SUFFICES ASSUME Init PROVE IInv
  OBVIOUS
<1>1. psm \in [Key -> Text]
  BY DEF Init, Key, UIntRecord, FlagRecord, Text, FlagText, NumberText, TextOf
<1>2. Arguments
  BY DEF Arguments, Init
<1>3. locked \in BOOLEAN /\ skipped \in BOOLEAN
  BY DEF Init
<1>4. Types
  BY <1>1, <1>2, <1>3, PersistenceAssumption, DefaultInMemory DEF Types, Init
<1>5. QED
  BY <1>4 DEF IInv, Init, Follows, Stored, Recorded, Remembered

\* The arguments stay, or are forgotten when the SET is over.
LEMMA ArgumentsKept ==
    ASSUME Arguments, UNCHANGED setVars \/ Forget PROVE Arguments'
  BY DEF Arguments, setVars, Forget

\* The value a SET brings is within the limits when the poller takes it ...
LEMMA SetTyped ==
    ASSUME IInv, Set PROVE Types'
<1> USE PersistenceAssumption DEF IInv, Types, Receive, mutexVars, historyVars
<1>1. CASE SetUnavailable
  BY <1>1, ArgumentsKept DEF SetUnavailable
<1>2. CASE SetEnabled
  <2> PICK b \in BOOLEAN : SetPoller("enabled", b)
    BY <1>2 DEF SetEnabled
  <2>1. poller' \in [enabled : BOOLEAN, interval : ValidInterval]
    BY DEF SetPoller
  <2>2. Arguments'
    BY DEF SetPoller, Arguments
  <2>3. locked' \in BOOLEAN /\ skipped' \in BOOLEAN
    BY DEF SetPoller
  <2>4. QED
    BY <2>1, <2>2, <2>3 DEF SetPoller
<1>3. CASE SetInterval
  <2> PICK n \in Asked \cap ValidInterval : SetPoller("interval", n)
    BY <1>3 DEF SetInterval
  <2>1. poller' \in [enabled : BOOLEAN, interval : ValidInterval]
    BY DEF SetPoller
  <2>2. Arguments'
    BY DEF SetPoller, Arguments
  <2>3. locked' \in BOOLEAN /\ skipped' \in BOOLEAN
    BY DEF SetPoller
  <2>4. QED
    BY <2>1, <2>2, <2>3 DEF SetPoller
<1>4. CASE SetIntervalRefused
  BY <1>4, ArgumentsKept DEF SetIntervalRefused
<1>5. QED
  BY <1>1, <1>2, <1>3, <1>4 DEF Set

\* ... and when the configuration takes it.
LEMMA RelockTyped ==
    ASSUME IInv, Relock PROVE Types'
<1> USE DEF IInv, Types
<1>1. config' = [config EXCEPT ![key] = value]
  BY DEF Relock
<1>2. /\ key \in Key
      /\ key \in Flag => value \in BOOLEAN
      /\ key # "ttl"
      /\ key = "interval" => value \in Held \cap ValidInterval
  BY DEF Key, Flag, Held, Arguments
<1>3. config' \in Memory
  BY <1>1, <1>2, MemoryUpdate
<1>4. Arguments'
  BY ArgumentsKept DEF Relock
<1>5. QED
  BY <1>3, <1>4 DEF Relock

\* What happens to g_controller and ctrl->mutex touches no setting.
LEMMA GlobalTyped ==
    ASSUME IInv, Global PROVE Types'
<1> USE PersistenceAssumption, ArgumentsKept DEF IInv, Types, historyVars
<1>1. CASE StrayGet
  BY <1>1 DEF StrayGet
<1>2. CASE StrayUnlock
  BY <1>2 DEF StrayUnlock
<1>3. CASE Publish
  BY <1>3 DEF Publish
<1>4. CASE ClearGlobal
  BY <1>4 DEF ClearGlobal
<1>5. QED
  BY <1>1, <1>2, <1>3, <1>4 DEF Global

\* Each action keeps the state within its types.
LEMMA TypesStep == IInv /\ [Next]_vars => Types'
<1> SUFFICES ASSUME IInv, [Next]_vars PROVE Types'
  OBVIOUS
<1> USE ArgumentsKept DEF IInv, Types, mutexVars
<1>1. CASE Boot
  BY <1>1, DefaultInMemory DEF Boot
<1>2. CASE LoadRecord
  <2> DEFINE k == Order[at]
             v == LoadedValue(k, psm[k], config)
  <2>1. k \in Key
    BY <1>2, OrderFacts DEF LoadRecord
  <2>2. /\ k \in Flag => v \in BOOLEAN
        /\ k = "ttl" => v \in Held \cap ValidTTL
        /\ k = "interval" => v \in Held \cap ValidInterval
    BY <2>1, LoadIsTyped
  <2>3. config' = [config EXCEPT ![k] = v] /\ promise' = promise \cup {k}
        /\ (kept' = kept \/ kept' = [kept EXCEPT ![k] = v])
    <3>1. kept' = [kept EXCEPT ![k] = IF k \in promise THEN kept[k] ELSE v]
      BY <1>2 DEF LoadRecord
    <3>2. kept = [kept EXCEPT ![k] = kept[k]]
      BY <2>1 DEF Memory, Key
    <3>3. QED
      BY <1>2, <3>1, <3>2 DEF LoadRecord
  <2>4. config' \in Memory /\ kept' \in Memory
    <3> HIDE DEF k, v
    <3>1. \A c \in Memory : [c EXCEPT ![k] = v] \in Memory
      BY <2>1, <2>2, MemoryUpdate
    <3>2. config \in Memory /\ kept \in Memory
      OBVIOUS
    <3>3. QED
      BY <2>3, <3>1, <3>2
  <2>5. QED
    BY <1>2, <2>1, <2>3, <2>4, OrderFacts DEF LoadRecord, Advance
<1>3. CASE LoadFails
  BY <1>3, OrderFacts DEF LoadFails, Advance
<1>4. CASE InitPoller
  BY <1>4 DEF InitPoller, historyVars, Memory
<1>5. CASE Set
  BY <1>5, SetTyped
<1>6. CASE WriteRecord
  <2>1. Order[at] \in Key
    BY <1>6, OrderFacts DEF WriteRecord
  <2>2. psm' \in [Key -> Text]
    BY <1>6, <2>1, Restores DEF WriteRecord
  <2>3. Arguments'
    BY <1>6, ArgumentsKept DEF WriteRecord, setVars
  <2>4. locked' \in BOOLEAN
    BY <1>6 DEF WriteRecord, Unlock
  <2>5. QED
    BY <1>6, <2>1, <2>2, <2>3, <2>4, OrderFacts DEF WriteRecord, Advance
<1>7. CASE WriteFails
  BY <1>7 DEF WriteFails, Unlock, historyVars
<1>8. CASE Die
  <2>1. Arguments'
    BY <1>8, ArgumentsKept DEF Die, Forget
  <2>2. locked' \in BOOLEAN /\ skipped' \in BOOLEAN
    BY <1>8 DEF Die
  <2>3. QED
    BY <1>8, <2>1, <2>2, DefaultInMemory, PersistenceAssumption DEF Die
<1>9. CASE UNCHANGED vars
  BY <1>9 DEF vars, historyVars
<1>10. CASE Global
  BY <1>10, GlobalTyped
<1>11. CASE ConfigTest
  BY <1>11 DEF ConfigTest, historyVars
<1>12. CASE ConfigSkipped
  BY <1>12 DEF ConfigSkipped
<1>13. CASE Relock
  BY <1>13, RelockTyped
<1>14. QED
  BY <1>1, <1>2, <1>3, <1>4, <1>5, <1>6, <1>7, <1>8, <1>9, <1>10, <1>11, <1>12, <1>13
     DEF Next, Load, Save

\* The poller's copy is ahead of the configuration by the setting of the SET
\* under way, and by nothing else.
LEMMA FollowsStep == IInv /\ [Next]_vars => Follows'
<1> SUFFICES ASSUME IInv, [Next]_vars PROVE Follows'
  OBVIOUS
<1> USE DEF IInv, Types, Follows, Copy, mutexVars, setVars
<1>1. CASE Boot \/ Die
  BY <1>1 DEF Boot, Die
<1>2. CASE Load
  BY <1>2 DEF Load, LoadRecord, LoadFails, Advance
<1>3. CASE InitPoller
  BY <1>3 DEF InitPoller
<1>4. CASE SetEnabled
  <2> PICK b \in BOOLEAN : SetPoller("enabled", b)
    BY <1>4 DEF SetEnabled
  <2>1. poller' = [poller EXCEPT !["enabled"] = b] /\ poller = Copy(config)
    BY DEF SetPoller, Receive
  <2>2. poller' = [enabled |-> b, interval |-> config.interval]
    BY <2>1
  <2>3. [config' EXCEPT ![key'] = value'] = [config EXCEPT !["enabled"] = b] /\ pc' = "test"
    BY DEF SetPoller
  <2>4. QED
    BY <2>2, <2>3 DEF Memory
<1>5. CASE SetInterval
  <2> PICK n \in Asked \cap ValidInterval : SetPoller("interval", n)
    BY <1>5 DEF SetInterval
  <2>1. poller' = [poller EXCEPT !["interval"] = n] /\ poller = Copy(config)
    BY DEF SetPoller, Receive
  <2>2. poller' = [enabled |-> config.enabled, interval |-> n]
    BY <2>1
  <2>3. [config' EXCEPT ![key'] = value'] = [config EXCEPT !["interval"] = n] /\ pc' = "test"
    BY DEF SetPoller
  <2>4. QED
    BY <2>2, <2>3 DEF Memory
<1>6. CASE SetUnavailable \/ SetIntervalRefused
  BY <1>6 DEF SetUnavailable, SetIntervalRefused, Receive
<1>7. CASE WriteRecord \/ WriteFails
  BY <1>7 DEF WriteRecord, WriteFails, Advance
<1>8. CASE UNCHANGED vars
  BY <1>8 DEF vars
<1>9. CASE Global
  BY <1>9 DEF Global, StrayGet, StrayUnlock, Publish, ClearGlobal
<1>10. CASE ConfigTest \/ ConfigSkipped
  BY <1>10 DEF ConfigTest, ConfigSkipped
<1>11. CASE Relock
  BY <1>11 DEF Relock
<1>12. QED
  BY <1>1, <1>2, <1>3, <1>4, <1>5, <1>6, <1>7, <1>8, <1>9, <1>10, <1>11 DEF Next, Set, Save

\* A save that reaches its end has stored every record on the way.
LEMMA StoredStep == IInv /\ [Next]_vars => Stored'
<1> SUFFICES ASSUME IInv, [Next]_vars PROVE Stored'
  OBVIOUS
<1> USE DEF IInv, Types, Stored, mutexVars, setVars, historyVars
<1>1. CASE Boot \/ Die
  BY <1>1 DEF Boot, Die
<1>2. CASE Load
  BY <1>2 DEF Load, LoadRecord, LoadFails, Advance
<1>3. CASE InitPoller
  BY <1>3 DEF InitPoller
<1>4. CASE Set
  BY <1>4 DEF Set, SetUnavailable, SetEnabled, SetInterval, SetIntervalRefused, SetPoller, Receive
<1>5. CASE WriteRecord
  <2>1. \A i \in 1 .. 4 : i < at' => psm'[Order[i]] = Encode(Order[i], config'[Order[i]])
    BY <1>5, OrderFacts DEF WriteRecord, Advance
  <2>2. CASE at = 4
    <3>1. \A k \in Key : psm'[k] = Encode(k, config'[k])
      BY <1>5, <2>1, <2>2, OrderFacts DEF WriteRecord, Advance
    <3>2. QED
      BY <1>5, <2>2, <3>1, OrderFacts DEF WriteRecord, Advance
  <2>3. CASE at # 4
    BY <1>5, <2>1, <2>3, OrderFacts DEF WriteRecord, Advance
  <2>4. QED
    BY <2>2, <2>3
<1>6. CASE WriteFails
  BY <1>6 DEF WriteFails
<1>7. CASE UNCHANGED vars
  BY <1>7 DEF vars
<1>8. CASE Global
  BY <1>8 DEF Global, StrayGet, StrayUnlock, Publish, ClearGlobal
<1>9. CASE ConfigTest
  BY <1>9 DEF ConfigTest
<1>10. CASE ConfigSkipped
  <2>1. published' = "cleared" /\ skipped' /\ pc' = "ready"
    <3>1. published' = published /\ published # "yes" /\ skipped' = TRUE /\ pc' = "ready"
      BY <1>10 DEF ConfigSkipped
    <3>2. QED
      BY <1>10, <3>1 DEF ConfigSkipped
  <2>2. QED
    BY <2>1
<1>11. CASE Relock
  BY <1>11 DEF Relock
<1>12. QED
  BY <1>1, <1>2, <1>3, <1>4, <1>5, <1>6, <1>7, <1>8, <1>9, <1>10, <1>11 DEF Next, Save

\* While a setting is promised its record says what was read or stored by a SET:
\* a load takes its value from the record, a save writes it back unchanged.
LEMMA RecordedStep == IInv /\ [Next]_vars => Recorded'
<1> SUFFICES ASSUME IInv, [Next]_vars PROVE Recorded'
  OBVIOUS
<1> USE DEF IInv, Recorded
<1>1. CASE Boot \/ LoadFails \/ InitPoller \/ WriteFails \/ Die \/ UNCHANGED vars
  BY <1>1 DEF Boot, LoadFails, InitPoller, WriteFails, Die, vars, historyVars
<1>2. CASE LoadRecord
  <2> DEFINE k == Order[at]
  <2>1. k \in Key /\ config[k] = Default[k]
    BY <1>2, OrderFacts DEF LoadRecord, Types, Remembered
  <2>2. LoadedValue(k, psm[k], config) = LoadedValue(k, psm[k], Default)
    BY <2>1, LoadIsLocal, DefaultInMemory DEF Types
  <2>3. psm' = psm /\ promise' = promise \cup {k} /\ psm[k].kind # "absent"
    BY <1>2 DEF LoadRecord
  <2>4. kept' = [kept EXCEPT ![k] = IF k \in promise THEN kept[k]
                                      ELSE LoadedValue(k, psm[k], config)]
    BY <1>2 DEF LoadRecord
  <2>5. DOMAIN kept = Key
    BY DEF Types, Memory, Key
  <2>6. kept'[k] = LoadedValue(k, psm[k], Default)
    BY <2>1, <2>2, <2>4, <2>5
  <2>7. \A j \in Key \ {k} : kept'[j] = kept[j]
    BY <2>4, <2>5
  <2>8. promise \subseteq Key
    BY DEF Types
  <2>9. QED
    BY <2>3, <2>6, <2>7, <2>8
<1>3. CASE Set
  BY <1>3 DEF Set, SetUnavailable, SetEnabled, SetInterval, SetIntervalRefused, SetPoller, historyVars
<1>4. CASE WriteRecord
  <2> DEFINE k == Order[at]
  <2>1. k \in Key /\ config \in Memory
    BY <1>4, OrderFacts DEF WriteRecord, Types
  <2>2. psm' = [psm EXCEPT ![k] = Encode(k, config[k])] /\ config' = config
    BY <1>4 DEF WriteRecord
  <2>3. psm'[k] = Encode(k, config[k]) /\ \A j \in Key \ {k} : psm'[j] = psm[j]
    BY <2>1, <2>2 DEF Types
  <2>4. psm'[k].kind # "absent" /\ LoadedValue(k, psm'[k], Default) = config[k]
    BY <2>1, <2>3, Restores
  <2>5. CASE at = 4
    <3>1. \A j \in Key \ {k} : psm[j] = Encode(j, config[j])
      BY <1>4, <2>5, OrderFacts DEF WriteRecord, Types, Stored
    <3>2. \A j \in Key : psm'[j].kind # "absent" /\ LoadedValue(j, psm'[j], Default) = config[j]
      BY <2>1, <2>3, <2>4, <3>1, Restores
    <3>3. kept' = config /\ promise' = Key
      BY <1>4, <2>5, OrderFacts DEF WriteRecord
    <3>4. QED
      BY <3>2, <3>3
  <2>6. CASE at # 4
    <3>1. kept' = kept /\ promise' = promise \ (unread \cap {k})
      BY <1>4, <2>6, OrderFacts DEF WriteRecord
    <3>2. k \in promise' => config[k] = kept[k]
      BY <1>4, <3>1 DEF WriteRecord, Remembered
    <3>3. promise \subseteq Key
      BY DEF Types
    <3>4. QED
      BY <2>3, <2>4, <3>1, <3>2, <3>3
  <2>7. QED
    BY <2>5, <2>6
<1>5. CASE Global \/ ConfigTest \/ ConfigSkipped
  BY <1>5 DEF Global, StrayGet, StrayUnlock, Publish, ClearGlobal, ConfigTest, ConfigSkipped,
              historyVars
<1>6. CASE Relock
  BY <1>6 DEF Relock
<1>7. QED
  BY <1>1, <1>2, <1>3, <1>4, <1>5, <1>6 DEF Next, Load, Save

\* A record that was read is in memory from then on; one not yet reached still
\* has its default there, which decides what an unusable text becomes.
LEMMA RememberedStep == IInv /\ [Next]_vars => Remembered'
<1> SUFFICES ASSUME IInv, [Next]_vars PROVE Remembered'
  OBVIOUS
<1> USE DEF IInv, Types, Remembered
<1>1. CASE Boot
  BY <1>1 DEF Boot
<1>2. CASE LoadRecord
  <2> DEFINE k == Order[at]
             v == LoadedValue(k, psm[k], config)
  <2>1. k \in Key /\ config[k] = Default[k]
    BY <1>2, OrderFacts DEF LoadRecord
  <2>2. v = LoadedValue(k, psm[k], Default)
    BY <2>1, LoadIsLocal, DefaultInMemory
  <2>3. config' = [config EXCEPT ![k] = v]
        /\ kept' = [kept EXCEPT ![k] = IF k \in promise THEN kept[k] ELSE v]
    BY <1>2 DEF LoadRecord
  <2>4. DOMAIN config = Key /\ DOMAIN kept = Key
    BY DEF Memory, Key
  <2>5. k \in promise => kept[k] = v
    BY <2>2 DEF Recorded
  <2>6. config'[k] = v /\ kept'[k] = v
    BY <2>1, <2>3, <2>4, <2>5
  <2>7. \A j \in Key \ {k} : config'[j] = config[j] /\ kept'[j] = kept[j]
    BY <2>3, <2>4
  <2>8. /\ at' = at + 1 /\ unread' = unread /\ promise' = promise \cup {k}
        /\ pc = "load" /\ pc' = IF at = 4 THEN "start" ELSE "load"
    BY <1>2, OrderFacts DEF LoadRecord, Advance
  <2>9. \A i \in 1 .. 4 : i # at => Order[i] \in Key \ {k}
    BY <2>8, OrderFacts
  <2> HIDE DEF k, v
  <2>10. \A i \in 1 .. 4 : i < at' /\ Order[i] \in promise' \ unread'
                              => config'[Order[i]] = kept'[Order[i]]
    BY <2>6, <2>7, <2>8, <2>9 DEF k
  <2>11. \A i \in 1 .. 4 : i >= at' => config'[Order[i]] = Default[Order[i]]
    BY <2>7, <2>8, <2>9
  <2>12. CASE at = 4
    <3>1. \A j \in Key : j \in promise' \ unread' => config'[j] = kept'[j]
      BY <2>8, <2>10, <2>12, OrderFacts
    <3>2. promise' \subseteq Key
      BY <2>1, <2>8
    <3>3. QED
      BY <2>8, <2>12, <3>1, <3>2
  <2>13. CASE at # 4
    BY <2>8, <2>10, <2>11, <2>13
  <2>14. QED
    BY <2>12, <2>13
<1>3. CASE LoadFails
  <2>1. /\ at' = at + 1 /\ unread' = unread \cup {Order[at]}
        /\ promise' = promise /\ config' = config /\ kept' = kept
        /\ pc = "load" /\ pc' = IF at = 4 THEN "start" ELSE "load"
    BY <1>3, OrderFacts DEF LoadFails, Advance
  <2>2. \A i \in 1 .. 4 : i < at' /\ Order[i] \in promise' \ unread'
                             => config'[Order[i]] = kept'[Order[i]]
    BY <2>1
  <2>3. CASE at = 4
    BY <2>1, <2>2, <2>3, OrderFacts
  <2>4. CASE at # 4
    BY <2>1, <2>2, <2>4
  <2>5. QED
    BY <2>3, <2>4
<1>4. CASE InitPoller
  BY <1>4 DEF InitPoller, historyVars
<1>5. CASE Relock
  <2>1. DOMAIN config = Key
    BY DEF Memory, Key
  <2>2. \A j \in Key \ {key} : config'[j] = config[j]
    BY <1>5, <2>1 DEF Relock
  <2>3. QED
    BY <1>5, <2>2 DEF Relock
<1>6. CASE Set \/ WriteFails \/ UNCHANGED vars
  BY <1>6 DEF Set, SetUnavailable, SetEnabled, SetInterval, SetIntervalRefused, SetPoller, Receive,
              WriteFails, vars, historyVars
<1>7. CASE WriteRecord
  <2>1. CASE at = 4
    BY <1>7, <2>1, OrderFacts DEF WriteRecord, Advance
  <2>2. CASE at # 4
    BY <1>7, <2>2, OrderFacts DEF WriteRecord, Advance
  <2>3. QED
    BY <2>1, <2>2
<1>8. CASE Die
  BY <1>8 DEF Die
<1>9. CASE Global \/ ConfigTest \/ ConfigSkipped
  BY <1>9 DEF Global, StrayGet, StrayUnlock, Publish, ClearGlobal, ConfigTest, ConfigSkipped,
              historyVars
<1>10. QED
  BY <1>1, <1>2, <1>3, <1>4, <1>5, <1>6, <1>7, <1>8, <1>9 DEF Next, Load, Save

-----------------------------------------------------------------------------
\* The inductive invariant holds in every state of every run.
THEOREM Invariance == Spec => []IInv
<1>1. IInv /\ [Next]_vars => IInv'
  BY TypesStep, FollowsStep, StoredStep, RecordedStep, RememberedStep DEF IInv
<1>2. QED
  BY InitInv, <1>1, PTL DEF Spec

\* The state stays within its types, with whatever numbers the records hold.
THEOREM TypeCorrect == Spec => []TypeOK
<1>1. Held \subseteq Nat
  BY PersistenceAssumption DEF Held
<1>2. IInv => TypeOK
  <2> SUFFICES ASSUME IInv PROVE TypeOK
    OBVIOUS
  <2>1. /\ config \in [ttl : Nat, dpoe : BOOLEAN, enabled : BOOLEAN, interval : Nat]
        /\ kept \in [ttl : Nat, dpoe : BOOLEAN, enabled : BOOLEAN, interval : Nat]
    BY <1>1 DEF IInv, Types, Memory
  <2>2. poller \in [enabled : BOOLEAN, interval : Nat]
    BY PersistenceAssumption DEF IInv, Types, ValidInterval
  <2>3. \/ key = "enabled" /\ value \in BOOLEAN
        \/ key = "interval" /\ value \in Asked
    BY DEF IInv, Types, Arguments
  <2>4. QED
    BY <2>1, <2>2, <2>3, OrderFacts DEF IInv, Types, TypeOK
<1>3. QED
  BY Invariance, <1>2, PTL

\* No text in PSM and no SET brings the cache TTL or the polling interval out of
\* their limits (the tests in eponMgr_persistence_load and the poller's setter).
THEOREM LimitsHold == Spec => []SettingsInRange
<1>1. IInv => SettingsInRange
  BY DEF IInv, Types, Memory, SettingsInRange, Config
<1>2. QED
  BY Invariance, <1>1, PTL

\* The poller does what a GET of its parameters says, whether saves fail or not,
\* as long as g_controller is set and no SET is on its way to the configuration.
THEOREM PollerAgrees == Spec => []PollerFollowsConfig
<1>1. IInv => PollerFollowsConfig
  BY DEF IInv, Follows, Copy, PollerFollowsConfig
<1>2. QED
  BY Invariance, <1>1, PTL

\* A SET answered with success has stored all four settings, unless it found
\* g_controller cleared (eponMgr_stats_poller.c tests the configuration it gets,
\* and answers success without one).
THEOREM SuccessIsStored == Spec => []SuccessStoresAll
<1>1. IInv => SuccessStoresAll
  BY DEF IInv, Stored, SuccessStoresAll
<1>2. QED
  BY Invariance, <1>1, PTL

\* What was read, or stored by a SET that reached its end, survives failed saves,
\* deaths and restarts, any number of them, until a SET changes it in the
\* configuration.
THEOREM RestartIsSafe == Spec => []RestartKeepsSettings
<1>1. IInv => RestartKeepsSettings
  <2>1. IInv => pc \in {"boot", "load", "start", "ready", "test", "relock", "save"}
    BY DEF IInv, Types
  <2>2. QED
    BY <2>1 DEF IInv, Recorded, Remembered, RestartKeepsSettings
<1>2. QED
  BY Invariance, <1>1, PTL
=============================================================================
