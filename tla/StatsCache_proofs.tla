------------------------- MODULE StatsCache_proofs --------------------------
(***************************************************************************)
(* Proofs about StatsCache.  The inductive invariant is the type invariant *)
(* together with the three parts of CacheInv and the relation between the  *)
(* answers of the HAL and the time stamps; the action properties, about    *)
(* stale counters, repeated fills and half-written data, follow from it.   *)
(***************************************************************************)
EXTENDS StatsCache, TLAPS

\* The HAL's answer is stamped when it has arrived, or is about to be: nobody
\* else fills, and nobody invalidates, in between.
AnswerIsStamped ==
    /\ \A k \in Stat :
          /\ valid[k] => answered[k] # 0
          /\ answered[k] # 0 =>
                \/ valid[k] /\ answered[k] <= timestamp[k]
                \/ \E r \in Reader : rpc[r] = "stamp" /\ wanted[r] = k
    /\ \A r \in Reader : rpc[r] = "stamp" => answered[wanted[r]] # 0

IInv ==
    /\ TypeOK /\ FillOwnsMutex /\ NothingOlderThanClear /\ FillsSpareCachedEntries
    /\ AnswerIsStamped

\* The empty cache of eponMgr_data_init satisfies the invariant.
LEMMA InitInv == Init => IInv
  BY CacheAssumption
  DEF Init, IInv, TypeOK, FillOwnsMutex, NothingOlderThanClear,
      FillsSpareCachedEntries, AnswerIsStamped, Cached, Entry, Reader

\* Each action keeps the state within its types.
LEMMA TypeStep == TypeOK /\ [Next]_vars => TypeOK'
<1> SUFFICES ASSUME TypeOK, [Next]_vars PROVE TypeOK'
  OBVIOUS
<1> USE CacheAssumption DEF TypeOK
<1>1. ASSUME NEW r \in Reader, NEW k \in Entry, ReadBegin(r, k) PROVE TypeOK'
  BY <1>1 DEF ReadBegin, cacheVars, resetVars
<1>2. ASSUME NEW r \in Reader, ReadHit(r) PROVE TypeOK'
  BY <1>2 DEF ReadHit, OwnerAfter, cacheVars, resetVars
<1>3. ASSUME NEW r \in Reader, ReadMiss(r) PROVE TypeOK'
  BY <1>3 DEF ReadMiss, resetVars
<1>4. ASSUME NEW r \in Reader, HalFills(r) PROVE TypeOK'
  BY <1>4 DEF HalFills, SourceOf, resetVars
<1>5. ASSUME NEW r \in Reader, HalFailsToFill(r) PROVE TypeOK'
  BY <1>5 DEF HalFailsToFill, cacheVars, resetVars
<1>6. ASSUME NEW r \in Reader, Stamp(r) PROVE TypeOK'
  BY <1>6 DEF Stamp, OwnerAfter, resetVars
<1>7. ASSUME NEW r \in Reader, Use(r) PROVE TypeOK'
  BY <1>7 DEF Use, cacheVars, resetVars
<1>8. ASSUME NEW c \in Resetter, HalClear(c) PROVE TypeOK'
  BY <1>8 DEF HalClear, cacheVars, readerVars
<1>9. ASSUME NEW c \in Resetter, Invalidate(c) PROVE TypeOK'
  BY <1>9 DEF Invalidate, readerVars
<1>10. CASE OnuChanges
  BY <1>10 DEF OnuChanges, cacheVars, readerVars, resetVars
<1>11. CASE update_status
  BY <1>11 DEF update_status, cacheVars, readerVars, resetVars
<1>12. CASE Tick
  BY <1>12 DEF Tick, cacheVars, readerVars, resetVars
<1>13. CASE UNCHANGED vars
  BY <1>13 DEF vars, cacheVars, readerVars, resetVars
<1>14. QED
  BY <1>1, <1>2, <1>3, <1>4, <1>5, <1>6, <1>7, <1>8, <1>9, <1>10, <1>11, <1>12, <1>13
  DEF Next, Read, Reset

\* The mutex goes from a fill to nobody else before the fill has ended.
LEMMA MutexStep == TypeOK /\ FillOwnsMutex /\ [Next]_vars => FillOwnsMutex'
<1> SUFFICES ASSUME TypeOK, FillOwnsMutex, [Next]_vars PROVE FillOwnsMutex'
  OBVIOUS
<1> USE CacheAssumption DEF TypeOK, FillOwnsMutex
<1>1. ASSUME NEW r \in Reader, NEW k \in Entry, ReadBegin(r, k) PROVE FillOwnsMutex'
  BY <1>1 DEF ReadBegin
<1>2. ASSUME NEW r \in Reader, ReadHit(r) PROVE FillOwnsMutex'
  BY <1>2 DEF ReadHit, OwnerAfter
<1>3. ASSUME NEW r \in Reader, ReadMiss(r) PROVE FillOwnsMutex'
  BY <1>3 DEF ReadMiss
<1>4. ASSUME NEW r \in Reader, HalFills(r) PROVE FillOwnsMutex'
  BY <1>4 DEF HalFills
<1>5. ASSUME NEW r \in Reader, HalFailsToFill(r) PROVE FillOwnsMutex'
  BY <1>5 DEF HalFailsToFill
<1>6. ASSUME NEW r \in Reader, Stamp(r) PROVE FillOwnsMutex'
  BY <1>6 DEF Stamp, OwnerAfter
<1>7. ASSUME NEW r \in Reader, Use(r) PROVE FillOwnsMutex'
  BY <1>7 DEF Use
<1>8. ASSUME NEW c \in Resetter, Reset(c) PROVE FillOwnsMutex'
  BY <1>8 DEF Reset, HalClear, Invalidate, readerVars
<1>9. CASE OnuChanges \/ update_status \/ Tick \/ UNCHANGED vars
  BY <1>9 DEF OnuChanges, update_status, Tick, vars, readerVars
<1>10. QED
  BY <1>1, <1>2, <1>3, <1>4, <1>5, <1>6, <1>7, <1>8, <1>9 DEF Next, Read

\* The heart of the argument: a clear can only return while no fill is under
\* way, so what a fill has read from the HAL is never older than cleared.
LEMMA ClearStep == IInv /\ [Next]_vars => NothingOlderThanClear'
<1> SUFFICES ASSUME IInv, [Next]_vars PROVE NothingOlderThanClear'
  OBVIOUS
<1> USE CacheAssumption DEF IInv, TypeOK, NothingOlderThanClear, Entry
<1>1. ASSUME NEW r \in Reader, NEW k \in Entry, ReadBegin(r, k)
      PROVE NothingOlderThanClear'
  BY <1>1 DEF ReadBegin, cacheVars, resetVars
<1>2. ASSUME NEW r \in Reader, ReadHit(r) PROVE NothingOlderThanClear'
  BY <1>2 DEF ReadHit, Cached, cacheVars, resetVars
<1>3. ASSUME NEW r \in Reader, ReadMiss(r) PROVE NothingOlderThanClear'
  BY <1>3 DEF ReadMiss, resetVars
<1>4. ASSUME NEW r \in Reader, HalFills(r) PROVE NothingOlderThanClear'
  BY <1>4 DEF HalFills, SourceOf, resetVars
<1>5. ASSUME NEW r \in Reader, HalFailsToFill(r) PROVE NothingOlderThanClear'
  BY <1>5 DEF HalFailsToFill, cacheVars, resetVars
<1>6. ASSUME NEW r \in Reader, Stamp(r) PROVE NothingOlderThanClear'
  BY <1>6 DEF Stamp, resetVars
<1>7. ASSUME NEW r \in Reader, Use(r) PROVE NothingOlderThanClear'
  BY <1>7 DEF Use, cacheVars, resetVars
<1>8. ASSUME NEW c \in Resetter, HalClear(c) PROVE NothingOlderThanClear'
  BY <1>8 DEF HalClear, cacheVars, readerVars
<1>9. ASSUME NEW c \in Resetter, Invalidate(c) PROVE NothingOlderThanClear'
  <2>1. \A r \in Reader : rpc[r] # "stamp"
    BY <1>9 DEF Invalidate, FillOwnsMutex, Reader
  <2>2. cleared <= cleared' /\ cleared' <= source'.clears
    BY <1>9 DEF Invalidate
  <2>3. \A k \in Stat : ~valid'[k]
    BY <1>9 DEF Invalidate
  <2>4. QED
    BY <1>9, <2>1, <2>2, <2>3 DEF Invalidate, readerVars
<1>10. CASE OnuChanges \/ update_status \/ Tick \/ UNCHANGED vars
  BY <1>10 DEF OnuChanges, update_status, Tick, vars, cacheVars, readerVars, resetVars
<1>11. QED
  BY <1>1, <1>2, <1>3, <1>4, <1>5, <1>6, <1>7, <1>8, <1>9, <1>10 DEF Next, Read, Reset

\* Nobody fills an entry that is cached; time only makes entries expire.
LEMMA SpareStep == IInv /\ [Next]_vars => FillsSpareCachedEntries'
<1> SUFFICES ASSUME IInv, [Next]_vars PROVE FillsSpareCachedEntries'
  OBVIOUS
<1> USE CacheAssumption
    DEF IInv, TypeOK, FillsSpareCachedEntries, Cached, is_stats_valid
<1>1. ASSUME NEW r \in Reader, NEW k \in Entry, ReadBegin(r, k)
      PROVE FillsSpareCachedEntries'
  BY <1>1 DEF ReadBegin, cacheVars, resetVars
<1>2. ASSUME NEW r \in Reader, ReadHit(r) PROVE FillsSpareCachedEntries'
  BY <1>2 DEF ReadHit, cacheVars, resetVars
<1>3. ASSUME NEW r \in Reader, ReadMiss(r) PROVE FillsSpareCachedEntries'
  BY <1>3 DEF ReadMiss, FillOwnsMutex, Reader
<1>4. ASSUME NEW r \in Reader, HalFills(r) PROVE FillsSpareCachedEntries'
  BY <1>4 DEF HalFills
<1>5. ASSUME NEW r \in Reader, HalFailsToFill(r) PROVE FillsSpareCachedEntries'
  BY <1>5 DEF HalFailsToFill, cacheVars
<1>6. ASSUME NEW r \in Reader, Stamp(r) PROVE FillsSpareCachedEntries'
  BY <1>6 DEF Stamp, FillOwnsMutex, Reader
<1>7. ASSUME NEW r \in Reader, Use(r) PROVE FillsSpareCachedEntries'
  BY <1>7 DEF Use, cacheVars
<1>8. ASSUME NEW c \in Resetter, HalClear(c) PROVE FillsSpareCachedEntries'
  BY <1>8 DEF HalClear, cacheVars, readerVars
<1>9. ASSUME NEW c \in Resetter, Invalidate(c) PROVE FillsSpareCachedEntries'
  BY <1>9 DEF Invalidate, readerVars, Entry
<1>10. CASE OnuChanges \/ update_status \/ UNCHANGED vars
  BY <1>10 DEF OnuChanges, update_status, vars, cacheVars, readerVars
<1>11. CASE Tick
  BY <1>11 DEF Tick, cacheVars, readerVars
<1>12. QED
  BY <1>1, <1>2, <1>3, <1>4, <1>5, <1>6, <1>7, <1>8, <1>9, <1>10, <1>11
  DEF Next, Read, Reset

\* A fill stamps the entry it was answered for before it gives the mutex up.
LEMMA AnswerStep == IInv /\ [Next]_vars => AnswerIsStamped'
<1> SUFFICES ASSUME IInv, [Next]_vars PROVE AnswerIsStamped'
  OBVIOUS
<1> USE CacheAssumption DEF IInv, TypeOK, AnswerIsStamped, Entry
<1>1. ASSUME NEW r \in Reader, NEW k \in Entry, ReadBegin(r, k) PROVE AnswerIsStamped'
  BY <1>1 DEF ReadBegin, cacheVars
<1>2. ASSUME NEW r \in Reader, ReadHit(r) PROVE AnswerIsStamped'
  BY <1>2 DEF ReadHit, cacheVars
<1>3. ASSUME NEW r \in Reader, ReadMiss(r) PROVE AnswerIsStamped'
  BY <1>3 DEF ReadMiss
<1>4. ASSUME NEW r \in Reader, HalFills(r) PROVE AnswerIsStamped'
  BY <1>4 DEF HalFills
<1>5. ASSUME NEW r \in Reader, HalFailsToFill(r) PROVE AnswerIsStamped'
  BY <1>5 DEF HalFailsToFill, cacheVars
<1>6. ASSUME NEW r \in Reader, Stamp(r) PROVE AnswerIsStamped'
  <2>1. \A q \in Reader : rpc[q] = "stamp" => q = r
    BY <1>6 DEF Stamp, FillOwnsMutex
  <2>2. \A k \in Stat \ {wanted[r]} :
           /\ valid'[k] = valid[k] /\ timestamp'[k] = timestamp[k] /\ answered'[k] = answered[k]
    BY <1>6 DEF Stamp
  <2>3. wanted[r] \in Stat =>
           /\ valid'[wanted[r]] /\ timestamp'[wanted[r]] = now
           /\ answered'[wanted[r]] = answered[wanted[r]] /\ answered[wanted[r]] \in 0 .. now
    BY <1>6 DEF Stamp
  <2>4. wanted[r] \in Stat => answered[wanted[r]] # 0
    BY <1>6 DEF Stamp
  <2>5. QED
    BY <1>6, <2>1, <2>2, <2>3, <2>4 DEF Stamp
<1>7. ASSUME NEW r \in Reader, Use(r) PROVE AnswerIsStamped'
  BY <1>7 DEF Use, cacheVars
<1>8. ASSUME NEW c \in Resetter, HalClear(c) PROVE AnswerIsStamped'
  BY <1>8 DEF HalClear, cacheVars, readerVars
<1>9. ASSUME NEW c \in Resetter, Invalidate(c) PROVE AnswerIsStamped'
  BY <1>9 DEF Invalidate, readerVars, FillOwnsMutex, Reader
<1>10. CASE OnuChanges \/ update_status \/ Tick \/ UNCHANGED vars
  BY <1>10 DEF OnuChanges, update_status, Tick, vars, cacheVars, readerVars
<1>11. QED
  BY <1>1, <1>2, <1>3, <1>4, <1>5, <1>6, <1>7, <1>8, <1>9, <1>10 DEF Next, Read, Reset

\* The inductive invariant holds in every state of every run.
THEOREM Invariance == Spec => []IInv
<1>1. IInv /\ [Next]_vars => IInv'
  BY TypeStep, MutexStep, ClearStep, SpareStep, AnswerStep DEF IInv
<1>2. QED
  BY InitInv, <1>1, PTL DEF Spec

\* The state stays within its types, whatever the readers and resets do.
THEOREM TypeCorrect == Spec => []TypeOK
<1>1. IInv => TypeOK
  BY DEF IInv
<1>2. QED
  BY Invariance, <1>1, PTL

\* The mutex and the time stamps do what they are for: fills own the mutex,
\* spare live entries, and leave nothing older than the last returned clear.
THEOREM CacheCorrect == Spec => []CacheInv
<1>1. IInv => CacheInv
  BY DEF IInv, CacheInv
<1>2. QED
  BY Invariance, <1>1, PTL

\* No read that starts after eponMgr_data_clear_stats or
\* eponMgr_data_factory_reset has returned sees counters from before it.
THEOREM NoStaleCounters == Spec => NoCountersFromBeforeClear
<1>1. IInv => \A r \in Reader :
                 Use(r) /\ wanted[r] \in Stat => version[wanted[r]] >= floor[r]
  BY DEF IInv, NothingOlderThanClear, Use
<1>2. IInv /\ [Next]_vars =>
        [\A r \in Reader :
            Use(r) /\ wanted[r] \in Stat => version[wanted[r]] >= floor[r]]_vars
  BY <1>1
<1>3. QED
  BY Invariance, <1>2, PTL DEF Spec, NoCountersFromBeforeClear

\* The getters fetch a statistic at most once in TTL seconds between two resets.
THEOREM AnswersAreRare == Spec => OneAnswerPerTTL
<1> DEFINE Rare(r) == wanted[r] \in Stat =>
             /\ HalFills(r) /\ answered[wanted[r]] # 0 => now - answered[wanted[r]] >= TTL
             /\ ReadHit(r) => answered[wanted[r]] # 0
<1>1. ASSUME IInv, NEW r \in Reader, wanted[r] \in Stat PROVE Rare(r)
  <2> DEFINE k == wanted[r]
  <2>1. ASSUME HalFills(r), answered[k] # 0 PROVE now - answered[k] >= TTL
    <3>1. ~ \E q \in Reader : rpc[q] = "stamp"
      BY <1>1, <2>1 DEF IInv, FillOwnsMutex, HalFills
    <3>2. valid[k] /\ answered[k] <= timestamp[k]
      BY <1>1, <2>1, <3>1 DEF IInv, AnswerIsStamped
    <3>3. ~Cached(k)
      BY <1>1, <2>1 DEF IInv, FillsSpareCachedEntries, HalFills
    <3>4. /\ k \in Entry /\ now \in Nat /\ TTL \in Nat
          /\ timestamp[k] \in 0 .. now /\ answered[k] \in 0 .. now
      BY <1>1, CacheAssumption DEF IInv, TypeOK, Entry
    <3>5. QED
      BY <1>1, <2>1, <3>2, <3>3, <3>4 DEF Cached, is_stats_valid
  <2>2. ASSUME ReadHit(r) PROVE answered[k] # 0
    BY <1>1, <2>2 DEF IInv, AnswerIsStamped, ReadHit, Cached
  <2>3. QED
    BY <2>1, <2>2
<1>2. IInv /\ [Next]_vars => [\A r \in Reader : Rare(r)]_vars
  BY <1>1
<1>3. QED
  BY Invariance, <1>2, PTL DEF Spec, OneAnswerPerTTL

\* A TR-181 handler never reads half-written data.
THEOREM HandlersAreSafe == Spec => HandlersReadWholeData
<1>1. IInv => \A r \in Handler : Use(r) => whole[wanted[r]]
  BY DEF IInv, FillsSpareCachedEntries, Use, Reader
<1>2. IInv /\ [Next]_vars => [\A r \in Handler : Use(r) => whole[wanted[r]]]_vars
  BY <1>1
<1>3. QED
  BY Invariance, <1>2, PTL DEF Spec, HandlersReadWholeData
=============================================================================
