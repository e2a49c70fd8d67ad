--------------------------- MODULE SessionLeaseProofs --------------------------
(***************************************************************************)
(* For any number of workers and sessions, any LockTTL >= 2 and any number *)
(* of errors: the lease of a renewing session is held, reconciliation      *)
(* never condemns it, and a release is clean.  The invariant is a          *)
(* conjunction of six parts; each has a lemma with one step per action     *)
(* that touches the variables of that part.                                *)
(***************************************************************************)
EXTENDS SessionLease, TLAPS

TypeInv == TypeOK /\ StepInv

IInv == TypeInv /\ HomeInv /\ LockInv /\ LeaseInv /\ FreeInv /\ CleanInv

\* Types, and the session a reconciler is at.
LEMMA TypeStep ==
    ASSUME TypeInv, [Next]_vars
    PROVE  TypeInv'
<1> USE DEF TypeInv, TypeOK, StepInv, WStates, RegPcs, RelPcs, MetaStates,
        CallStates, RecSteps, vars, workerVars, place, heart, storeVars,
        recVars
<1>1. ASSUME NEW w \in Workers, NEW s \in Sessions, CreateSession(w, s) PROVE TypeInv'
  BY <1>1, LockTTLAssumption, MaxFaultsAssumption DEF CreateSession
<1>2. ASSUME NEW s \in Sessions, Connected(s) PROVE TypeInv'
  BY <1>2, LockTTLAssumption, MaxFaultsAssumption DEF Connected, Advance
<1>3. ASSUME NEW s \in Sessions, ConnectError(s) PROVE TypeInv'
  BY <1>3, LockTTLAssumption, MaxFaultsAssumption DEF ConnectError, Advance
<1>4. ASSUME NEW s \in Sessions, RegCreate(s) PROVE TypeInv'
  BY <1>4, LockTTLAssumption, MaxFaultsAssumption DEF RegCreate, Advance
<1>5. ASSUME NEW s \in Sessions, RegAcquire(s) PROVE TypeInv'
  BY <1>5, LockTTLAssumption, MaxFaultsAssumption DEF RegAcquire, Advance
<1>6. ASSUME NEW s \in Sessions, RegAddActive(s) PROVE TypeInv'
  BY <1>6, LockTTLAssumption, MaxFaultsAssumption DEF RegAddActive, Advance
<1>7. ASSUME NEW s \in Sessions, RegStart(s) PROVE TypeInv'
  BY <1>7, LockTTLAssumption, MaxFaultsAssumption DEF RegStart, Advance
<1>8. ASSUME NEW s \in Sessions, CommitCall(s) PROVE TypeInv'
  BY <1>8, LockTTLAssumption, MaxFaultsAssumption DEF CommitCall, Advance
<1>9. ASSUME NEW s \in Sessions, RegError(s) PROVE TypeInv'
  BY <1>9, LockTTLAssumption, MaxFaultsAssumption DEF RegError
<1>10. ASSUME NEW s \in Sessions, Elapse(s) PROVE TypeInv'
  BY <1>10, LockTTLAssumption, MaxFaultsAssumption DEF Elapse
<1>11. ASSUME NEW s \in Sessions, Heartbeat(s) PROVE TypeInv'
  BY <1>11, LockTTLAssumption, MaxFaultsAssumption DEF Heartbeat
<1>12. ASSUME NEW s \in Sessions, HeartbeatError(s) PROVE TypeInv'
  BY <1>12, LockTTLAssumption, MaxFaultsAssumption DEF HeartbeatError
<1>13. ASSUME NEW s \in Sessions, TermBegin(s) PROVE TypeInv'
  BY <1>13, LockTTLAssumption, MaxFaultsAssumption DEF TermBegin
<1>14. ASSUME NEW s \in Sessions, TermRead(s) PROVE TypeInv'
  BY <1>14, LockTTLAssumption, MaxFaultsAssumption DEF TermRead, Release
<1>15. ASSUME NEW s \in Sessions, TermWrite(s) PROVE TypeInv'
  BY <1>15, LockTTLAssumption, MaxFaultsAssumption DEF TermWrite, Release
<1>16. ASSUME NEW s \in Sessions, TermDbError(s) PROVE TypeInv'
  BY <1>16, LockTTLAssumption, MaxFaultsAssumption DEF TermDbError
<1>17. ASSUME NEW s \in Sessions, RelCancel(s) PROVE TypeInv'
  BY <1>17, LockTTLAssumption, MaxFaultsAssumption DEF RelCancel, Release
<1>18. ASSUME NEW s \in Sessions, RelExists(s) PROVE TypeInv'
  BY <1>18, LockTTLAssumption, MaxFaultsAssumption DEF RelExists, Release
<1>19. ASSUME NEW s \in Sessions, RelHset(s) PROVE TypeInv'
  BY <1>19, LockTTLAssumption, MaxFaultsAssumption DEF RelHset, Release,
        AfterHset
<1>20. ASSUME NEW s \in Sessions, RelUnlock(s) PROVE TypeInv'
  BY <1>20, LockTTLAssumption, MaxFaultsAssumption, SMTT(30)
     DEF RelUnlock, Release,
        FreeLock
<1>21. ASSUME NEW s \in Sessions, RelRemove(s) PROVE TypeInv'
  BY <1>21, LockTTLAssumption, MaxFaultsAssumption DEF RelRemove, Release
<1>22. ASSUME NEW s \in Sessions, RelDelete(s) PROVE TypeInv'
  BY <1>22, LockTTLAssumption, MaxFaultsAssumption DEF RelDelete, Release,
        FreeLock
<1>23. ASSUME NEW s \in Sessions, RelSrem(s) PROVE TypeInv'
  BY <1>23, LockTTLAssumption, MaxFaultsAssumption DEF RelSrem, Release
<1>24. ASSUME NEW s \in Sessions, RelError(s) PROVE TypeInv'
  BY <1>24, LockTTLAssumption, MaxFaultsAssumption DEF RelError
<1>25. ASSUME NEW w \in Workers, NEW s \in Sessions, RecPick(w, s) PROVE TypeInv'
  BY <1>25, LockTTLAssumption, MaxFaultsAssumption DEF RecPick
<1>26. ASSUME NEW w \in Workers, Startup(w) PROVE TypeInv'
  BY <1>26, LockTTLAssumption, MaxFaultsAssumption DEF Startup
<1>27. ASSUME NEW w \in Workers, RecMeta(w) PROVE TypeInv'
  BY <1>27, LockTTLAssumption, MaxFaultsAssumption DEF RecMeta
<1>28. ASSUME NEW w \in Workers, RecBadMeta(w) PROVE TypeInv'
  BY <1>28, LockTTLAssumption, MaxFaultsAssumption DEF RecBadMeta, Abandon
<1>29. ASSUME NEW w \in Workers, RecStoreError(w) PROVE TypeInv'
  BY <1>29, LockTTLAssumption, MaxFaultsAssumption DEF RecStoreError, Abandon
<1>30. ASSUME NEW w \in Workers, RecRead(w) PROVE TypeInv'
  BY <1>30, LockTTLAssumption, MaxFaultsAssumption DEF RecRead
<1>31. ASSUME NEW w \in Workers, RecFlush(w) PROVE TypeInv'
  BY <1>31, LockTTLAssumption, MaxFaultsAssumption DEF RecFlush
<1>32. ASSUME NEW w \in Workers, RecDbError(w) PROVE TypeInv'
  BY <1>32, LockTTLAssumption, MaxFaultsAssumption DEF RecDbError, DbFails
<1>33. ASSUME NEW w \in Workers, RecDbAborted(w) PROVE TypeInv'
  BY <1>33, LockTTLAssumption, MaxFaultsAssumption DEF RecDbAborted, DbFails
<1>34. ASSUME NEW w \in Workers, RecDeadlock(w) PROVE TypeInv'
  BY <1>34, LockTTLAssumption, MaxFaultsAssumption DEF RecDeadlock, DbFails
<1>35. ASSUME NEW w \in Workers, RecExists(w) PROVE TypeInv'
  BY <1>35, LockTTLAssumption, MaxFaultsAssumption DEF RecExists
<1>36. ASSUME NEW w \in Workers, RecHset(w) PROVE TypeInv'
  BY <1>36, LockTTLAssumption, MaxFaultsAssumption DEF RecHset, AfterHset
<1>37. ASSUME NEW w \in Workers, RecRemove(w) PROVE TypeInv'
  BY <1>37, LockTTLAssumption, MaxFaultsAssumption DEF RecRemove
<1>38. ASSUME NEW w \in Workers, RecCommit(w) PROVE TypeInv'
  BY <1>38, LockTTLAssumption, MaxFaultsAssumption DEF RecCommit
<1>39. ASSUME NEW w \in Workers, Crash(w) PROVE TypeInv'
  BY <1>39, LockTTLAssumption, MaxFaultsAssumption DEF Crash, Vanish
<1>40. ASSUME NEW w \in Workers, Shutdown(w) PROVE TypeInv'
  BY <1>40, LockTTLAssumption, MaxFaultsAssumption DEF Shutdown, Vanish
<1>41. CASE UNCHANGED vars BY <1>41
<1> QED BY <1>1, <1>2, <1>3, <1>4, <1>5, <1>6, <1>7, <1>8, <1>9, <1>10, <1>11,
        <1>12, <1>13, <1>14, <1>15, <1>16, <1>17, <1>18, <1>19, <1>20, <1>21,
        <1>22, <1>23, <1>24, <1>25, <1>26, <1>27, <1>28, <1>29, <1>30, <1>31,
        <1>32, <1>33, <1>34, <1>35, <1>36, <1>37, <1>38, <1>39, <1>40, <1>41
    DEF Next, CreateSteps, TermSteps, RecStepsOf

\* A session has the creator it got when it was created.
LEMMA HomeStep ==
    ASSUME TypeInv, HomeInv, [Next]_vars
    PROVE  HomeInv'
<1> USE DEF TypeInv, TypeOK, HomeInv, BeforeStart, vars, workerVars, place,
        heart, storeVars, recVars
<1>1. ASSUME NEW w \in Workers, NEW s \in Sessions, CreateSession(w, s) PROVE HomeInv'
  BY <1>1, NoWorkerAssumption DEF CreateSession
<1>2. ASSUME NEW s \in Sessions, Connected(s) PROVE HomeInv'
  BY <1>2, NoWorkerAssumption DEF Connected, Advance
<1>3. ASSUME NEW s \in Sessions, ConnectError(s) PROVE HomeInv'
  BY <1>3, NoWorkerAssumption DEF ConnectError, Advance
<1>4. ASSUME NEW s \in Sessions, RegCreate(s) PROVE HomeInv'
  BY <1>4, NoWorkerAssumption DEF RegCreate, Advance
<1>5. ASSUME NEW s \in Sessions, RegAcquire(s) PROVE HomeInv'
  BY <1>5, NoWorkerAssumption DEF RegAcquire, Advance
<1>6. ASSUME NEW s \in Sessions, RegAddActive(s) PROVE HomeInv'
  BY <1>6, NoWorkerAssumption DEF RegAddActive, Advance
<1>7. ASSUME NEW s \in Sessions, RegStart(s) PROVE HomeInv'
  BY <1>7, NoWorkerAssumption DEF RegStart, Advance
<1>8. ASSUME NEW s \in Sessions, CommitCall(s) PROVE HomeInv'
  BY <1>8, NoWorkerAssumption DEF CommitCall, Advance
<1>9. ASSUME NEW s \in Sessions, RegError(s) PROVE HomeInv'
  BY <1>9, NoWorkerAssumption DEF RegError
<1>10. ASSUME NEW s \in Sessions, Elapse(s) PROVE HomeInv'
  BY <1>10, NoWorkerAssumption DEF Elapse
<1>11. ASSUME NEW s \in Sessions, Heartbeat(s) PROVE HomeInv'
  BY <1>11, NoWorkerAssumption DEF Heartbeat
<1>12. ASSUME NEW s \in Sessions, HeartbeatError(s) PROVE HomeInv'
  BY <1>12, NoWorkerAssumption DEF HeartbeatError
<1>13. ASSUME NEW s \in Sessions, TermBegin(s) PROVE HomeInv'
  BY <1>13, NoWorkerAssumption DEF TermBegin
<1>14. ASSUME NEW s \in Sessions, TermRead(s) PROVE HomeInv'
  BY <1>14, NoWorkerAssumption DEF TermRead, Release
<1>15. ASSUME NEW s \in Sessions, TermWrite(s) PROVE HomeInv'
  BY <1>15, NoWorkerAssumption DEF TermWrite, Release
<1>16. ASSUME NEW s \in Sessions, TermDbError(s) PROVE HomeInv'
  BY <1>16, NoWorkerAssumption DEF TermDbError
<1>17. ASSUME NEW s \in Sessions, RelCancel(s) PROVE HomeInv'
  BY <1>17, NoWorkerAssumption DEF RelCancel, Release
<1>18. ASSUME NEW s \in Sessions, RelExists(s) PROVE HomeInv'
  BY <1>18, NoWorkerAssumption DEF RelExists, Release
<1>19. ASSUME NEW s \in Sessions, RelHset(s) PROVE HomeInv'
  BY <1>19, NoWorkerAssumption DEF RelHset, Release, AfterHset
<1>20. ASSUME NEW s \in Sessions, RelUnlock(s) PROVE HomeInv'
  BY <1>20, NoWorkerAssumption DEF RelUnlock, Release, FreeLock
<1>21. ASSUME NEW s \in Sessions, RelRemove(s) PROVE HomeInv'
  BY <1>21, NoWorkerAssumption DEF RelRemove, Release
<1>22. ASSUME NEW s \in Sessions, RelDelete(s) PROVE HomeInv'
  BY <1>22, NoWorkerAssumption DEF RelDelete, Release, FreeLock
<1>23. ASSUME NEW s \in Sessions, RelSrem(s) PROVE HomeInv'
  BY <1>23, NoWorkerAssumption DEF RelSrem, Release
<1>24. ASSUME NEW s \in Sessions, RelError(s) PROVE HomeInv'
  BY <1>24, NoWorkerAssumption DEF RelError
<1>25. ASSUME NEW w \in Workers, Crash(w) PROVE HomeInv'
  BY <1>25, NoWorkerAssumption DEF Crash, Vanish
<1>26. ASSUME NEW w \in Workers, Shutdown(w) PROVE HomeInv'
  BY <1>26, NoWorkerAssumption DEF Shutdown, Vanish
<1>27. CASE
    \/ \E w \in Workers, s \in Sessions : RecPick(w, s)
    \/ \E w \in Workers :
        \/ Startup(w) \/ RecMeta(w) \/ RecBadMeta(w) \/ RecStoreError(w)
        \/ RecRead(w) \/ RecFlush(w) \/ RecDbError(w) \/ RecDbAborted(w)
        \/ RecDeadlock(w) \/ RecExists(w) \/ RecHset(w) \/ RecRemove(w)
        \/ RecCommit(w)
    \/ UNCHANGED vars
  <2>1. UNCHANGED <<home, live, regPc, relPc, lock, hb, beatDue>>
    BY <1>27 DEF RecPick, Startup, RecMeta, RecBadMeta, Abandon, RecStoreError,
          RecRead, RecFlush, RecDbError, DbFails, RecDbAborted, RecDeadlock,
          RecExists, RecHset, AfterHset, RecRemove, RecCommit
  <2> QED BY <2>1
<1> QED BY <1>1, <1>2, <1>3, <1>4, <1>5, <1>6, <1>7, <1>8, <1>9, <1>10, <1>11,
        <1>12, <1>13, <1>14, <1>15, <1>16, <1>17, <1>18, <1>19, <1>20, <1>21,
        <1>22, <1>23, <1>24, <1>25, <1>26, <1>27
    DEF Next, CreateSteps, TermSteps, RecStepsOf

\* A lock that exists has time left and is its creator's.
LEMMA LockStep ==
    ASSUME TypeInv, HomeInv, LockInv, [Next]_vars
    PROVE  LockInv'
<1> USE DEF TypeInv, TypeOK, HomeInv, LockInv, vars, workerVars, place, heart,
        storeVars, recVars
<1>1. ASSUME NEW w \in Workers, NEW s \in Sessions, CreateSession(w, s) PROVE LockInv'
  BY <1>1, NoWorkerAssumption, LockTTLAssumption DEF CreateSession
<1>2. ASSUME NEW s \in Sessions, RegAcquire(s) PROVE LockInv'
  BY <1>2, NoWorkerAssumption, LockTTLAssumption DEF RegAcquire, Advance
<1>3. ASSUME NEW s \in Sessions, Elapse(s) PROVE LockInv'
  BY <1>3, NoWorkerAssumption, LockTTLAssumption DEF Elapse
<1>4. ASSUME NEW s \in Sessions, Heartbeat(s) PROVE LockInv'
  <2>1. home[s] \in Workers /\ home[s] # NoWorker
    BY <1>4, NoWorkerAssumption DEF Heartbeat, BeforeStart
  <2> QED BY <1>4, <2>1, LockTTLAssumption DEF Heartbeat
<1>5. ASSUME NEW s \in Sessions, RelUnlock(s) PROVE LockInv'
  BY <1>5, NoWorkerAssumption, LockTTLAssumption DEF RelUnlock, Release,
        FreeLock
<1>6. ASSUME NEW s \in Sessions, RelDelete(s) PROVE LockInv'
  BY <1>6, NoWorkerAssumption, LockTTLAssumption DEF RelDelete, Release,
        FreeLock
<1>7. CASE
    \/ \E w \in Workers, s \in Sessions : RecPick(w, s)
    \/ \E s \in Sessions :
        \/ Connected(s) \/ ConnectError(s) \/ RegCreate(s) \/ RegAddActive(s)
        \/ RegStart(s) \/ CommitCall(s) \/ RegError(s) \/ HeartbeatError(s)
        \/ TermBegin(s) \/ TermRead(s) \/ TermWrite(s) \/ TermDbError(s)
        \/ RelCancel(s) \/ RelExists(s) \/ RelHset(s) \/ RelRemove(s)
        \/ RelSrem(s) \/ RelError(s)
    \/ \E w \in Workers :
        \/ Startup(w) \/ RecMeta(w) \/ RecBadMeta(w) \/ RecStoreError(w)
        \/ RecRead(w) \/ RecFlush(w) \/ RecDbError(w) \/ RecDbAborted(w)
        \/ RecDeadlock(w) \/ RecExists(w) \/ RecHset(w) \/ RecRemove(w)
        \/ RecCommit(w) \/ Crash(w) \/ Shutdown(w)
    \/ UNCHANGED vars
  <2>1. UNCHANGED <<home, lock, ttl>>
    BY <1>7 DEF Connected, Advance, ConnectError, RegCreate, RegAddActive,
          RegStart, CommitCall, RegError, HeartbeatError, TermBegin, TermRead,
          Release, TermWrite, TermDbError, RelCancel, RelExists, RelHset,
          AfterHset, RelRemove, RelSrem, RelError, RecPick, Startup, RecMeta,
          RecBadMeta, Abandon, RecStoreError, RecRead, RecFlush, RecDbError,
          DbFails, RecDbAborted, RecDeadlock, RecExists, RecHset, RecRemove,
          RecCommit, Crash, Vanish, Shutdown
  <2> QED BY <2>1
<1> QED BY <1>1, <1>2, <1>3, <1>4, <1>5, <1>6, <1>7
    DEF Next, CreateSteps, TermSteps, RecStepsOf

\* The TTL that is left and the silence of the heartbeat add up to LockTTL.
LEMMA LeaseStep ==
    ASSUME TypeInv, HomeInv, LockInv, LeaseInv, [Next]_vars
    PROVE  LeaseInv'
<1> USE DEF TypeInv, TypeOK, HomeInv, LockInv, LeaseInv, Silence, NotReleased,
        BeforeStart, vars, workerVars, place, heart, storeVars, recVars
<1>1. ASSUME NEW w \in Workers, NEW s \in Sessions, CreateSession(w, s) PROVE LeaseInv'
  BY <1>1, NoWorkerAssumption, LockTTLAssumption DEF CreateSession
<1>2. ASSUME NEW s \in Sessions, Connected(s) PROVE LeaseInv'
  BY <1>2, NoWorkerAssumption, LockTTLAssumption DEF Connected, Advance
<1>3. ASSUME NEW s \in Sessions, ConnectError(s) PROVE LeaseInv'
  BY <1>3, NoWorkerAssumption, LockTTLAssumption DEF ConnectError, Advance
<1>4. ASSUME NEW s \in Sessions, RegCreate(s) PROVE LeaseInv'
  BY <1>4, NoWorkerAssumption, LockTTLAssumption DEF RegCreate, Advance
<1>5. ASSUME NEW s \in Sessions, RegAcquire(s) PROVE LeaseInv'
  BY <1>5, NoWorkerAssumption, LockTTLAssumption DEF RegAcquire, Advance
<1>6. ASSUME NEW s \in Sessions, RegAddActive(s) PROVE LeaseInv'
  BY <1>6, NoWorkerAssumption, LockTTLAssumption DEF RegAddActive, Advance
<1>7. ASSUME NEW s \in Sessions, RegStart(s) PROVE LeaseInv'
  BY <1>7, NoWorkerAssumption, LockTTLAssumption DEF RegStart, Advance
<1>8. ASSUME NEW s \in Sessions, CommitCall(s) PROVE LeaseInv'
  BY <1>8, NoWorkerAssumption, LockTTLAssumption DEF CommitCall, Advance
<1>9. ASSUME NEW s \in Sessions, RegError(s) PROVE LeaseInv'
  BY <1>9, NoWorkerAssumption, LockTTLAssumption DEF RegError
<1>10. ASSUME NEW s \in Sessions, Elapse(s) PROVE LeaseInv'
  BY <1>10, NoWorkerAssumption, LockTTLAssumption DEF Elapse
<1>11. ASSUME NEW s \in Sessions, Heartbeat(s) PROVE LeaseInv'
  <2> SUFFICES ASSUME NEW t \in Sessions,
                      (hb[t] \/ regPc[t] \in {"active", "start"})',
                      NotReleased(t)', (Silence(t) < LockTTL)'
               PROVE  (lock[t] = home[t] /\ ttl[t] = LockTTL - Silence(t))'
    OBVIOUS
  <2>1. CASE t # s
    BY <1>11, <2>1 DEF Heartbeat
  <2>2. CASE t = s /\ lock[s] = home[s]
    BY <1>11, <2>2, LockTTLAssumption DEF Heartbeat
  <2>3. CASE t = s /\ lock[s] # home[s]
    <3>1. ~hb'[s] /\ regPc'[s] = regPc[s] /\ hb[s]
      BY <1>11, <2>3 DEF Heartbeat
    <3> QED BY <2>3, <3>1
  <2> QED BY <2>1, <2>2, <2>3
<1>12. ASSUME NEW s \in Sessions, HeartbeatError(s) PROVE LeaseInv'
  BY <1>12, NoWorkerAssumption, LockTTLAssumption DEF HeartbeatError
<1>13. ASSUME NEW s \in Sessions, TermBegin(s) PROVE LeaseInv'
  BY <1>13, NoWorkerAssumption, LockTTLAssumption DEF TermBegin
<1>14. ASSUME NEW s \in Sessions, TermRead(s) PROVE LeaseInv'
  BY <1>14, NoWorkerAssumption, LockTTLAssumption DEF TermRead, Release
<1>15. ASSUME NEW s \in Sessions, TermWrite(s) PROVE LeaseInv'
  BY <1>15, NoWorkerAssumption, LockTTLAssumption DEF TermWrite, Release
<1>16. ASSUME NEW s \in Sessions, TermDbError(s) PROVE LeaseInv'
  BY <1>16, NoWorkerAssumption, LockTTLAssumption DEF TermDbError
<1>17. ASSUME NEW s \in Sessions, RelCancel(s) PROVE LeaseInv'
  BY <1>17, NoWorkerAssumption, LockTTLAssumption DEF RelCancel, Release
<1>18. ASSUME NEW s \in Sessions, RelExists(s) PROVE LeaseInv'
  BY <1>18, NoWorkerAssumption, LockTTLAssumption DEF RelExists, Release
<1>19. ASSUME NEW s \in Sessions, RelHset(s) PROVE LeaseInv'
  BY <1>19, NoWorkerAssumption, LockTTLAssumption DEF RelHset, Release,
        AfterHset
<1>20. ASSUME NEW s \in Sessions, RelUnlock(s) PROVE LeaseInv'
  BY <1>20, NoWorkerAssumption, LockTTLAssumption DEF RelUnlock, Release,
        FreeLock
<1>21. ASSUME NEW s \in Sessions, RelRemove(s) PROVE LeaseInv'
  BY <1>21, NoWorkerAssumption, LockTTLAssumption DEF RelRemove, Release
<1>22. ASSUME NEW s \in Sessions, RelDelete(s) PROVE LeaseInv'
  BY <1>22, NoWorkerAssumption, LockTTLAssumption DEF RelDelete, Release,
        FreeLock
<1>23. ASSUME NEW s \in Sessions, RelSrem(s) PROVE LeaseInv'
  BY <1>23, NoWorkerAssumption, LockTTLAssumption DEF RelSrem, Release
<1>24. ASSUME NEW s \in Sessions, RelError(s) PROVE LeaseInv'
  BY <1>24, NoWorkerAssumption, LockTTLAssumption DEF RelError
<1>25. ASSUME NEW w \in Workers, Crash(w) PROVE LeaseInv'
  BY <1>25, NoWorkerAssumption, LockTTLAssumption DEF Crash, Vanish
<1>26. ASSUME NEW w \in Workers, Shutdown(w) PROVE LeaseInv'
  BY <1>26, NoWorkerAssumption, LockTTLAssumption DEF Shutdown, Vanish
<1>27. CASE
    \/ \E w \in Workers, s \in Sessions : RecPick(w, s)
    \/ \E w \in Workers :
        \/ Startup(w) \/ RecMeta(w) \/ RecBadMeta(w) \/ RecStoreError(w)
        \/ RecRead(w) \/ RecFlush(w) \/ RecDbError(w) \/ RecDbAborted(w)
        \/ RecDeadlock(w) \/ RecExists(w) \/ RecHset(w) \/ RecRemove(w)
        \/ RecCommit(w)
    \/ UNCHANGED vars
  <2>1. UNCHANGED <<home, regPc, relPc, hb, beatDue, misses, lock, ttl>>
    BY <1>27 DEF RecPick, Startup, RecMeta, RecBadMeta, Abandon, RecStoreError,
          RecRead, RecFlush, RecDbError, DbFails, RecDbAborted, RecDeadlock,
          RecExists, RecHset, AfterHset, RecRemove, RecCommit
  <2> QED BY <2>1
<1> QED BY <1>1, <1>2, <1>3, <1>4, <1>5, <1>6, <1>7, <1>8, <1>9, <1>10, <1>11,
        <1>12, <1>13, <1>14, <1>15, <1>16, <1>17, <1>18, <1>19, <1>20, <1>21,
        <1>22, <1>23, <1>24, <1>25, <1>26, <1>27
    DEF Next, CreateSteps, TermSteps, RecStepsOf

\* Nothing a reconciler works on can be acquired any more.
LEMMA FreeStep ==
    ASSUME TypeInv, FreeInv, [Next]_vars
    PROVE  FreeInv'
<1> USE DEF TypeInv, TypeOK, StepInv, FreeInv, PastAcquire, Condemned, vars,
        workerVars, place, heart, storeVars, recVars
<1>1. ASSUME NEW w \in Workers, NEW s \in Sessions, CreateSession(w, s) PROVE FreeInv'
  BY <1>1, NoWorkerAssumption, NoSessionAssumption DEF CreateSession
<1>2. ASSUME NEW s \in Sessions, Connected(s) PROVE FreeInv'
  BY <1>2, NoWorkerAssumption, NoSessionAssumption DEF Connected, Advance
<1>3. ASSUME NEW s \in Sessions, ConnectError(s) PROVE FreeInv'
  BY <1>3, NoWorkerAssumption, NoSessionAssumption DEF ConnectError, Advance
<1>4. ASSUME NEW s \in Sessions, RegCreate(s) PROVE FreeInv'
  BY <1>4, NoWorkerAssumption, NoSessionAssumption DEF RegCreate, Advance
<1>5. ASSUME NEW s \in Sessions, RegAcquire(s) PROVE FreeInv'
  BY <1>5, NoWorkerAssumption, NoSessionAssumption DEF RegAcquire, Advance
<1>6. ASSUME NEW s \in Sessions, RegAddActive(s) PROVE FreeInv'
  BY <1>6, NoWorkerAssumption, NoSessionAssumption DEF RegAddActive, Advance
<1>7. ASSUME NEW s \in Sessions, RegStart(s) PROVE FreeInv'
  BY <1>7, NoWorkerAssumption, NoSessionAssumption DEF RegStart, Advance
<1>8. ASSUME NEW s \in Sessions, CommitCall(s) PROVE FreeInv'
  BY <1>8, NoWorkerAssumption, NoSessionAssumption DEF CommitCall, Advance
<1>9. ASSUME NEW s \in Sessions, RegError(s) PROVE FreeInv'
  BY <1>9, NoWorkerAssumption, NoSessionAssumption DEF RegError
<1>10. ASSUME NEW s \in Sessions, Elapse(s) PROVE FreeInv'
  BY <1>10, NoWorkerAssumption, NoSessionAssumption DEF Elapse
<1>11. ASSUME NEW s \in Sessions, RelUnlock(s) PROVE FreeInv'
  BY <1>11, NoWorkerAssumption, NoSessionAssumption DEF RelUnlock, Release,
        FreeLock
<1>12. ASSUME NEW s \in Sessions, RelRemove(s) PROVE FreeInv'
  BY <1>12, NoWorkerAssumption, NoSessionAssumption DEF RelRemove, Release
<1>13. ASSUME NEW s \in Sessions, RelDelete(s) PROVE FreeInv'
  BY <1>13, NoWorkerAssumption, NoSessionAssumption DEF RelDelete, Release,
        FreeLock
<1>14. ASSUME NEW s \in Sessions, RelSrem(s) PROVE FreeInv'
  BY <1>14, NoWorkerAssumption, NoSessionAssumption DEF RelSrem, Release
<1>15. ASSUME NEW w \in Workers, NEW s \in Sessions, RecPick(w, s) PROVE FreeInv'
  BY <1>15, NoWorkerAssumption, NoSessionAssumption DEF RecPick
<1>16. ASSUME NEW w \in Workers, Startup(w) PROVE FreeInv'
  BY <1>16, NoWorkerAssumption, NoSessionAssumption DEF Startup
<1>17. ASSUME NEW w \in Workers, RecBadMeta(w) PROVE FreeInv'
  BY <1>17, NoWorkerAssumption, NoSessionAssumption DEF RecBadMeta, Abandon
<1>18. ASSUME NEW w \in Workers, RecStoreError(w) PROVE FreeInv'
  BY <1>18, NoWorkerAssumption, NoSessionAssumption DEF RecStoreError, Abandon
<1>19. ASSUME NEW w \in Workers, RecFlush(w) PROVE FreeInv'
  BY <1>19, NoWorkerAssumption, NoSessionAssumption, SMTT(30) DEF RecFlush
<1>20. ASSUME NEW w \in Workers, RecDbError(w) PROVE FreeInv'
  BY <1>20, NoWorkerAssumption, NoSessionAssumption DEF RecDbError, DbFails
<1>21. ASSUME NEW w \in Workers, RecDbAborted(w) PROVE FreeInv'
  BY <1>21, NoWorkerAssumption, NoSessionAssumption DEF RecDbAborted, DbFails
<1>22. ASSUME NEW w \in Workers, RecDeadlock(w) PROVE FreeInv'
  BY <1>22, NoWorkerAssumption, NoSessionAssumption DEF RecDeadlock, DbFails
<1>23. ASSUME NEW w \in Workers, RecRemove(w) PROVE FreeInv'
  BY <1>23, NoWorkerAssumption, NoSessionAssumption DEF RecRemove
<1>24. ASSUME NEW w \in Workers, RecCommit(w) PROVE FreeInv'
  BY <1>24, NoWorkerAssumption, NoSessionAssumption DEF RecCommit
<1>25. ASSUME NEW w \in Workers, Crash(w) PROVE FreeInv'
  BY <1>25, NoWorkerAssumption, NoSessionAssumption DEF Crash, Vanish
<1>26. ASSUME NEW w \in Workers, Shutdown(w) PROVE FreeInv'
  BY <1>26, NoWorkerAssumption, NoSessionAssumption DEF Shutdown, Vanish
<1>27. CASE
    \/ \E s \in Sessions :
        \/ Heartbeat(s) \/ HeartbeatError(s) \/ TermBegin(s) \/ TermRead(s)
        \/ TermWrite(s) \/ TermDbError(s) \/ RelCancel(s) \/ RelExists(s)
        \/ RelHset(s) \/ RelError(s)
    \/ \E w \in Workers :
        \/ RecMeta(w) \/ RecRead(w) \/ RecExists(w) \/ RecHset(w)
    \/ UNCHANGED vars
  <2>1. UNCHANGED <<regPc, lock, active, recTodo, recCur, recPend>>
    BY <1>27 DEF Heartbeat, HeartbeatError, TermBegin, TermRead, Release,
          TermWrite, TermDbError, RelCancel, RelExists, RelHset, AfterHset,
          RelError, RecMeta, RecRead, RecExists, RecHset
  <2> QED BY <2>1
<1> QED BY <1>1, <1>2, <1>3, <1>4, <1>5, <1>6, <1>7, <1>8, <1>9, <1>10, <1>11,
        <1>12, <1>13, <1>14, <1>15, <1>16, <1>17, <1>18, <1>19, <1>20, <1>21,
        <1>22, <1>23, <1>24, <1>25, <1>26, <1>27
    DEF Next, CreateSteps, TermSteps, RecStepsOf

\* release_session undoes, in order, what register_session did.
LEMMA CleanStep ==
    ASSUME TypeInv, HomeInv, LockInv, CleanInv, [Next]_vars
    PROVE  CleanInv'
<1> USE DEF TypeInv, TypeOK, HomeInv, LockInv, CleanInv, NotReleased, Created,
        vars, workerVars, place, heart, storeVars, recVars
<1>1. ASSUME NEW w \in Workers, NEW s \in Sessions, CreateSession(w, s) PROVE CleanInv'
  BY <1>1, NoWorkerAssumption DEF CreateSession
<1>2. ASSUME NEW s \in Sessions, Connected(s) PROVE CleanInv'
  BY <1>2, NoWorkerAssumption DEF Connected, Advance
<1>3. ASSUME NEW s \in Sessions, ConnectError(s) PROVE CleanInv'
  BY <1>3, NoWorkerAssumption DEF ConnectError, Advance
<1>4. ASSUME NEW s \in Sessions, RegCreate(s) PROVE CleanInv'
  BY <1>4, NoWorkerAssumption DEF RegCreate, Advance
<1>5. ASSUME NEW s \in Sessions, RegAcquire(s) PROVE CleanInv'
  BY <1>5, NoWorkerAssumption DEF RegAcquire, Advance
<1>6. ASSUME NEW s \in Sessions, RegAddActive(s) PROVE CleanInv'
  BY <1>6, NoWorkerAssumption DEF RegAddActive, Advance
<1>7. ASSUME NEW s \in Sessions, RegStart(s) PROVE CleanInv'
  BY <1>7, NoWorkerAssumption DEF RegStart, Advance
<1>8. ASSUME NEW s \in Sessions, CommitCall(s) PROVE CleanInv'
  BY <1>8, NoWorkerAssumption DEF CommitCall, Advance
<1>9. ASSUME NEW s \in Sessions, RegError(s) PROVE CleanInv'
  BY <1>9, NoWorkerAssumption DEF RegError
<1>10. ASSUME NEW s \in Sessions, Elapse(s) PROVE CleanInv'
  BY <1>10, NoWorkerAssumption DEF Elapse
<1>11. ASSUME NEW s \in Sessions, Heartbeat(s) PROVE CleanInv'
  BY <1>11, NoWorkerAssumption DEF Heartbeat
<1>12. ASSUME NEW s \in Sessions, TermBegin(s) PROVE CleanInv'
  BY <1>12, NoWorkerAssumption DEF TermBegin
<1>13. ASSUME NEW s \in Sessions, TermRead(s) PROVE CleanInv'
  BY <1>13, NoWorkerAssumption DEF TermRead, Release
<1>14. ASSUME NEW s \in Sessions, TermWrite(s) PROVE CleanInv'
  BY <1>14, NoWorkerAssumption DEF TermWrite, Release
<1>15. ASSUME NEW s \in Sessions, TermDbError(s) PROVE CleanInv'
  BY <1>15, NoWorkerAssumption DEF TermDbError
<1>16. ASSUME NEW s \in Sessions, RelCancel(s) PROVE CleanInv'
  BY <1>16, NoWorkerAssumption DEF RelCancel, Release
<1>17. ASSUME NEW s \in Sessions, RelExists(s) PROVE CleanInv'
  BY <1>17, NoWorkerAssumption DEF RelExists, Release
<1>18. ASSUME NEW s \in Sessions, RelHset(s) PROVE CleanInv'
  BY <1>18, NoWorkerAssumption DEF RelHset, Release, AfterHset
<1>19. ASSUME NEW s \in Sessions, RelUnlock(s) PROVE CleanInv'
  BY <1>19, NoWorkerAssumption DEF RelUnlock, Release, FreeLock
<1>20. ASSUME NEW s \in Sessions, RelRemove(s) PROVE CleanInv'
  BY <1>20, NoWorkerAssumption DEF RelRemove, Release
<1>21. ASSUME NEW s \in Sessions, RelDelete(s) PROVE CleanInv'
  BY <1>21, NoWorkerAssumption DEF RelDelete, Release, FreeLock
<1>22. ASSUME NEW s \in Sessions, RelSrem(s) PROVE CleanInv'
  BY <1>22, NoWorkerAssumption DEF RelSrem, Release
<1>23. ASSUME NEW s \in Sessions, RelError(s) PROVE CleanInv'
  BY <1>23, NoWorkerAssumption DEF RelError
<1>24. ASSUME NEW w \in Workers, RecRemove(w) PROVE CleanInv'
  BY <1>24, NoWorkerAssumption DEF RecRemove
<1>25. ASSUME NEW w \in Workers, Crash(w) PROVE CleanInv'
  BY <1>25, NoWorkerAssumption DEF Crash, Vanish
<1>26. ASSUME NEW w \in Workers, Shutdown(w) PROVE CleanInv'
  BY <1>26, NoWorkerAssumption DEF Shutdown, Vanish
<1>27. CASE
    \/ \E w \in Workers, s \in Sessions : RecPick(w, s)
    \/ \E s \in Sessions :
        \/ HeartbeatError(s)
    \/ \E w \in Workers :
        \/ Startup(w) \/ RecMeta(w) \/ RecBadMeta(w) \/ RecStoreError(w)
        \/ RecRead(w) \/ RecFlush(w) \/ RecDbError(w) \/ RecDbAborted(w)
        \/ RecDeadlock(w) \/ RecExists(w) \/ RecHset(w) \/ RecCommit(w)
    \/ UNCHANGED vars
  <2>1. UNCHANGED <<home, regPc, relPc, early, hb, lock, active>>
    BY <1>27 DEF HeartbeatError, RecPick, Startup, RecMeta, RecBadMeta,
          Abandon, RecStoreError, RecRead, RecFlush, RecDbError, DbFails,
          RecDbAborted, RecDeadlock, RecExists, RecHset, AfterHset, RecCommit
  <2> QED BY <2>1
<1> QED BY <1>1, <1>2, <1>3, <1>4, <1>5, <1>6, <1>7, <1>8, <1>9, <1>10, <1>11,
        <1>12, <1>13, <1>14, <1>15, <1>16, <1>17, <1>18, <1>19, <1>20, <1>21,
        <1>22, <1>23, <1>24, <1>25, <1>26, <1>27
    DEF Next, CreateSteps, TermSteps, RecStepsOf

\* The initial state satisfies every part.
LEMMA InitInv == Init => IInv
BY LockTTLAssumption, MaxFaultsAssumption, NoWorkerAssumption,
   NoSessionAssumption
DEF Init, IInv, TypeInv, TypeOK, StepInv, HomeInv, LockInv, LeaseInv, FreeInv,
    CleanInv, WStates, RegPcs, RelPcs, MetaStates, CallStates, RecSteps,
    BeforeStart, NotReleased, Silence, PastAcquire, Condemned

\* Every step preserves every part.
LEMMA StepPreserves == IInv /\ [Next]_vars => IInv'
BY TypeStep, HomeStep, LockStep, LeaseStep, FreeStep, CleanStep DEF IInv

\* The inductive invariant holds in every reachable state.
THEOREM Invariance == Spec => []IInv
<1>1. Init => IInv
  BY InitInv
<1>2. IInv /\ [Next]_vars => IInv'
  BY StepPreserves
<1> QED BY <1>1, <1>2, PTL DEF Spec

\* The state of the store, the workers and the reconcilers keeps its types
\* along every interleaving.
THEOREM TypeCorrect == Spec => []TypeOK
<1>1. IInv => TypeOK
  BY DEF IInv, TypeInv
<1> QED BY <1>1, Invariance, PTL

\* _heartbeat_loop and renew_lock: a session that has missed fewer than
\* LockTTL - 1 renewals in a row is owned by the worker that runs it.
THEOREM LeaseIsHeld == Spec => []LeaseHeld
<1>1. IInv => LeaseHeld
  BY LockTTLAssumption
  DEF IInv, TypeInv, TypeOK, LeaseInv, LeaseHeld, Renewing, Silence
<1> QED BY <1>1, Invariance, PTL

\* startup_reconcile: the lock found free stays free until the commit.
THEOREM VerdictNotStale == Spec => []CondemnedStaysFree
<1>1. IInv => CondemnedStaysFree
  BY DEF IInv, FreeInv, CondemnedStaysFree
<1> QED BY <1>1, Invariance, PTL

\* startup_reconcile never fails the call of a session that is renewing.
THEOREM ReconcileSparesRenewing == Spec => []SparesRenewing
<1>1. IInv => SparesRenewing
  <2> SUFFICES ASSUME IInv, NEW w \in Workers, NEW s \in Condemned(w), Renewing(s)
               PROVE  FALSE
    BY DEF SparesRenewing
  <2>1. s \in Sessions /\ lock[s] = NoWorker
    BY NoSessionAssumption DEF IInv, TypeInv, TypeOK, FreeInv, Condemned
  <2>2. lock[s] = home[s]
    BY <2>1, LockTTLAssumption
    DEF IInv, TypeInv, TypeOK, LeaseInv, Renewing, Silence
  <2>3. home[s] \in Workers
    BY <2>1 DEF IInv, HomeInv, BeforeStart, Renewing
  <2> QED BY <2>1, <2>2, <2>3, NoWorkerAssumption
<1> QED BY <1>1, Invariance, PTL

\* release_session of a session that was fully created leaves no lock, no
\* heartbeat task and no entry in the active set.
THEOREM ReleaseIsClean == Spec => []CleanRelease
<1>1. IInv => CleanRelease
  BY DEF IInv, CleanInv, CleanRelease, NotReleased
<1> QED BY <1>1, Invariance, PTL
=============================================================================
