-------------------------- MODULE WarmTransferProofs --------------------------
(***************************************************************************)
(* For any number of requests, calls, managers and errors: transfers of    *)
(* one call exclude each other, nothing lands on the call while one runs,  *)
(* and a manager is shared only after a cooldown that hit him in use.      *)
(* HoldInv carries the row lock, UseInv the reservation; each has a lemma  *)
(* with one step per action that touches its variables.                    *)
(***************************************************************************)
EXTENDS WarmTransfer, TLAPS

TypeInv == TypeOK /\ CurInv

IInv == /\ TypeInv /\ HoldInv /\ UseInv /\ SharedOnlyIfPoached
        /\ EndInv /\ CommitInv

\* What a step does, for the requests it does not name as well.  A use of a
\* manager begins with the reservation that finds him available.
UseBegins ==
    \A g \in Flows, n \in Managers :
        Uses(g, n)' /\ ~Uses(g, n)
            => /\ avail[n] /\ ~avail'[n] /\ after'[n] = "none"
               /\ pc'[g] # pc[g]

OneRequestMoves ==
    \A g, h \in Flows : pc'[g] # pc[g] /\ pc'[h] # pc[h] => g = h

\* A manager in use stays reserved unless the step gives him a cooldown.
StaysReserved ==
    \A g \in Flows, n \in Managers :
        Uses(g, n) /\ ~avail[n] /\ after[n] = "none" /\ n \notin poached'
            => ~avail'[n] /\ after'[n] = "none"

NoneUndone ==
    \A c \in Calls : db[c] = "ended" /\ c \notin stranded
            => db'[c] # "connected"

RowUntouched ==
    \A h \in Flows : pc[h] \in Holding /\ pc'[h] \in Holding
            => db'[call[h]] = db[call[h]]

\* Types, and the manager a request tries.
LEMMA TypeStep ==
    ASSUME TypeInv, [Next]_vars
    PROVE  TypeInv'
<1> USE DEF TypeInv, TypeOK, CurInv, Statuses, Views, Active, Holding,
        Dialling, Over, vars, reqVars, callVars, mgrVars
<1>1. ASSUME NEW f \in Flows, NEW c \in Calls,
             NEW d \in Departments \cup {Managers}, Load(f, c, d)
      PROVE  TypeInv'
  BY <1>1, ManagersAssumption, DepartmentsAssumption, NoneAssumption,
     MaxAttemptsAssumption, MaxFaultsAssumption
  DEF Load, Goto
<1>2. ASSUME NEW f \in Flows, CheckCooldown(f) PROVE TypeInv'
  BY <1>2, ManagersAssumption, DepartmentsAssumption, NoneAssumption,
     MaxAttemptsAssumption, MaxFaultsAssumption
  DEF CheckCooldown, Goto, Fault
<1>3. ASSUME NEW f \in Flows, SetCooldown(f) PROVE TypeInv'
  BY <1>3, ManagersAssumption, DepartmentsAssumption, NoneAssumption,
     MaxAttemptsAssumption, MaxFaultsAssumption
  DEF SetCooldown, Goto, Fault
<1>4. ASSUME NEW f \in Flows, LockRow(f) PROVE TypeInv'
  BY <1>4, ManagersAssumption, DepartmentsAssumption, NoneAssumption,
     MaxAttemptsAssumption, MaxFaultsAssumption
  DEF LockRow, Goto
<1>5. ASSUME NEW f \in Flows, FindManagers(f) PROVE TypeInv'
  BY <1>5, ManagersAssumption, DepartmentsAssumption, NoneAssumption,
     MaxAttemptsAssumption, MaxFaultsAssumption
  DEF FindManagers, Goto, Raise, Unlock, Candidates, Available
<1>6. ASSUME NEW f \in Flows, NEW m \in Managers, NextManager(f, m)
      PROVE  TypeInv'
  <2>1. CASE CallIsTerminal(f)
    <3>1. TypeOK'
      <4>1. /\ pc' = [pc EXCEPT ![f] = "dropped"]
            /\ row' = [row EXCEPT ![call[f]] = NoFlow]
            /\ cur' = [cur EXCEPT ![f] = NoManager]
        BY <1>6, <2>1 DEF NextManager, Goto, Raise, Unlock
      <4>2. /\ pc' \in [Flows -> {"idle"} \cup Active \cup Over]
            /\ row' \in [Calls -> Flows \cup {NoFlow}]
            /\ cur' \in [Flows -> Managers \cup {NoManager}]
        BY <4>1
      <4>3. /\ todo' \in [Flows -> SUBSET Managers]
            /\ tries' \in [Flows -> 0..MaxAttempts]
        BY <1>6, MaxAttemptsAssumption DEF NextManager
      <4> QED BY <1>6, <4>2, <4>3 DEF NextManager
    <3>2. CurInv'
      BY <1>6, <2>1, <3>1 DEF NextManager, Goto, Raise, Unlock, First
    <3> QED BY <3>1, <3>2
  <2>2. CASE ~CallIsTerminal(f)
    <3>1. TypeOK'
      BY <1>6, <2>2, ManagersAssumption, MaxAttemptsAssumption,
         MaxFaultsAssumption DEF
            NextManager, Goto, Raise, Unlock, First
    <3>2. CurInv'
      BY <1>6, <2>2, <3>1 DEF NextManager, Goto, Raise, Unlock, First
    <3> QED BY <3>1, <3>2
  <2> QED BY <2>1, <2>2, <1>6 DEF NextManager, Goto, Raise, Unlock, First
<1>7. ASSUME NEW f \in Flows, Reserve(f) PROVE TypeInv'
  <2>1. CASE avail[cur[f]]
    <3>1. TypeOK'
      <4>1. pc' \in [Flows -> {"idle"} \cup Active \cup Over]
        BY <1>7, <2>1 DEF Reserve, Goto
      <4>2. /\ avail' = [avail EXCEPT ![cur[f]] = FALSE]
            /\ after' = [after EXCEPT ![cur[f]] = "none"]
        BY <1>7, <2>1 DEF Reserve
      <4>3. avail' \in [Managers -> BOOLEAN]
        BY <4>2
      <4>4. after' \in [Managers -> {"none", "waiting", "due"}]
        BY <4>2
      <4> QED BY <1>7, <4>1, <4>3, <4>4 DEF Reserve
    <3>2. CurInv'
      BY <1>7, <2>1, <3>1 DEF Reserve, Goto
    <3> QED BY <3>1, <3>2
  <2>2. CASE ~avail[cur[f]]
    <3>1. TypeOK'
      BY <1>7, <2>2, ManagersAssumption, MaxAttemptsAssumption,
         MaxFaultsAssumption DEF
            Reserve, Goto
    <3>2. CurInv'
      BY <1>7, <2>2, <3>1 DEF Reserve, Goto
    <3> QED BY <3>1, <3>2
  <2> QED BY <2>1, <2>2, <1>7 DEF Reserve, Goto
<1>8. ASSUME NEW f \in Flows, ReserveTimeout(f) PROVE TypeInv'
  BY <1>8, ManagersAssumption, DepartmentsAssumption, NoneAssumption,
     MaxAttemptsAssumption, MaxFaultsAssumption
  DEF ReserveTimeout, Goto
<1>9. ASSUME NEW f \in Flows, Originate(f) PROVE TypeInv'
  BY <1>9, ManagersAssumption, DepartmentsAssumption, NoneAssumption,
     MaxAttemptsAssumption, MaxFaultsAssumption
  DEF Originate, Goto, Leg
<1>10. ASSUME NEW f \in Flows, OriginateFails(f) PROVE TypeInv'
  BY <1>10, ManagersAssumption, DepartmentsAssumption, NoneAssumption,
     MaxAttemptsAssumption, MaxFaultsAssumption
  DEF OriginateFails, Goto, Leg
<1>11. ASSUME NEW f \in Flows, Answer(f) PROVE TypeInv'
  <2>1. CASE CallIsTerminal(f)
    <3>1. TypeOK'
      BY <1>11, <2>1, ManagersAssumption, MaxAttemptsAssumption,
         MaxFaultsAssumption DEF
            Answer, Goto, Raise, Unlock, HangUp, Leg, Fault
    <3>2. CurInv'
      BY <1>11, <2>1, <3>1 DEF Answer, Goto, Raise, Unlock, HangUp, Leg, Fault
    <3> QED BY <3>1, <3>2
  <2>2. CASE ~CallIsTerminal(f)
    <3>1. TypeOK'
      BY <1>11, <2>2, ManagersAssumption, MaxAttemptsAssumption,
         MaxFaultsAssumption DEF
            Answer, Goto, Raise, Unlock, HangUp, Leg, Fault
    <3>2. CurInv'
      BY <1>11, <2>2, <3>1 DEF Answer, Goto, Raise, Unlock, HangUp, Leg, Fault
    <3> QED BY <3>1, <3>2
  <2> QED BY <2>1, <2>2, <1>11 DEF Answer, Goto, Raise, Unlock, HangUp, Leg,
          Fault
<1>12. ASSUME NEW f \in Flows, NoAnswer(f) PROVE TypeInv'
  BY <1>12, ManagersAssumption, DepartmentsAssumption, NoneAssumption,
     MaxAttemptsAssumption, MaxFaultsAssumption
  DEF NoAnswer, Goto
<1>13. ASSUME NEW f \in Flows, AnswerTimeout(f) PROVE TypeInv'
  BY <1>13, ManagersAssumption, DepartmentsAssumption, NoneAssumption,
     MaxAttemptsAssumption, MaxFaultsAssumption
  DEF AnswerTimeout, Goto, HangUp, Leg, Fault
<1>14. ASSUME NEW f \in Flows, Mark(f) PROVE TypeInv'
  <2>1. /\ pc' = [pc EXCEPT ![f] = "next"]
        /\ cur' = [cur EXCEPT ![f] = NoManager]
        /\ UNCHANGED <<call, want, view, todo, tries, callVars, legs>>
        /\ cur[f] \in Managers
        /\ call[f] \in Calls
    BY <1>14 DEF Mark, Goto
  <2>2. /\ avail' \in {avail, [avail EXCEPT ![cur[f]] = FALSE]}
        /\ after' \in {after, [after EXCEPT ![cur[f]] = "waiting"]}
        /\ poached' \in {poached, poached \cup {cur[f]}}
        /\ faults' = faults \/ Fault
    BY <1>14 DEF Mark
  <2>3. faults' \in 0..MaxFaults
    BY <2>2, MaxFaultsAssumption DEF Fault
  <2>4. avail' \in [Managers -> BOOLEAN]
    BY <2>1, <2>2
  <2>5. after' \in [Managers -> {"none", "waiting", "due"}]
    BY <2>1, <2>2
  <2>6. TypeOK'
    BY <2>1, <2>2, <2>3, <2>4, <2>5
  <2>7. CurInv'
    BY <2>1
  <2> QED BY <2>6, <2>7
<1>15. ASSUME NEW f \in Flows, Whisper(f) PROVE TypeInv'
  BY <1>15, ManagersAssumption, DepartmentsAssumption, NoneAssumption,
     MaxAttemptsAssumption, MaxFaultsAssumption
  DEF Whisper, Goto, Raise, Unlock, HangUp, Leg, Fault
<1>16. ASSUME NEW f \in Flows, Bridge(f) PROVE TypeInv'
  BY <1>16, ManagersAssumption, DepartmentsAssumption, NoneAssumption,
     MaxAttemptsAssumption, MaxFaultsAssumption
  DEF Bridge, Goto
<1>17. ASSUME NEW f \in Flows, Fail(f) PROVE TypeInv'
  <2>1. /\ pc' = [pc EXCEPT ![f] = "failed"]
        /\ cur' = [cur EXCEPT ![f] = NoManager]
        /\ row' = [row EXCEPT ![call[f]] = NoFlow]
        /\ UNCHANGED <<call, want, view, todo, tries, db, stranded, fin, poll,
                       recent, avail, after, poached>>
        /\ call[f] \in Calls
    BY <1>17 DEF Fail, Raise, Goto, Unlock
  <2>2. /\ legs' \in {legs, legs \ {Leg(f)}}
        /\ customer' \in {customer, [customer EXCEPT ![call[f]] = FALSE]}
        /\ faults' = faults \/ Fault
    BY <1>17 DEF Fail, CloseLegs
  <2>3. faults' \in 0..MaxFaults
    BY <2>2, MaxFaultsAssumption DEF Fault
  <2>4. customer' \in [Calls -> BOOLEAN]
    BY <2>1, <2>2
  <2>5. TypeOK'
    BY <2>1, <2>2, <2>3, <2>4
  <2>6. CurInv'
    BY <2>1
  <2> QED BY <2>5, <2>6
<1>18. ASSUME NEW f \in Flows, Exhaust(f) PROVE TypeInv'
  <2>1. /\ pc' = [pc EXCEPT ![f] = "failed"]
        /\ cur' = [cur EXCEPT ![f] = NoManager]
        /\ row' = [row EXCEPT ![call[f]] = NoFlow]
        /\ UNCHANGED <<call, want, view, todo, tries, db, stranded, fin, poll,
                       recent, avail, after, poached>>
        /\ call[f] \in Calls
    BY <1>18 DEF Exhaust, Raise, Goto, Unlock
  <2>2. /\ legs' \in {legs, legs \ {Leg(f)}}
        /\ customer' \in {customer, [customer EXCEPT ![call[f]] = FALSE]}
        /\ faults' = faults \/ Fault
    BY <1>18 DEF Exhaust, CloseLegs
  <2>3. faults' \in 0..MaxFaults
    BY <2>2, MaxFaultsAssumption DEF Fault
  <2>4. customer' \in [Calls -> BOOLEAN]
    BY <2>1, <2>2
  <2>5. TypeOK'
    BY <2>1, <2>2, <2>3, <2>4
  <2>6. CurInv'
    BY <2>1
  <2> QED BY <2>5, <2>6
<1>19. ASSUME NEW f \in Flows, Commit(f) PROVE TypeInv'
  BY <1>19, ManagersAssumption, DepartmentsAssumption, NoneAssumption,
     MaxAttemptsAssumption, MaxFaultsAssumption
  DEF Commit, Goto, Unlock
<1>20. ASSUME NEW f \in Flows, Crash(f) PROVE TypeInv'
  <2>1. TypeOK'
    BY <1>20, MaxFaultsAssumption DEF Crash, Goto, Fault
  <2>2. CurInv'
    BY <1>20, <2>1 DEF Crash, Goto, Fault
  <2> QED BY <2>1, <2>2
<1>21. ASSUME NEW m \in Managers, CooldownPasses(m) PROVE TypeInv'
  BY <1>21, ManagersAssumption, DepartmentsAssumption, NoneAssumption,
     MaxAttemptsAssumption, MaxFaultsAssumption
  DEF CooldownPasses
<1>22. ASSUME RestoreDue PROVE TypeInv'
  BY <1>22, ManagersAssumption, DepartmentsAssumption, NoneAssumption,
     MaxAttemptsAssumption, MaxFaultsAssumption
  DEF RestoreDue
<1>23. ASSUME NEW m \in Managers, RestoreIfDue(m) PROVE TypeInv'
  BY <1>23, ManagersAssumption, DepartmentsAssumption, NoneAssumption,
     MaxAttemptsAssumption, MaxFaultsAssumption
  DEF RestoreIfDue
<1>24. ASSUME NEW f \in Flows, NEW m \in Managers, ManagerLegEnds(f, m)
      PROVE  TypeInv'
  BY <1>24, ManagersAssumption, DepartmentsAssumption, NoneAssumption,
     MaxAttemptsAssumption, MaxFaultsAssumption
  DEF ManagerLegEnds
<1>25. ASSUME NEW c \in Calls, CooldownKeyExpires(c) PROVE TypeInv'
  BY <1>25, ManagersAssumption, DepartmentsAssumption, NoneAssumption,
     MaxAttemptsAssumption, MaxFaultsAssumption
  DEF CooldownKeyExpires
<1>26. ASSUME NEW c \in Calls, CustomerGone(c) PROVE TypeInv'
  BY <1>26, ManagersAssumption, DepartmentsAssumption, NoneAssumption,
     MaxAttemptsAssumption, MaxFaultsAssumption
  DEF CustomerGone
<1>27. ASSUME NEW c \in Calls, SessionEndsUnheard(c) PROVE TypeInv'
  BY <1>27, MaxFaultsAssumption DEF SessionEndsUnheard, Fault
<1>28. ASSUME NEW c \in Calls, FinRead(c) PROVE TypeInv'
  BY <1>28, ManagersAssumption, DepartmentsAssumption, NoneAssumption,
     MaxAttemptsAssumption, MaxFaultsAssumption
  DEF FinRead
<1>29. ASSUME NEW c \in Calls, FinWrite(c) PROVE TypeInv'
  BY <1>29, ManagersAssumption, DepartmentsAssumption, NoneAssumption,
     MaxAttemptsAssumption, MaxFaultsAssumption
  DEF FinWrite
<1>30. ASSUME NEW c \in Calls, PollRead(c) PROVE TypeInv'
  BY <1>30, ManagersAssumption, DepartmentsAssumption, NoneAssumption,
     MaxAttemptsAssumption, MaxFaultsAssumption
  DEF PollRead, LiveStatus
<1>31. ASSUME NEW c \in Calls, PollWrite(c) PROVE TypeInv'
  BY <1>31, ManagersAssumption, DepartmentsAssumption, NoneAssumption,
     MaxAttemptsAssumption, MaxFaultsAssumption
  DEF PollWrite
<1>32. CASE UNCHANGED vars BY <1>32
<1> QED BY <1>1, <1>2, <1>3, <1>4, <1>5, <1>6, <1>7, <1>8, <1>9, <1>10, <1>11,
        <1>12, <1>13, <1>14, <1>15, <1>16, <1>17, <1>18, <1>19, <1>20, <1>21,
        <1>22, <1>23, <1>24, <1>25, <1>26, <1>27, <1>28, <1>29, <1>30, <1>31,
        <1>32
    DEF Next, Environment, Step, Arrival

\* A row is locked by the one request past the guard.
LEMMA HoldStep ==
    ASSUME TypeInv, HoldInv, [Next]_vars
    PROVE  HoldInv'
<1> USE DEF TypeInv, TypeOK, CurInv, HoldInv, Active, Holding, Over, vars,
        reqVars, callVars, mgrVars
<1>1. ASSUME NEW f \in Flows, NEW c \in Calls,
             NEW d \in Departments \cup {Managers}, Load(f, c, d)
      PROVE  HoldInv'
  BY <1>1, NoneAssumption
  DEF Load, Goto
<1>2. ASSUME NEW f \in Flows, CheckCooldown(f) PROVE HoldInv'
  BY <1>2, NoneAssumption
  DEF CheckCooldown, Goto, Fault
<1>3. ASSUME NEW f \in Flows, SetCooldown(f) PROVE HoldInv'
  BY <1>3, NoneAssumption
  DEF SetCooldown, Goto, Fault
<1>4. ASSUME NEW f \in Flows, LockRow(f) PROVE HoldInv'
  BY <1>4, NoneAssumption
  DEF LockRow, Goto
<1>5. ASSUME NEW f \in Flows, FindManagers(f) PROVE HoldInv'
  BY <1>5, NoneAssumption
  DEF FindManagers, Goto, Raise, Unlock, Candidates, Available
<1>6. ASSUME NEW f \in Flows, NEW m \in Managers, NextManager(f, m)
      PROVE  HoldInv'
  BY <1>6, NoneAssumption
  DEF NextManager, Goto, Raise, Unlock, First
<1>7. ASSUME NEW f \in Flows, Reserve(f) PROVE HoldInv'
  BY <1>7, NoneAssumption
  DEF Reserve, Goto
<1>8. ASSUME NEW f \in Flows, ReserveTimeout(f) PROVE HoldInv'
  BY <1>8, NoneAssumption
  DEF ReserveTimeout, Goto
<1>9. ASSUME NEW f \in Flows, Originate(f) PROVE HoldInv'
  BY <1>9, NoneAssumption
  DEF Originate, Goto, Leg
<1>10. ASSUME NEW f \in Flows, OriginateFails(f) PROVE HoldInv'
  BY <1>10, NoneAssumption
  DEF OriginateFails, Goto, Leg
<1>11. ASSUME NEW f \in Flows, Answer(f) PROVE HoldInv'
  BY <1>11, NoneAssumption
  DEF Answer, Goto, Raise, Unlock, HangUp, Leg, Fault
<1>12. ASSUME NEW f \in Flows, NoAnswer(f) PROVE HoldInv'
  BY <1>12, NoneAssumption
  DEF NoAnswer, Goto
<1>13. ASSUME NEW f \in Flows, AnswerTimeout(f) PROVE HoldInv'
  BY <1>13, NoneAssumption
  DEF AnswerTimeout, Goto, HangUp, Leg, Fault
<1>14. ASSUME NEW f \in Flows, Mark(f) PROVE HoldInv'
  BY <1>14, NoneAssumption
  DEF Mark, Goto, Fault
<1>15. ASSUME NEW f \in Flows, Whisper(f) PROVE HoldInv'
  BY <1>15, NoneAssumption
  DEF Whisper, Goto, Raise, Unlock, HangUp, Leg, Fault
<1>16. ASSUME NEW f \in Flows, Bridge(f) PROVE HoldInv'
  BY <1>16, NoneAssumption
  DEF Bridge, Goto
<1>17. ASSUME NEW f \in Flows, Fail(f) PROVE HoldInv'
  BY <1>17, NoneAssumption
  DEF Fail, Goto, Raise, Unlock, CloseLegs, Leg, Fault
<1>18. ASSUME NEW f \in Flows, Exhaust(f) PROVE HoldInv'
  BY <1>18, NoneAssumption
  DEF Exhaust, Goto, Raise, Unlock, CloseLegs, Leg, Fault
<1>19. ASSUME NEW f \in Flows, Commit(f) PROVE HoldInv'
  BY <1>19, NoneAssumption
  DEF Commit, Goto, Unlock
<1>20. ASSUME NEW f \in Flows, Crash(f) PROVE HoldInv'
  BY <1>20, NoneAssumption
  DEF Crash, Goto, Fault
<1>21. CASE
    \/ \E f \in Flows, m \in Managers :
        \/ ManagerLegEnds(f, m)
    \/ \E m \in Managers :
        \/ CooldownPasses(m) \/ RestoreIfDue(m)
    \/ \E c \in Calls :
        \/ CooldownKeyExpires(c) \/ CustomerGone(c)
        \/ SessionEndsUnheard(c) \/ FinRead(c)
        \/ FinWrite(c) \/ PollRead(c) \/ PollWrite(c)
    \/ RestoreDue
    \/ UNCHANGED vars
  <2>1. UNCHANGED <<pc, call, row>>
    BY <1>21 DEF CooldownPasses, RestoreDue, RestoreIfDue, ManagerLegEnds,
          CooldownKeyExpires, CustomerGone, SessionEndsUnheard, Fault, FinRead,
          FinWrite, PollRead, LiveStatus, PollWrite
  <2> QED BY <2>1
<1> QED BY <1>1, <1>2, <1>3, <1>4, <1>5, <1>6, <1>7, <1>8, <1>9, <1>10, <1>11,
        <1>12, <1>13, <1>14, <1>15, <1>16, <1>17, <1>18, <1>19, <1>20, <1>21
    DEF Next, Environment, Step, Arrival

\* No other step begins a use.
LEMMA NewUse ==
    ASSUME TypeInv, [Next]_vars
    PROVE  UseBegins
<1> USE DEF UseBegins, TypeInv, TypeOK, CurInv, Uses, Dialling, vars, reqVars,
        callVars, mgrVars
<1>1. ASSUME NEW f \in Flows, NEW c \in Calls,
             NEW d \in Departments \cup {Managers}, Load(f, c, d)
      PROVE  UseBegins
  BY <1>1, ManagersAssumption
  DEF Load, Goto
<1>2. ASSUME NEW f \in Flows, CheckCooldown(f) PROVE UseBegins
  BY <1>2, ManagersAssumption
  DEF CheckCooldown, Goto, Fault
<1>3. ASSUME NEW f \in Flows, SetCooldown(f) PROVE UseBegins
  BY <1>3, ManagersAssumption
  DEF SetCooldown, Goto, Fault
<1>4. ASSUME NEW f \in Flows, LockRow(f) PROVE UseBegins
  BY <1>4, ManagersAssumption
  DEF LockRow, Goto
<1>5. ASSUME NEW f \in Flows, FindManagers(f) PROVE UseBegins
  BY <1>5, ManagersAssumption
  DEF FindManagers, Goto, Raise, Unlock, Candidates, Available
<1>6. ASSUME NEW f \in Flows, NEW m \in Managers, NextManager(f, m)
      PROVE  UseBegins
  BY <1>6, ManagersAssumption
  DEF NextManager, Goto, Raise, Unlock, First
<1>7. ASSUME NEW f \in Flows, Reserve(f) PROVE UseBegins
  BY <1>7, ManagersAssumption
  DEF Reserve, Goto
<1>8. ASSUME NEW f \in Flows, ReserveTimeout(f) PROVE UseBegins
  BY <1>8, ManagersAssumption
  DEF ReserveTimeout, Goto
<1>9. ASSUME NEW f \in Flows, Originate(f) PROVE UseBegins
  BY <1>9, ManagersAssumption
  DEF Originate, Goto, Leg
<1>10. ASSUME NEW f \in Flows, OriginateFails(f) PROVE UseBegins
  BY <1>10, ManagersAssumption
  DEF OriginateFails, Goto, Leg
<1>11. ASSUME NEW f \in Flows, Answer(f) PROVE UseBegins
  BY <1>11, ManagersAssumption
  DEF Answer, Goto, Raise, Unlock, HangUp, Leg, Fault
<1>12. ASSUME NEW f \in Flows, NoAnswer(f) PROVE UseBegins
  BY <1>12, ManagersAssumption
  DEF NoAnswer, Goto
<1>13. ASSUME NEW f \in Flows, AnswerTimeout(f) PROVE UseBegins
  BY <1>13, ManagersAssumption
  DEF AnswerTimeout, Goto, HangUp, Leg, Fault
<1>14. ASSUME NEW f \in Flows, Mark(f) PROVE UseBegins
  BY <1>14, ManagersAssumption
  DEF Mark, Goto, Fault
<1>15. ASSUME NEW f \in Flows, Whisper(f) PROVE UseBegins
  BY <1>15, ManagersAssumption
  DEF Whisper, Goto, Raise, Unlock, HangUp, Leg, Fault
<1>16. ASSUME NEW f \in Flows, Bridge(f) PROVE UseBegins
  BY <1>16, ManagersAssumption
  DEF Bridge, Goto
<1>17. ASSUME NEW f \in Flows, Fail(f) PROVE UseBegins
  BY <1>17, ManagersAssumption
  DEF Fail, Goto, Raise, Unlock, CloseLegs, Leg, Fault
<1>18. ASSUME NEW f \in Flows, Exhaust(f) PROVE UseBegins
  BY <1>18, ManagersAssumption
  DEF Exhaust, Goto, Raise, Unlock, CloseLegs, Leg, Fault
<1>19. ASSUME NEW f \in Flows, Commit(f) PROVE UseBegins
  BY <1>19, ManagersAssumption
  DEF Commit, Goto, Unlock
<1>20. ASSUME NEW f \in Flows, Crash(f) PROVE UseBegins
  BY <1>20, ManagersAssumption
  DEF Crash, Goto, Fault
<1>21. ASSUME NEW f \in Flows, NEW m \in Managers, ManagerLegEnds(f, m)
      PROVE  UseBegins
  BY <1>21, ManagersAssumption
  DEF ManagerLegEnds
<1>22. CASE
    \/ \E m \in Managers :
        \/ CooldownPasses(m) \/ RestoreIfDue(m)
    \/ \E c \in Calls :
        \/ CooldownKeyExpires(c) \/ CustomerGone(c)
        \/ SessionEndsUnheard(c) \/ FinRead(c)
        \/ FinWrite(c) \/ PollRead(c) \/ PollWrite(c)
    \/ RestoreDue
    \/ UNCHANGED vars
  <2>1. UNCHANGED <<pc, cur, legs>>
    BY <1>22 DEF CooldownPasses, RestoreDue, RestoreIfDue, CooldownKeyExpires,
          CustomerGone, SessionEndsUnheard, Fault, FinRead, FinWrite, PollRead,
          LiveStatus, PollWrite
  <2> QED BY <2>1
<1> QED BY <1>1, <1>2, <1>3, <1>4, <1>5, <1>6, <1>7, <1>8, <1>9, <1>10, <1>11,
        <1>12, <1>13, <1>14, <1>15, <1>16, <1>17, <1>18, <1>19, <1>20, <1>21,
        <1>22
    DEF Next, Environment, Step, Arrival

\* One request moves at a time.
LEMMA OneMoves ==
    ASSUME TypeInv, [Next]_vars
    PROVE  OneRequestMoves
<1> USE DEF OneRequestMoves, TypeInv, TypeOK, vars, reqVars, callVars, mgrVars
<1>1. ASSUME NEW f \in Flows, NEW c \in Calls,
             NEW d \in Departments \cup {Managers}, Load(f, c, d)
      PROVE  OneRequestMoves
  BY <1>1
  DEF Load, Goto
<1>2. ASSUME NEW f \in Flows, CheckCooldown(f) PROVE OneRequestMoves
  BY <1>2
  DEF CheckCooldown, Goto, Fault
<1>3. ASSUME NEW f \in Flows, SetCooldown(f) PROVE OneRequestMoves
  BY <1>3
  DEF SetCooldown, Goto, Fault
<1>4. ASSUME NEW f \in Flows, LockRow(f) PROVE OneRequestMoves
  BY <1>4
  DEF LockRow, Goto
<1>5. ASSUME NEW f \in Flows, FindManagers(f) PROVE OneRequestMoves
  BY <1>5
  DEF FindManagers, Goto, Raise, Unlock, Candidates, Available
<1>6. ASSUME NEW f \in Flows, NEW m \in Managers, NextManager(f, m)
      PROVE  OneRequestMoves
  BY <1>6
  DEF NextManager, Goto, Raise, Unlock, First
<1>7. ASSUME NEW f \in Flows, Reserve(f) PROVE OneRequestMoves
  BY <1>7
  DEF Reserve, Goto
<1>8. ASSUME NEW f \in Flows, ReserveTimeout(f) PROVE OneRequestMoves
  BY <1>8
  DEF ReserveTimeout, Goto
<1>9. ASSUME NEW f \in Flows, Originate(f) PROVE OneRequestMoves
  BY <1>9
  DEF Originate, Goto, Leg
<1>10. ASSUME NEW f \in Flows, OriginateFails(f) PROVE OneRequestMoves
  BY <1>10
  DEF OriginateFails, Goto, Leg
<1>11. ASSUME NEW f \in Flows, Answer(f) PROVE OneRequestMoves
  BY <1>11
  DEF Answer, Goto, Raise, Unlock, HangUp, Leg, Fault
<1>12. ASSUME NEW f \in Flows, NoAnswer(f) PROVE OneRequestMoves
  BY <1>12
  DEF NoAnswer, Goto
<1>13. ASSUME NEW f \in Flows, AnswerTimeout(f) PROVE OneRequestMoves
  BY <1>13
  DEF AnswerTimeout, Goto, HangUp, Leg, Fault
<1>14. ASSUME NEW f \in Flows, Mark(f) PROVE OneRequestMoves
  BY <1>14
  DEF Mark, Goto, Fault
<1>15. ASSUME NEW f \in Flows, Whisper(f) PROVE OneRequestMoves
  BY <1>15
  DEF Whisper, Goto, Raise, Unlock, HangUp, Leg, Fault
<1>16. ASSUME NEW f \in Flows, Bridge(f) PROVE OneRequestMoves
  BY <1>16
  DEF Bridge, Goto
<1>17. ASSUME NEW f \in Flows, Fail(f) PROVE OneRequestMoves
  BY <1>17
  DEF Fail, Goto, Raise, Unlock, CloseLegs, Leg, Fault
<1>18. ASSUME NEW f \in Flows, Exhaust(f) PROVE OneRequestMoves
  BY <1>18
  DEF Exhaust, Goto, Raise, Unlock, CloseLegs, Leg, Fault
<1>19. ASSUME NEW f \in Flows, Commit(f) PROVE OneRequestMoves
  BY <1>19
  DEF Commit, Goto, Unlock
<1>20. ASSUME NEW f \in Flows, Crash(f) PROVE OneRequestMoves
  BY <1>20
  DEF Crash, Goto, Fault
<1>21. CASE
    \/ \E f \in Flows, m \in Managers :
        \/ ManagerLegEnds(f, m)
    \/ \E m \in Managers :
        \/ CooldownPasses(m) \/ RestoreIfDue(m)
    \/ \E c \in Calls :
        \/ CooldownKeyExpires(c) \/ CustomerGone(c)
        \/ SessionEndsUnheard(c) \/ FinRead(c)
        \/ FinWrite(c) \/ PollRead(c) \/ PollWrite(c)
    \/ RestoreDue
    \/ UNCHANGED vars
  <2>1. UNCHANGED <<pc>>
    BY <1>21 DEF CooldownPasses, RestoreDue, RestoreIfDue, ManagerLegEnds,
          CooldownKeyExpires, CustomerGone, SessionEndsUnheard, Fault, FinRead,
          FinWrite, PollRead, LiveStatus, PollWrite
  <2> QED BY <2>1
<1> QED BY <1>1, <1>2, <1>3, <1>4, <1>5, <1>6, <1>7, <1>8, <1>9, <1>10, <1>11,
        <1>12, <1>13, <1>14, <1>15, <1>16, <1>17, <1>18, <1>19, <1>20, <1>21
    DEF Next, Environment, Step, Arrival

\* Only a cooldown that hits a manager in use opens the way to a restore.
LEMMA KeptFree ==
    ASSUME TypeInv, [Next]_vars
    PROVE  StaysReserved
<1> USE DEF StaysReserved, TypeInv, TypeOK, CurInv, Uses, Dialling, vars,
        reqVars, callVars, mgrVars
<1>1. ASSUME NEW f \in Flows, Reserve(f) PROVE StaysReserved
  BY <1>1, ManagersAssumption
  DEF Reserve, Goto
<1>2. ASSUME NEW f \in Flows, Mark(f) PROVE StaysReserved
  <2>1. CASE avail' = avail /\ after' = after
    BY <2>1
  <2>2. CASE /\ avail' = [avail EXCEPT ![cur[f]] = FALSE]
             /\ after' = [after EXCEPT ![cur[f]] = "waiting"]
             /\ poached' = IF \E g \in Flows : Uses(g, cur[f])
                           THEN poached \cup {cur[f]} ELSE poached
    <3> SUFFICES ASSUME NEW g \in Flows, NEW n \in Managers, Uses(g, n),
                        ~avail[n], after[n] = "none", n \notin poached'
                 PROVE  ~avail'[n] /\ after'[n] = "none"
      BY DEF StaysReserved
    <3>1. n # cur[f]
      BY <2>2
    <3>2. avail'[n] = avail[n] /\ after'[n] = after[n]
      BY <2>2, <3>1
    <3> QED BY <3>2
  <2> QED BY <1>2, <2>1, <2>2 DEF Mark
<1>3. ASSUME NEW m \in Managers, CooldownPasses(m) PROVE StaysReserved
  BY <1>3, ManagersAssumption
  DEF CooldownPasses
<1>4. ASSUME RestoreDue PROVE StaysReserved
  BY <1>4, ManagersAssumption
  DEF RestoreDue
<1>5. ASSUME NEW m \in Managers, RestoreIfDue(m) PROVE StaysReserved
  BY <1>5, ManagersAssumption
  DEF RestoreIfDue
<1>6. CASE
    \/ \E f \in Flows, c \in Calls, d \in Departments \cup {Managers} :
        \/ Load(f, c, d)
    \/ \E f \in Flows :
        \/ CheckCooldown(f) \/ SetCooldown(f) \/ LockRow(f) \/ FindManagers(f)
        \/ ReserveTimeout(f) \/ Originate(f) \/ OriginateFails(f) \/ Answer(f)
        \/ NoAnswer(f) \/ AnswerTimeout(f) \/ Whisper(f) \/ Bridge(f)
        \/ Fail(f) \/ Exhaust(f) \/ Commit(f) \/ Crash(f)
    \/ \E f \in Flows, m \in Managers :
        \/ NextManager(f, m) \/ ManagerLegEnds(f, m)
    \/ \E c \in Calls :
        \/ CooldownKeyExpires(c) \/ CustomerGone(c)
        \/ SessionEndsUnheard(c) \/ FinRead(c)
        \/ FinWrite(c) \/ PollRead(c) \/ PollWrite(c)
    \/ UNCHANGED vars
  <2>1. UNCHANGED <<avail, after, poached>>
    BY <1>6 DEF Load, Goto, CheckCooldown, Fault, SetCooldown, LockRow,
          FindManagers, Raise, Unlock, Candidates, Available, NextManager,
          First, ReserveTimeout, Originate, Leg, OriginateFails, Answer,
          HangUp, NoAnswer, AnswerTimeout, Whisper, Bridge, Fail, CloseLegs,
          Exhaust, Commit, Crash, ManagerLegEnds, CooldownKeyExpires,
          CustomerGone, SessionEndsUnheard, FinRead, FinWrite, PollRead,
          LiveStatus, PollWrite
  <2> QED BY <2>1
<1> QED BY <1>1, <1>2, <1>3, <1>4, <1>5, <1>6
    DEF Next, Environment, Step, Arrival

\* The history only grows.
LEMMA PoachedGrows ==
    ASSUME TypeInv, [Next]_vars
    PROVE  poached \subseteq poached'
<1> USE DEF TypeInv, TypeOK, vars, reqVars, callVars, mgrVars
<1>1. ASSUME NEW f \in Flows, Mark(f) PROVE poached \subseteq poached'
  BY <1>1
  DEF Mark, Goto, Fault
<1>2. CASE
    \/ \E f \in Flows, c \in Calls, d \in Departments \cup {Managers} :
        \/ Load(f, c, d)
    \/ \E f \in Flows :
        \/ CheckCooldown(f) \/ SetCooldown(f) \/ LockRow(f) \/ FindManagers(f)
        \/ Reserve(f) \/ ReserveTimeout(f) \/ Originate(f)
        \/ OriginateFails(f) \/ Answer(f) \/ NoAnswer(f) \/ AnswerTimeout(f)
        \/ Whisper(f) \/ Bridge(f) \/ Fail(f) \/ Exhaust(f) \/ Commit(f)
        \/ Crash(f)
    \/ \E f \in Flows, m \in Managers :
        \/ NextManager(f, m) \/ ManagerLegEnds(f, m)
    \/ \E m \in Managers :
        \/ CooldownPasses(m) \/ RestoreIfDue(m)
    \/ \E c \in Calls :
        \/ CooldownKeyExpires(c) \/ CustomerGone(c)
        \/ SessionEndsUnheard(c) \/ FinRead(c)
        \/ FinWrite(c) \/ PollRead(c) \/ PollWrite(c)
    \/ RestoreDue
    \/ UNCHANGED vars
  <2>1. UNCHANGED <<poached>>
    BY <1>2 DEF Load, Goto, CheckCooldown, Fault, SetCooldown, LockRow,
          FindManagers, Raise, Unlock, Candidates, Available, NextManager,
          First, Reserve, ReserveTimeout, Originate, Leg, OriginateFails,
          Answer, HangUp, NoAnswer, AnswerTimeout, Whisper, Bridge, Fail,
          CloseLegs, Exhaust, Commit, Crash, CooldownPasses, RestoreDue,
          RestoreIfDue, ManagerLegEnds, CooldownKeyExpires, CustomerGone,
          SessionEndsUnheard, FinRead, FinWrite, PollRead, LiveStatus,
          PollWrite
  <2> QED BY <2>1
<1> QED BY <1>1, <1>2
    DEF Next, Environment, Step, Arrival

\* A manager in use stays unavailable unless a cooldown hits him.
LEMMA UseStep ==
    ASSUME TypeInv, UseInv, [Next]_vars
    PROVE  UseInv'
<1> SUFFICES ASSUME NEW f \in Flows, NEW m \in Managers,
                    Uses(f, m)', m \notin poached'
             PROVE  ~avail'[m] /\ after'[m] = "none"
  BY DEF UseInv
<1>1. CASE Uses(f, m)
  BY <1>1, KeptFree, PoachedGrows DEF UseInv, StaysReserved
<1>2. CASE ~Uses(f, m)
  BY <1>2, NewUse DEF UseBegins
<1> QED BY <1>1, <1>2

\* A second request gets a manager only when he is available.
LEMMA ShareStep ==
    ASSUME TypeInv, UseInv, SharedOnlyIfPoached, [Next]_vars
    PROVE  SharedOnlyIfPoached'
<1> SUFFICES ASSUME NEW f \in Flows, NEW g \in Flows, NEW m \in Managers,
                    Uses(f, m)', Uses(g, m)', f # g
             PROVE  m \in poached'
  BY DEF SharedOnlyIfPoached
<1>1. CASE Uses(f, m) /\ Uses(g, m)
  BY <1>1, PoachedGrows DEF SharedOnlyIfPoached
<1>2. CASE Uses(f, m) /\ ~Uses(g, m)
  BY <1>2, NewUse, PoachedGrows DEF UseInv, UseBegins
<1>3. CASE ~Uses(f, m) /\ Uses(g, m)
  BY <1>3, NewUse, PoachedGrows DEF UseInv, UseBegins
<1>4. CASE ~Uses(f, m) /\ ~Uses(g, m)
  BY <1>4, NewUse, OneMoves DEF UseBegins, OneRequestMoves
<1> QED BY <1>1, <1>2, <1>3, <1>4

\* A call ends after its customer's leg, which does not come back, or after a
\* session that could not hang it up.
LEMMA EndStep ==
    ASSUME TypeInv, EndInv, [Next]_vars
    PROVE  EndInv'
<1> USE DEF TypeInv, TypeOK, CurInv, Active, Holding, EndInv, SessionOver,
        vars, reqVars, callVars, mgrVars
<1>1. ASSUME NEW f \in Flows, Fail(f) PROVE EndInv'
  BY <1>1
  DEF Fail, Goto, Raise, Unlock, CloseLegs, Leg, Fault
<1>2. ASSUME NEW f \in Flows, Exhaust(f) PROVE EndInv'
  BY <1>2
  DEF Exhaust, Goto, Raise, Unlock, CloseLegs, Leg, Fault
<1>3. ASSUME NEW f \in Flows, Commit(f) PROVE EndInv'
  BY <1>3
  DEF Commit, Goto, Unlock
<1>4. ASSUME NEW c \in Calls, CustomerGone(c) PROVE EndInv'
  BY <1>4
  DEF CustomerGone
<1>5. ASSUME NEW c \in Calls, FinRead(c) PROVE EndInv'
  BY <1>5
  DEF FinRead
<1>6. ASSUME NEW c \in Calls, FinWrite(c) PROVE EndInv'
  BY <1>6
  DEF FinWrite
<1>7. ASSUME NEW c \in Calls, PollRead(c) PROVE EndInv'
  BY <1>7
  DEF PollRead, LiveStatus
<1>8. ASSUME NEW c \in Calls, PollWrite(c) PROVE EndInv'
  BY <1>8
  DEF PollWrite
<1>9. ASSUME NEW c \in Calls, SessionEndsUnheard(c) PROVE EndInv'
  BY <1>9
  DEF SessionEndsUnheard, Fault
<1>10. CASE
    \/ \E f \in Flows, c \in Calls, d \in Departments \cup {Managers} :
        \/ Load(f, c, d)
    \/ \E f \in Flows :
        \/ CheckCooldown(f) \/ SetCooldown(f) \/ LockRow(f) \/ FindManagers(f)
        \/ Reserve(f) \/ ReserveTimeout(f) \/ Originate(f)
        \/ OriginateFails(f) \/ Answer(f) \/ NoAnswer(f) \/ AnswerTimeout(f)
        \/ Mark(f) \/ Whisper(f) \/ Bridge(f) \/ Crash(f)
    \/ \E f \in Flows, m \in Managers :
        \/ NextManager(f, m) \/ ManagerLegEnds(f, m)
    \/ \E m \in Managers :
        \/ CooldownPasses(m) \/ RestoreIfDue(m)
    \/ \E c \in Calls :
        \/ CooldownKeyExpires(c)
    \/ RestoreDue
    \/ UNCHANGED vars
  <2>1. UNCHANGED <<db, fin, poll, customer, stranded>>
    BY <1>10 DEF Load, Goto, CheckCooldown, Fault, SetCooldown, LockRow,
          FindManagers, Raise, Unlock, Candidates, Available, NextManager,
          First, Reserve, ReserveTimeout, Originate, Leg, OriginateFails,
          Answer, HangUp, NoAnswer, AnswerTimeout, Mark, Whisper, Bridge,
          Crash, CooldownPasses, RestoreDue, RestoreIfDue, ManagerLegEnds,
          CooldownKeyExpires
  <2> QED BY <2>1
<1> QED BY <1>1, <1>2, <1>3, <1>4, <1>5, <1>6, <1>7, <1>8, <1>9, <1>10
    DEF Next, Environment, Step, Arrival

\* The bridge found the customer's leg up, and the row lock keeps the status.
LEMMA CommitStep ==
    ASSUME TypeInv, HoldInv, EndInv, CommitInv, [Next]_vars
    PROVE  CommitInv'
<1> USE DEF TypeInv, TypeOK, CurInv, HoldInv, EndInv, CommitInv, SessionOver,
        Active, Holding, vars, reqVars, callVars, mgrVars
<1>1. ASSUME NEW f \in Flows, NEW c \in Calls,
             NEW d \in Departments \cup {Managers}, Load(f, c, d)
      PROVE  CommitInv'
  BY <1>1, NoneAssumption
  DEF Load, Goto
<1>2. ASSUME NEW f \in Flows, CheckCooldown(f) PROVE CommitInv'
  BY <1>2, NoneAssumption
  DEF CheckCooldown, Goto, Fault
<1>3. ASSUME NEW f \in Flows, SetCooldown(f) PROVE CommitInv'
  BY <1>3, NoneAssumption
  DEF SetCooldown, Goto, Fault
<1>4. ASSUME NEW f \in Flows, LockRow(f) PROVE CommitInv'
  BY <1>4, NoneAssumption
  DEF LockRow, Goto
<1>5. ASSUME NEW f \in Flows, FindManagers(f) PROVE CommitInv'
  BY <1>5, NoneAssumption
  DEF FindManagers, Goto, Raise, Unlock, Candidates, Available
<1>6. ASSUME NEW f \in Flows, NEW m \in Managers, NextManager(f, m)
      PROVE  CommitInv'
  BY <1>6, NoneAssumption
  DEF NextManager, Goto, Raise, Unlock, First
<1>7. ASSUME NEW f \in Flows, Reserve(f) PROVE CommitInv'
  BY <1>7, NoneAssumption
  DEF Reserve, Goto
<1>8. ASSUME NEW f \in Flows, ReserveTimeout(f) PROVE CommitInv'
  BY <1>8, NoneAssumption
  DEF ReserveTimeout, Goto
<1>9. ASSUME NEW f \in Flows, Originate(f) PROVE CommitInv'
  BY <1>9, NoneAssumption
  DEF Originate, Goto, Leg
<1>10. ASSUME NEW f \in Flows, OriginateFails(f) PROVE CommitInv'
  BY <1>10, NoneAssumption
  DEF OriginateFails, Goto, Leg
<1>11. ASSUME NEW f \in Flows, Answer(f) PROVE CommitInv'
  BY <1>11, NoneAssumption
  DEF Answer, Goto, Raise, Unlock, HangUp, Leg, Fault
<1>12. ASSUME NEW f \in Flows, NoAnswer(f) PROVE CommitInv'
  BY <1>12, NoneAssumption
  DEF NoAnswer, Goto
<1>13. ASSUME NEW f \in Flows, AnswerTimeout(f) PROVE CommitInv'
  BY <1>13, NoneAssumption
  DEF AnswerTimeout, Goto, HangUp, Leg, Fault
<1>14. ASSUME NEW f \in Flows, Mark(f) PROVE CommitInv'
  BY <1>14, NoneAssumption
  DEF Mark, Goto, Fault
<1>15. ASSUME NEW f \in Flows, Whisper(f) PROVE CommitInv'
  BY <1>15, NoneAssumption
  DEF Whisper, Goto, Raise, Unlock, HangUp, Leg, Fault
<1>16. ASSUME NEW f \in Flows, Bridge(f) PROVE CommitInv'
  BY <1>16, NoneAssumption
  DEF Bridge, Goto
<1>17. ASSUME NEW f \in Flows, Fail(f) PROVE CommitInv'
  BY <1>17, NoneAssumption
  DEF Fail, Goto, Raise, Unlock, CloseLegs, Leg, Fault
<1>18. ASSUME NEW f \in Flows, Exhaust(f) PROVE CommitInv'
  BY <1>18, NoneAssumption
  DEF Exhaust, Goto, Raise, Unlock, CloseLegs, Leg, Fault
<1>19. ASSUME NEW f \in Flows, Commit(f) PROVE CommitInv'
  BY <1>19, NoneAssumption
  DEF Commit, Goto, Unlock
<1>20. ASSUME NEW f \in Flows, Crash(f) PROVE CommitInv'
  BY <1>20, NoneAssumption
  DEF Crash, Goto, Fault
<1>21. ASSUME NEW c \in Calls, FinWrite(c) PROVE CommitInv'
  BY <1>21, NoneAssumption
  DEF FinWrite
<1>22. ASSUME NEW c \in Calls, PollWrite(c) PROVE CommitInv'
  BY <1>22, NoneAssumption
  DEF PollWrite
<1>23. CASE
    \/ \E f \in Flows, m \in Managers :
        \/ ManagerLegEnds(f, m)
    \/ \E m \in Managers :
        \/ CooldownPasses(m) \/ RestoreIfDue(m)
    \/ \E c \in Calls :
        \/ CooldownKeyExpires(c) \/ CustomerGone(c)
        \/ SessionEndsUnheard(c) \/ FinRead(c)
        \/ PollRead(c)
    \/ RestoreDue
    \/ UNCHANGED vars
  <2>1. UNCHANGED <<pc, call, db>> /\ stranded \subseteq stranded'
    BY <1>23 DEF CooldownPasses, RestoreDue, RestoreIfDue, ManagerLegEnds,
          CooldownKeyExpires, CustomerGone, SessionEndsUnheard, Fault, FinRead,
          PollRead, LiveStatus
  <2> QED BY <2>1
<1> QED BY <1>1, <1>2, <1>3, <1>4, <1>5, <1>6, <1>7, <1>8, <1>9, <1>10, <1>11,
        <1>12, <1>13, <1>14, <1>15, <1>16, <1>17, <1>18, <1>19, <1>20, <1>21,
        <1>22, <1>23
    DEF Next, Environment, Step, Arrival

\* Only a request with a confirmed bridge shows a call as connected, and its
\* call has not ended or is stranded.
LEMMA ConnectStep ==
    ASSUME TypeInv, CommitInv, [Next]_vars
    PROVE  NoneUndone
<1> USE DEF NoneUndone, TypeInv, TypeOK, CommitInv, vars, reqVars, callVars,
        mgrVars
<1>1. ASSUME NEW f \in Flows, Commit(f) PROVE NoneUndone
  BY <1>1
  DEF Commit, Goto, Unlock
<1>2. ASSUME NEW c \in Calls, FinWrite(c) PROVE NoneUndone
  BY <1>2
  DEF FinWrite
<1>3. ASSUME NEW c \in Calls, PollWrite(c) PROVE NoneUndone
  BY <1>3
  DEF PollWrite
<1>4. CASE
    \/ \E f \in Flows, c \in Calls, d \in Departments \cup {Managers} :
        \/ Load(f, c, d)
    \/ \E f \in Flows :
        \/ CheckCooldown(f) \/ SetCooldown(f) \/ LockRow(f) \/ FindManagers(f)
        \/ Reserve(f) \/ ReserveTimeout(f) \/ Originate(f)
        \/ OriginateFails(f) \/ Answer(f) \/ NoAnswer(f) \/ AnswerTimeout(f)
        \/ Mark(f) \/ Whisper(f) \/ Bridge(f) \/ Fail(f) \/ Exhaust(f)
        \/ Crash(f)
    \/ \E f \in Flows, m \in Managers :
        \/ NextManager(f, m) \/ ManagerLegEnds(f, m)
    \/ \E m \in Managers :
        \/ CooldownPasses(m) \/ RestoreIfDue(m)
    \/ \E c \in Calls :
        \/ CooldownKeyExpires(c) \/ CustomerGone(c)
        \/ SessionEndsUnheard(c) \/ FinRead(c)
        \/ PollRead(c)
    \/ RestoreDue
    \/ UNCHANGED vars
  <2>1. UNCHANGED <<db>>
    BY <1>4 DEF Load, Goto, CheckCooldown, Fault, SetCooldown, LockRow,
          FindManagers, Raise, Unlock, Candidates, Available, NextManager,
          First, Reserve, ReserveTimeout, Originate, Leg, OriginateFails,
          Answer, HangUp, NoAnswer, AnswerTimeout, Mark, Whisper, Bridge, Fail,
          CloseLegs, Exhaust, Crash, CooldownPasses, RestoreDue, RestoreIfDue,
          ManagerLegEnds, CooldownKeyExpires, CustomerGone, SessionEndsUnheard,
          FinRead, PollRead, LiveStatus
  <2> QED BY <2>1
<1> QED BY <1>1, <1>2, <1>3, <1>4
    DEF Next, Environment, Step, Arrival

\* A step that changes the status of a call finds its row free, or ends the
\* request that holds it.
LEMMA RowStep ==
    ASSUME TypeInv, HoldInv, [Next]_vars
    PROVE  RowUntouched
<1> USE DEF RowUntouched, TypeInv, TypeOK, CurInv, HoldInv, Active, Holding,
        Over, vars, reqVars, callVars, mgrVars
<1>1. ASSUME NEW f \in Flows, Commit(f) PROVE RowUntouched
  BY <1>1, NoneAssumption
  DEF Commit, Goto, Unlock
<1>2. ASSUME NEW c \in Calls, FinWrite(c) PROVE RowUntouched
  BY <1>2, NoneAssumption
  DEF FinWrite
<1>3. ASSUME NEW c \in Calls, PollWrite(c) PROVE RowUntouched
  BY <1>3, NoneAssumption
  DEF PollWrite
<1>4. CASE
    \/ \E f \in Flows, c \in Calls, d \in Departments \cup {Managers} :
        \/ Load(f, c, d)
    \/ \E f \in Flows :
        \/ CheckCooldown(f) \/ SetCooldown(f) \/ LockRow(f) \/ FindManagers(f)
        \/ Reserve(f) \/ ReserveTimeout(f) \/ Originate(f)
        \/ OriginateFails(f) \/ Answer(f) \/ NoAnswer(f) \/ AnswerTimeout(f)
        \/ Mark(f) \/ Whisper(f) \/ Bridge(f) \/ Fail(f) \/ Exhaust(f)
        \/ Crash(f)
    \/ \E f \in Flows, m \in Managers :
        \/ NextManager(f, m) \/ ManagerLegEnds(f, m)
    \/ \E m \in Managers :
        \/ CooldownPasses(m) \/ RestoreIfDue(m)
    \/ \E c \in Calls :
        \/ CooldownKeyExpires(c) \/ CustomerGone(c)
        \/ SessionEndsUnheard(c) \/ FinRead(c)
        \/ PollRead(c)
    \/ RestoreDue
    \/ UNCHANGED vars
  <2>1. UNCHANGED <<db>>
    BY <1>4 DEF Load, Goto, CheckCooldown, Fault, SetCooldown, LockRow,
          FindManagers, Raise, Unlock, Candidates, Available, NextManager,
          First, Reserve, ReserveTimeout, Originate, Leg, OriginateFails,
          Answer, HangUp, NoAnswer, AnswerTimeout, Mark, Whisper, Bridge, Fail,
          CloseLegs, Exhaust, Crash, CooldownPasses, RestoreDue, RestoreIfDue,
          ManagerLegEnds, CooldownKeyExpires, CustomerGone, SessionEndsUnheard,
          FinRead, PollRead, LiveStatus
  <2> QED BY <2>1
<1> QED BY <1>1, <1>2, <1>3, <1>4
    DEF Next, Environment, Step, Arrival

\* The inductive invariant holds in every reachable state.
THEOREM Invariance == Spec => []IInv
<1>1. Init => IInv
  BY MaxFaultsAssumption, MaxAttemptsAssumption, NoneAssumption,
     ManagersAssumption
  DEF Init, IInv, TypeInv, TypeOK, CurInv, HoldInv, UseInv,
      SharedOnlyIfPoached, EndInv, CommitInv, SessionOver, Uses,
      Statuses, Views, Active, Holding, Dialling
<1>2. IInv /\ [Next]_vars => IInv'
  BY TypeStep, HoldStep, UseStep, ShareStep, EndStep, CommitStep DEF IInv
<1> QED BY <1>1, <1>2, PTL DEF Spec

\* Every variable keeps its type.
THEOREM TypeCorrect == Spec => []TypeOK
<1>1. IInv => TypeOK BY DEF IInv, TypeInv
<1> QED BY Invariance, <1>1, PTL

\* Two requests never transfer one call at the same time: both would hold its
\* row lock.
THEOREM TransfersExclude == Spec => []NoConcurrentTransfer
<1>1. IInv => NoConcurrentTransfer
  BY DEF IInv, HoldInv, NoConcurrentTransfer
<1> QED BY Invariance, <1>1, PTL

\* A manager is with two requests only if a cooldown hit him while in use.
THEOREM ReservationHolds == Spec => []SharedOnlyIfPoached
<1>1. IInv => SharedOnlyIfPoached BY DEF IInv
<1> QED BY Invariance, <1>1, PTL

\* No status write becomes visible between the lock and the end of a transfer.
THEOREM TransferIsPrivate == Spec => NothingLandsDuringTransfer
<1>1. IInv /\ [Next]_vars
         => [\A f \in Flows : pc[f] \in Holding /\ pc'[f] \in Holding
                => db'[call[f]] = db[call[f]]]_vars
  BY RowStep DEF IInv, RowUntouched
<1> QED BY Invariance, <1>1, PTL DEF Spec, NothingLandsDuringTransfer

\* A call that has ended is shown as connected to a manager only if its session
\* could not hang the customer's leg up.
THEOREM EndedStaysEnded == Spec => EndedNeverConnected
<1>1. IInv /\ [Next]_vars
         => [\A c \in Calls : db[c] = "ended" /\ c \notin stranded
                => db'[c] # "connected"]_vars
  BY ConnectStep DEF IInv, NoneUndone
<1> QED BY Invariance, <1>1, PTL DEF Spec, EndedNeverConnected
=============================================================================
