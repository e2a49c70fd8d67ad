----------------------------- MODULE WarmTransfer -----------------------------
(***************************************************************************)
(* The warm transfer of a call to a human manager.                         *)
(*                                                                         *)
(* POST /calls/{id}/transfer loads the call, asks the rate limiter, locks  *)
(* the call row, and dials managers in priority order until one answers    *)
(* (TransferService over MangoTransferEngine).  The whole request is one   *)
(* database transaction: what it writes to the call and to the transfer    *)
(* record is visible when it commits, and is rolled back when it raises.   *)
(* Manager rows are written in transactions of their own, one statement    *)
(* each, and survive the request.                                          *)
(*                                                                         *)
(* Beside the requests run the finalizer of the voice session (it ends the *)
(* call when the customer hangs up), readers of the call that write the    *)
(* live status back (CallService.get_call), and the loop that restores     *)
(* managers whose cooldown has passed.                                     *)
(*                                                                         *)
(* One action is one await together with the code up to the next one.      *)
(***************************************************************************)
EXTENDS Integers, FiniteSets

CONSTANTS
    Flows,        \* transfer requests, one each
    Calls,        \* calls in progress
    Managers,     \* managers, numbered in priority order (1 is first)
    Departments,  \* the sets of managers a request may ask for
    NoFlow,       \* nobody: a free row
    NoCall,       \* the call of a request that has not arrived
    NoManager,    \* no manager is being tried
    MaxAttempts,  \* transfer_max_manager_attempts
    PoolSize,     \* database connections of the process
    MaxFaults     \* how many errors may happen

ASSUME ManagersAssumption == Managers \subseteq Nat /\ NoManager \notin Managers
ASSUME DepartmentsAssumption == Departments \subseteq SUBSET Managers
ASSUME NoneAssumption == NoFlow \notin Flows /\ NoCall \notin Calls
ASSUME MaxAttemptsAssumption == MaxAttempts \in Nat \ {0}
ASSUME PoolSizeAssumption == PoolSize \in Nat \ {0}
ASSUME MaxFaultsAssumption == MaxFaults \in Nat

VARIABLES
    pc,        \* flow -> where the request stands
    call,      \* flow -> the call it transfers
    want,      \* flow -> the managers of the department it asks for
    view,      \* flow -> the call's status in the request's own session
    todo,      \* flow -> candidates not tried yet
    tries,     \* flow -> managers tried
    cur,       \* flow -> the manager being tried
    row,       \* database: call -> the flow that holds its row lock
    db,        \* database: call -> committed status
    customer,  \* call -> is the customer's leg up, as the leg store has it
    stranded,  \* calls whose session ended and whose hang-up command failed
    fin,       \* call -> where finalize_call stands
    poll,      \* call -> the status a reader is about to write back
    recent,    \* Redis: calls with a transfer cooldown key
    avail,     \* database: manager -> is_available
    after,     \* database: manager -> available_after
    legs,      \* <<flow, manager>>: legs to managers that are up
    poached,   \* history: managers given a cooldown while in use
    faults     \* errors so far

reqVars  == <<pc, call, want, view, todo, tries, cur>>
callVars == <<row, db, customer, stranded, fin, poll, recent>>
mgrVars  == <<avail, after, legs, poached>>
vars     == <<reqVars, callVars, mgrVars, faults>>

\* Statuses the database shows: the transfer statuses in between are written
\* and never committed.
Statuses == {"in_progress", "connected", "ended"}

Views == Statuses \cup {"none", "transferring", "briefing"}

\* The request holds the row lock of its call.
Holding == {"locked", "next", "reserve", "originate", "ringing", "marking",
            "briefing", "bridging", "commit"}

\* The request has a database connection: from its first query to its end.
Active == Holding \cup {"loaded", "checked", "ready"}

\* The manager in cur is reserved for this request, or being talked to.
Dialling == {"originate", "ringing", "briefing", "bridging", "commit"}

Over == {"connected", "rejected", "dropped", "failed", "crashed"}

TypeOK ==
    /\ pc \in [Flows -> {"idle"} \cup Active \cup Over]
    /\ call \in [Flows -> Calls \cup {NoCall}]
    /\ want \in [Flows -> SUBSET Managers]
    /\ view \in [Flows -> Views]
    /\ todo \in [Flows -> SUBSET Managers]
    /\ tries \in [Flows -> 0..MaxAttempts]
    /\ cur \in [Flows -> Managers \cup {NoManager}]
    /\ row \in [Calls -> Flows \cup {NoFlow}]
    /\ db \in [Calls -> Statuses]
    /\ customer \in [Calls -> BOOLEAN]
    /\ stranded \in SUBSET Calls
    /\ fin \in [Calls -> {"idle", "write", "done", "lost"}]
    /\ poll \in [Calls -> {"none", "in_progress", "ended"}]
    /\ recent \in SUBSET Calls
    /\ avail \in [Managers -> BOOLEAN]
    /\ after \in [Managers -> {"none", "waiting", "due"}]
    /\ legs \in SUBSET (Flows \X Managers)
    /\ poached \in SUBSET Managers
    /\ faults \in 0..MaxFaults

Init ==
    /\ pc = [f \in Flows |-> "idle"]
    /\ call = [f \in Flows |-> NoCall]
    /\ want = [f \in Flows |-> {}]
    /\ view = [f \in Flows |-> "none"]
    /\ todo = [f \in Flows |-> {}]
    /\ tries = [f \in Flows |-> 0]
    /\ cur = [f \in Flows |-> NoManager]
    /\ row = [c \in Calls |-> NoFlow]
    /\ db = [c \in Calls |-> "in_progress"]
    /\ customer = [c \in Calls |-> TRUE]
    /\ stranded = {}
    /\ fin = [c \in Calls |-> "idle"]
    /\ poll = [c \in Calls |-> "none"]
    /\ recent = {}
    /\ avail = [m \in Managers |-> TRUE]
    /\ after = [m \in Managers |-> "none"]
    /\ legs = {}
    /\ poached = {}
    /\ faults = 0

-----------------------------------------------------------------------------
(* What the code leans on: the connection pool, the row lock, the legs     *)

\* Connections in use: one per request under way, one per finalizer and per
\* reader that waits to write.
InUse == Cardinality({f \in Flows : pc[f] \in Active})
       + Cardinality({c \in Calls : fin[c] = "write"})
       + Cardinality({c \in Calls : poll[c] # "none"})

Connection == InUse < PoolSize

Fault == faults < MaxFaults /\ faults' = faults + 1

Goto(f, where) == pc' = [pc EXCEPT ![f] = where]

Unlock(f) == row' = [row EXCEPT ![call[f]] = NoFlow]

\* The request raises: get_db rolls its transaction back.
Raise(f, how) ==
    /\ Goto(f, how)
    /\ Unlock(f)
    /\ cur' = [cur EXCEPT ![f] = NoManager]

Leg(f) == <<f, cur[f]>>

\* A manager somebody is dialling or talking to.
Uses(f, m) == \/ pc[f] \in Dialling /\ cur[f] = m
              \/ <<f, m>> \in legs

-----------------------------------------------------------------------------
(* The endpoint and the rate limiter                                       *)

\* call_repo.get in the endpoint: the row becomes an object of the session.
Load(f, c, d) ==
    /\ pc[f] = "idle"
    /\ Connection
    /\ Goto(f, "loaded")
    /\ call' = [call EXCEPT ![f] = c]
    /\ want' = [want EXCEPT ![f] = d]
    /\ view' = [view EXCEPT ![f] = db[c]]
    /\ UNCHANGED <<todo, tries, cur, callVars, mgrVars, faults>>

\* EXISTS of the cooldown key; a Redis error lets the request pass.
CheckCooldown(f) ==
    /\ pc[f] = "loaded"
    /\ \/ /\ Goto(f, IF call[f] \in recent THEN "rejected" ELSE "checked")
          /\ UNCHANGED faults
       \/ /\ Fault
          /\ Goto(f, "checked")
    /\ UNCHANGED <<call, want, view, todo, tries, cur, callVars, mgrVars>>

\* SETEX of the cooldown key; a Redis error lets the request pass.
SetCooldown(f) ==
    /\ pc[f] = "checked"
    /\ Goto(f, "ready")
    /\ \/ /\ recent' = recent \cup {call[f]}
          /\ UNCHANGED faults
       \/ /\ Fault
          /\ UNCHANGED recent
    /\ UNCHANGED <<call, want, view, todo, tries, cur, row, db, customer,
                   stranded, fin, poll, mgrVars>>

\* The key lives for a minute; a transfer may take twice as long.
CooldownKeyExpires(c) ==
    /\ c \in recent
    /\ recent' = recent \ {c}
    /\ UNCHANGED <<reqVars, row, db, customer, stranded, fin, poll, mgrVars,
                   faults>>

-----------------------------------------------------------------------------
(* TransferService.initiate_transfer, up to the loop over the managers     *)

\* SELECT ... FOR UPDATE waits for the row, and returns the object the session
\* already has: the guard reads the status Load saw, not the row's.
LockRow(f) ==
    /\ pc[f] = "ready"
    /\ row[call[f]] = NoFlow
    /\ IF view[f] = "in_progress"
       THEN /\ Goto(f, "locked")
            /\ row' = [row EXCEPT ![call[f]] = f]
       ELSE /\ Goto(f, "rejected")
            /\ UNCHANGED row
    /\ UNCHANGED <<call, want, view, todo, tries, cur, db, customer, stranded,
                   fin, poll, recent, mgrVars, faults>>

Available == {m \in Managers : avail[m]}

\* The managers of the department, or all of them when it has none to offer.
Candidates(f) ==
    IF want[f] \cap Available # {} THEN want[f] \cap Available ELSE Available

\* mutant: the transaction is committed once the call is TRANSFERRING
FindManagersCommits(f) ==
    /\ pc[f] = "locked"
    /\ Available # {}
    /\ Goto(f, "next")
    /\ todo' = [todo EXCEPT ![f] = Candidates(f)]
    /\ view' = [view EXCEPT ![f] = "transferring"]
    /\ Unlock(f)
    /\ UNCHANGED <<call, want, tries, cur, db, customer, stranded, fin, poll,
                   recent, mgrVars, faults>>

\* _find_managers, then the transfer record and the status TRANSFERRING; with
\* no manager at all NoManagerAvailableError is raised before either.
FindManagers(f) ==
    /\ pc[f] = "locked"
    /\ IF Available = {}
       THEN /\ Raise(f, "rejected")
            /\ UNCHANGED <<todo, view>>
       ELSE /\ Goto(f, "next")
            /\ todo' = [todo EXCEPT ![f] = Candidates(f)]
            /\ view' = [view EXCEPT ![f] = "transferring"]
            /\ UNCHANGED <<row, cur>>
    /\ UNCHANGED <<call, want, tries, db, customer, stranded, fin, poll,
                   recent, mgrVars, faults>>

\* _call_is_terminal selects the row through the request's own session, which
\* answers with the request's own object: its last write, since it holds the
\* row lock.
CallIsTerminal(f) == view[f] = "ended"

First(S, m) == m \in S /\ \A n \in S : m <= n

\* The head of the loop: the next manager in priority order, at most
\* MaxAttempts of them.
NextManager(f, m) ==
    /\ pc[f] = "next"
    /\ First(todo[f], m)
    /\ tries[f] < MaxAttempts
    /\ IF CallIsTerminal(f)
       THEN Raise(f, "dropped")
       ELSE /\ Goto(f, "reserve")
            /\ cur' = [cur EXCEPT ![f] = m]
            /\ UNCHANGED row
    /\ todo' = [todo EXCEPT ![f] = @ \ {m}]
    /\ tries' = [tries EXCEPT ![f] = @ + 1]
    /\ UNCHANGED <<call, want, view, db, customer, stranded, fin, poll, recent,
                   mgrVars, faults>>

-----------------------------------------------------------------------------
(* MangoTransferEngine.initiate_manager_call                               *)

\* try_reserve_available: one UPDATE ... WHERE is_available, committed at once
\* on a connection of its own.
Reserve(f) ==
    /\ pc[f] = "reserve"
    /\ Connection
    /\ IF avail[cur[f]]
       THEN /\ Goto(f, "originate")
            /\ avail' = [avail EXCEPT ![cur[f]] = FALSE]
            /\ after' = [after EXCEPT ![cur[f]] = "none"]
       ELSE /\ Goto(f, "marking")
            /\ UNCHANGED <<avail, after>>
    /\ UNCHANGED <<call, want, view, todo, tries, cur, callVars, legs, poached,
                   faults>>

\* mutant: the wait for a connection is not covered by the answer timeout
ReserveWaits(f) == FALSE /\ UNCHANGED vars

\* No connection is free: the pool's timeout, or the answer timeout around the
\* dial, ends the wait.
ReserveTimeout(f) ==
    /\ pc[f] = "reserve"
    /\ ~Connection
    /\ Goto(f, "marking")
    /\ UNCHANGED <<call, want, view, todo, tries, cur, callVars, mgrVars,
                   faults>>

\* originate_call: the leg rings.
Originate(f) ==
    /\ pc[f] = "originate"
    /\ Goto(f, "ringing")
    /\ legs' = legs \cup {Leg(f)}
    /\ UNCHANGED <<call, want, view, todo, tries, cur, callVars, avail, after,
                   poached, faults>>

\* originate_call raises, or the answer timeout cancels it: the provider may
\* have placed the call all the same, and nobody has its leg id.
OriginateFails(f) ==
    /\ pc[f] = "originate"
    /\ Goto(f, "marking")
    /\ legs' \in {legs, legs \cup {Leg(f)}}
    /\ UNCHANGED <<call, want, view, todo, tries, cur, callVars, avail, after,
                   poached, faults>>

\* terminate_leg; its errors are swallowed.
HangUp(f) ==
    \/ /\ legs' = legs \ {Leg(f)}
       /\ UNCHANGED faults
    \/ /\ Fault
       /\ UNCHANGED legs

\* The manager answers; the service checks on the caller and starts the
\* briefing.
Answer(f) ==
    /\ pc[f] = "ringing"
    /\ Leg(f) \in legs
    /\ IF CallIsTerminal(f)
       THEN /\ HangUp(f)
            /\ Raise(f, "dropped")
            /\ UNCHANGED view
       ELSE /\ Goto(f, "briefing")
            /\ view' = [view EXCEPT ![f] = "briefing"]
            /\ UNCHANGED <<row, cur, legs, faults>>
    /\ UNCHANGED <<call, want, todo, tries, db, customer, stranded, fin, poll,
                   recent, avail, after, poached>>

\* wait_for_answered raises: the leg ended without an answer.
NoAnswer(f) ==
    /\ pc[f] = "ringing"
    /\ Leg(f) \notin legs
    /\ Goto(f, "marking")
    /\ UNCHANGED <<call, want, view, todo, tries, cur, callVars, mgrVars,
                   faults>>

\* The answer timeout cancels the wait: the leg is hung up.
AnswerTimeout(f) ==
    /\ pc[f] = "ringing"
    /\ HangUp(f)
    /\ Goto(f, "marking")
    /\ UNCHANGED <<call, want, view, todo, tries, cur, callVars, avail, after,
                   poached>>

\* _safe_mark_unavailable: is_available false and a deadline, in a transaction
\* of its own, then the next manager.  An error, or no connection, leaves the
\* row as it is.
Mark(f) ==
    /\ pc[f] = "marking"
    /\ Goto(f, "next")
    /\ cur' = [cur EXCEPT ![f] = NoManager]
    /\ \/ /\ Connection
          /\ avail' = [avail EXCEPT ![cur[f]] = FALSE]
          /\ after' = [after EXCEPT ![cur[f]] = "waiting"]
          /\ poached' = IF \E g \in Flows : Uses(g, cur[f])
                        THEN poached \cup {cur[f]} ELSE poached
          /\ UNCHANGED faults
       \/ /\ ~Connection
          /\ UNCHANGED <<avail, after, poached, faults>>
       \/ /\ Fault
          /\ UNCHANGED <<avail, after, poached>>
    /\ UNCHANGED <<call, want, view, todo, tries, callVars, legs>>

-----------------------------------------------------------------------------
(* Briefing, bridge, and the ends of a request                             *)

\* play_whisper needs the manager's leg; then the caller is checked on.
Whisper(f) ==
    /\ pc[f] = "briefing"
    /\ Leg(f) \in legs
    /\ IF CallIsTerminal(f)
       THEN HangUp(f) /\ Raise(f, "dropped")
       ELSE Goto(f, "bridging") /\ UNCHANGED <<row, cur, legs, faults>>
    /\ UNCHANGED <<call, want, view, todo, tries, db, customer, stranded, fin,
                   poll, recent, avail, after, poached>>

\* mutant: the state of the customer's leg is not looked at
BridgeBlind(f) ==
    /\ pc[f] = "bridging"
    /\ Leg(f) \in legs
    /\ Goto(f, "commit")
    /\ UNCHANGED <<call, want, view, todo, tries, cur, callVars, mgrVars,
                   faults>>

\* bridge_legs needs both legs, and waits for the confirmation.
Bridge(f) ==
    /\ pc[f] = "bridging"
    /\ Leg(f) \in legs
    /\ customer[call[f]]
    /\ Goto(f, "commit")
    /\ UNCHANGED <<call, want, view, todo, tries, cur, callVars, mgrVars,
                   faults>>

\* The legs are hung up; each error is swallowed and leaves its leg as it is.
CloseLegs(f) ==
    \/ /\ legs' = legs \ {Leg(f)}
       /\ customer' = [customer EXCEPT ![call[f]] = FALSE]
       /\ UNCHANGED faults
    \/ /\ Fault
       /\ legs' \in {legs, legs \ {Leg(f)}}
       /\ customer' \in {customer, [customer EXCEPT ![call[f]] = FALSE]}

\* Whisper or bridge fail or time out: both legs are hung up, the call is set
\* to STOPPED and the record to its failure; the error that follows rolls both
\* writes back.
Fail(f) ==
    /\ pc[f] \in {"briefing", "bridging"}
    /\ CloseLegs(f)
    /\ Raise(f, "failed")
    /\ UNCHANGED <<call, want, view, todo, tries, db, stranded, fin, poll,
                   recent, avail, after, poached>>

\* mutant: the error leaves the transaction open
ExhaustStaysOpen(f) ==
    /\ pc[f] = "next"
    /\ todo[f] = {} \/ tries[f] = MaxAttempts
    /\ CloseLegs(f)
    /\ Goto(f, "failed")
    /\ UNCHANGED <<call, want, view, todo, tries, cur, row, db, stranded, fin,
                   poll, recent, avail, after, poached>>

\* Every attempt failed: as Fail, with no manager leg.
Exhaust(f) ==
    /\ pc[f] = "next"
    /\ todo[f] = {} \/ tries[f] = MaxAttempts
    /\ CloseLegs(f)
    /\ Raise(f, "failed")
    /\ UNCHANGED <<call, want, view, todo, tries, db, stranded, fin, poll,
                   recent, avail, after, poached>>

\* The request returns: CONNECTED and CONNECTED_TO_MANAGER are committed.
Commit(f) ==
    /\ pc[f] = "commit"
    /\ Goto(f, "connected")
    /\ Unlock(f)
    /\ db' = [db EXCEPT ![call[f]] = "connected"]
    /\ UNCHANGED <<call, want, view, todo, tries, cur, customer, stranded, fin,
                   poll, recent, mgrVars, faults>>

\* The process dies: the transaction is rolled back, the legs stay.
Crash(f) ==
    /\ pc[f] \in Active
    /\ Fault
    /\ Goto(f, "crashed")
    /\ row' = IF pc[f] \in Holding THEN [row EXCEPT ![call[f]] = NoFlow] ELSE row
    /\ cur' = [cur EXCEPT ![f] = NoManager]
    /\ UNCHANGED <<call, want, view, todo, tries, db, customer, stranded, fin,
                   poll, recent, mgrVars>>

-----------------------------------------------------------------------------
(* Manager cooldown                                                        *)

\* The deadline in available_after passes.
CooldownPasses(m) ==
    /\ after[m] = "waiting"
    /\ after' = [after EXCEPT ![m] = "due"]
    /\ UNCHANGED <<reqVars, callVars, avail, legs, poached, faults>>

\* restore_due_managers of the periodic loop: one UPDATE over all due rows.
RestoreDue ==
    /\ \E m \in Managers : after[m] = "due"
    /\ avail' = [m \in Managers |-> after[m] = "due" \/ avail[m]]
    /\ after' = [m \in Managers |-> IF after[m] = "due" THEN "none" ELSE after[m]]
    /\ UNCHANGED <<reqVars, callVars, legs, poached, faults>>

\* restore_manager_if_due of the timer that a mark leaves in its process.
RestoreIfDue(m) ==
    /\ after[m] = "due"
    /\ avail' = [avail EXCEPT ![m] = TRUE]
    /\ after' = [after EXCEPT ![m] = "none"]
    /\ UNCHANGED <<reqVars, callVars, legs, poached, faults>>

\* A manager's leg ends, at any time.
ManagerLegEnds(f, m) ==
    /\ <<f, m>> \in legs
    /\ legs' = legs \ {<<f, m>>}
    /\ UNCHANGED <<reqVars, callVars, avail, after, poached, faults>>

-----------------------------------------------------------------------------
(* The other writers of the call                                           *)

\* The customer hangs up, or the session is stopped: the leg is gone.
CustomerGone(c) ==
    /\ customer[c]
    /\ customer' = [customer EXCEPT ![c] = FALSE]
    /\ UNCHANGED <<reqVars, row, db, stranded, fin, poll, recent, mgrVars,
                   faults>>

\* terminate_session hangs the leg up over REST, and the command fails: the
\* error is logged, the leg and its state in the store stay as they are, and
\* the session goes on to finalize_call.
SessionEndsUnheard(c) ==
    /\ customer[c]
    /\ c \notin stranded
    /\ fin[c] = "idle"
    /\ Fault
    /\ stranded' = stranded \cup {c}
    /\ UNCHANGED <<reqVars, row, db, customer, fin, poll, recent, mgrVars>>

\* The session has ended: its leg is gone, or could not be hung up.
SessionOver(c) == ~customer[c] \/ c \in stranded

\* finalize_call reads the call without a lock; it is over if that is terminal,
\* and if it gets no connection its error is logged and that is all.
FinRead(c) ==
    /\ SessionOver(c)
    /\ fin[c] = "idle"
    /\ fin' = [fin EXCEPT ![c] = IF ~Connection THEN "lost"
                                 ELSE IF db[c] = "ended" THEN "done" ELSE "write"]
    /\ UNCHANGED <<reqVars, row, db, customer, stranded, poll, recent, mgrVars,
                   faults>>

\* Its UPDATE waits for the row lock.
FinWrite(c) ==
    /\ fin[c] = "write"
    /\ row[c] = NoFlow
    /\ fin' = [fin EXCEPT ![c] = "done"]
    /\ db' = [db EXCEPT ![c] = "ended"]
    /\ UNCHANGED <<reqVars, row, customer, stranded, poll, recent, mgrVars,
                   faults>>

\* What the engine reports: in progress while the session is there or the leg
\* is up, failed when the leg has ended.
LiveStatus(c) ==
    (IF customer[c] \/ fin[c] \in {"idle", "write"} THEN {"in_progress"} ELSE {})
    \cup (IF customer[c] THEN {} ELSE {"ended"})

\* get_call reads a call that is not terminal and asks the engine; a status
\* that differs is to be written back.
PollRead(c) ==
    /\ poll[c] = "none"
    /\ Connection
    /\ db[c] # "ended"
    /\ \E live \in LiveStatus(c) \ {db[c]} : poll' = [poll EXCEPT ![c] = live]
    /\ UNCHANGED <<reqVars, row, db, customer, stranded, fin, recent, mgrVars,
                   faults>>

\* Its UPDATE waits for the row lock.
PollWrite(c) ==
    /\ poll[c] # "none"
    /\ row[c] = NoFlow
    /\ db' = [db EXCEPT ![c] = poll[c]]
    /\ poll' = [poll EXCEPT ![c] = "none"]
    /\ UNCHANGED <<reqVars, row, customer, stranded, fin, recent, mgrVars,
                   faults>>

-----------------------------------------------------------------------------
\* A step of a request on its own account.
Step(f) ==
    \/ CheckCooldown(f) \/ SetCooldown(f) \/ LockRow(f) \/ FindManagers(f)
    \/ \E m \in Managers : NextManager(f, m)
    \/ Reserve(f) \/ ReserveTimeout(f) \/ Originate(f) \/ OriginateFails(f)
    \/ Answer(f) \/ NoAnswer(f) \/ AnswerTimeout(f) \/ Mark(f)
    \/ Whisper(f) \/ Bridge(f) \/ Fail(f) \/ Exhaust(f) \/ Commit(f)

Arrival(f) == \E c \in Calls, d \in Departments \cup {Managers} : Load(f, c, d)

Environment ==
    \/ \E f \in Flows : Arrival(f) \/ Crash(f)
    \/ \E f \in Flows, m \in Managers : ManagerLegEnds(f, m)
    \/ \E m \in Managers : RestoreIfDue(m)
    \/ \E c \in Calls : \/ CooldownKeyExpires(c) \/ CustomerGone(c)
                        \/ SessionEndsUnheard(c) \/ PollRead(c)

Next ==
    \/ Environment
    \/ \E f \in Flows : Step(f)
    \/ \E m \in Managers : CooldownPasses(m)
    \/ RestoreDue
    \/ \E c \in Calls : FinRead(c) \/ FinWrite(c) \/ PollWrite(c)

\* Every await of a request ends: it is covered by a timeout, or waits for a
\* row lock of another request.  Time passes, the restore loop runs, and a
\* statement that waits for a row gets it.
Fairness ==
    /\ \A f \in Flows : WF_vars(Step(f))
    /\ \A m \in Managers : WF_vars(CooldownPasses(m))
    /\ WF_vars(RestoreDue)
    /\ \A c \in Calls : /\ WF_vars(FinRead(c))
                        /\ WF_vars(FinWrite(c))
                        /\ WF_vars(PollWrite(c))

Spec == Init /\ [][Next]_vars /\ Fairness

-----------------------------------------------------------------------------
(* Safety                                                                  *)

\* The row lock taken in _get_transferable_call_for_update makes transfers of
\* one call exclude each other from the guard to the end of the request: no
\* two requests dial managers for the same customer at the same time.
NoConcurrentTransfer ==
    \A f, g \in Flows :
        /\ pc[f] \in Holding
        /\ pc[g] \in Holding
        /\ f # g
        => call[f] # call[g]

\* The reservation UPDATE of try_reserve_available keeps a manager with one
\* request.  Two requests have legs or dials to one manager only after a
\* request that failed to reserve him, or that lost his leg, had given him a
\* cooldown while he was in use.
SharedOnlyIfPoached ==
    \A f, g \in Flows, m \in Managers :
        Uses(f, m) /\ Uses(g, m) /\ f # g => m \in poached

\* From the row lock to the end of the request nothing anybody writes to the
\* call becomes visible: neither the finalizer's end of the call, nor a
\* reader's live status, nor the request's own TRANSFERRING, MANAGER_BRIEFING
\* and STOPPED.
NothingLandsDuringTransfer ==
    [][\A f \in Flows : pc[f] \in Holding /\ pc'[f] \in Holding
            => db'[call[f]] = db[call[f]]]_vars

\* A call that has ended is shown as connected to a manager only if its session
\* could not hang the customer's leg up.  The guard does not see to it, for it
\* may read a status from before the end; the check of the customer's leg in
\* bridge_legs does, and the row lock from there to the commit.
EndedNeverConnected ==
    [][\A c \in Calls : db[c] = "ended" /\ c \notin stranded
            => db'[c] # "connected"]_vars

\* What models/call.py says of COMPLETED, FAILED and STOPPED: no further
\* transitions.  Nothing checks it when a status is written: a transfer whose
\* guard read the call before its end connects it, if the leg is still up.
TerminalStaysTerminal ==
    [][\A c \in Calls : db[c] = "ended" => db'[c] = "ended"]_vars

\* What get_for_update promises of the loser of the race for the row: it sees
\* the status the winner left.  The loser has the object Load gave its session,
\* which the locking SELECT does not refresh, and transfers the call again.
LoserSeesTransfer ==
    [][\A f \in Flows : pc[f] = "ready" /\ pc'[f] = "locked"
            => db[call[f]] # "connected"]_vars

\* What transfer_service.py says of a caller who hangs up: the status is read
\* again before each step, and a call that has ended aborts the transfer.  The
\* end waits at finalize_call's UPDATE for the row the request has locked, and
\* the next manager is dialled.
HangupDetected ==
    [][\A f \in Flows : pc[f] = "next" /\ pc'[f] = "reserve"
            => fin[call[f]] \notin {"write", "done"}]_vars

-----------------------------------------------------------------------------
(* The inductive invariant                                                 *)

\* A request past the guard holds the row of its call.
HoldInv == \A f \in Flows : pc[f] \in Holding => row[call[f]] = f

\* A request under way has a call, and one that tries a manager has one.
CurInv ==
    \A f \in Flows :
        /\ pc[f] \in Active => call[f] \in Calls
        /\ pc[f] \in Dialling \cup {"reserve", "marking"}
              => cur[f] \in Managers

\* A manager in use whom nobody gave a cooldown is unavailable, with no
\* deadline: no restore can free him.
UseInv ==
    \A f \in Flows, m \in Managers :
        Uses(f, m) /\ m \notin poached => ~avail[m] /\ after[m] = "none"

\* Nothing ends a call, or is about to, while the customer's leg is up, except
\* the session that could not hang it up.
EndInv ==
    \A c \in Calls :
        db[c] = "ended" \/ fin[c] # "idle" \/ poll[c] = "ended"
            => SessionOver(c)

\* A request with a confirmed bridge has a call that has not ended, or one
\* whose leg outlived its session.
CommitInv ==
    \A f \in Flows :
        pc[f] = "commit" => db[call[f]] # "ended" \/ call[f] \in stranded

-----------------------------------------------------------------------------
(* Liveness                                                                *)

\* Every transfer request ends, though requests wait for each other's row
\* locks and for database connections that others hold while they dial.
TransferEnds == \A f \in Flows : pc[f] \in Active ~> pc[f] \in Over

\* A session that ended during a transfer is recorded, whether the customer hung
\* up or the leg could not be: finalize_call gets past the row lock, unless it
\* found no connection at all.
HangupRecorded ==
    \A c \in Calls :
        (SessionOver(c) /\ fin[c] \in {"idle", "write"})
            ~> (db[c] = "ended" \/ fin[c] = "lost")

=============================================================================
