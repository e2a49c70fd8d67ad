----------------------------- MODULE SessionLease -----------------------------
(***************************************************************************)
(* Ownership of Direct (Gemini) voice sessions across worker processes.    *)
(*                                                                         *)
(* The live half of a session is in the memory of the worker that created  *)
(* it (DirectSessionManager._sessions).  The shared half is in the session *)
(* store: metadata, an ownership lock with a TTL that a heartbeat task     *)
(* renews, and the set of active session ids (SessionCoordinator over      *)
(* RedisSessionStore).  The call row is in the database.  A worker that    *)
(* starts runs startup_reconcile before it serves requests.                *)
(*                                                                         *)
(* One action is one store or database round trip together with the code   *)
(* that runs after it up to the next await.  A worker is one process       *)
(* incarnation: worker ids are drawn afresh at every start, so a restart   *)
(* is the start of another member of Workers.  A session id is derived     *)
(* from the id of its call, so one worker creates it, once.                *)
(*                                                                         *)
(* Time is counted in heartbeat intervals: LockTTL = 3 stands for a 30 s   *)
(* lock renewed every 10 s.                                                *)
(***************************************************************************)
EXTENDS Integers, FiniteSets

CONSTANTS
    Workers,      \* process incarnations
    Sessions,     \* session ids
    NoWorker,     \* "nobody": an absent lock, a session nobody created
    NoSession,    \* the reconciler is between two sessions
    LockTTL,      \* lifetime of a lock, in heartbeat intervals
    MaxFaults     \* how many store or database errors may happen

ASSUME LockTTLAssumption == LockTTL \in Nat /\ LockTTL >= 2
ASSUME MaxFaultsAssumption == MaxFaults \in Nat
ASSUME NoWorkerAssumption == NoWorker \notin Workers
ASSUME NoSessionAssumption == NoSession \notin Sessions

VARIABLES
    wstate,    \* worker -> down | reconciling | up | stopped | crashed
    home,      \* session -> the worker that created it
    live,      \* session -> is it in _sessions of its home worker
    regPc,     \* session -> where its create request stands
    relPc,     \* session -> where its terminate_session stands
    hb,        \* session -> does its heartbeat task run
    beatDue,   \* session -> its heartbeat has woken up and not renewed yet
    misses,    \* session -> intervals gone by without a renewal
    early,     \* session -> its termination began while it was being created
    lock,      \* store: session -> owner
    ttl,       \* store: session -> intervals until the lock expires
    meta,      \* store: session -> status in the metadata hash
    active,    \* store: the set of active session ids
    callDb,    \* database: session -> committed status of its call
    recTodo,   \* worker -> active ids its reconciliation has still to visit
    recCur,    \* worker -> the session its reconciliation is at
    recStep,   \* worker -> the step its reconciliation is at
    recPend,   \* worker -> calls set to FAILED in its open transaction
    recBroken, \* worker -> its transaction met an error and cannot commit
    faults     \* store and database errors so far

place      == <<wstate, home, live, early>>
heart      == <<hb, beatDue, misses>>
workerVars == <<place, regPc, relPc, heart>>
storeVars  == <<lock, ttl, meta, active>>
recVars    == <<recTodo, recCur, recStep, recPend, recBroken>>
vars       == <<workerVars, storeVars, callDb, recVars, faults>>

WStates == {"down", "reconciling", "up", "stopped", "crashed"}

\* none: not asked for; connecting: in _sessions, Gemini connect and greeting
\* under way; meta, lock, active, start: the steps of register_session;
\* returned: create_session returned; committed: the request's transaction
\* committed; failed: Gemini connect raised; dead: the process is gone.
RegPcs == {"none", "connecting", "meta", "lock", "active", "start",
           "returned", "committed", "failed", "dead"}

RelPcs == {"none", "teardown", "write", "cancel", "exists", "hset", "unlock",
           "remove", "delete", "srem", "done", "aborted", "dead"}

\* partial: a hash that holds only status and updated_at, left by an HSET that
\* came after the key was deleted
MetaStates == {"none", "active", "terminated", "failed", "partial"}

CallStates == {"none", "in_progress", "failed", "ended"}

TerminalCall == {"failed", "ended"}

RecSteps == {"idle", "pick", "meta", "read", "flush", "exists", "hset",
             "remove", "gone"}

TypeOK ==
    /\ wstate \in [Workers -> WStates]
    /\ home \in [Sessions -> Workers \cup {NoWorker}]
    /\ live \in [Sessions -> BOOLEAN]
    /\ regPc \in [Sessions -> RegPcs]
    /\ relPc \in [Sessions -> RelPcs]
    /\ hb \in [Sessions -> BOOLEAN]
    /\ beatDue \in [Sessions -> BOOLEAN]
    /\ misses \in [Sessions -> Nat]
    /\ early \in [Sessions -> BOOLEAN]
    /\ lock \in [Sessions -> Workers \cup {NoWorker}]
    /\ ttl \in [Sessions -> 0..LockTTL]
    /\ meta \in [Sessions -> MetaStates]
    /\ active \in SUBSET Sessions
    /\ callDb \in [Sessions -> CallStates]
    /\ recTodo \in [Workers -> SUBSET Sessions]
    /\ recCur \in [Workers -> Sessions \cup {NoSession}]
    /\ recStep \in [Workers -> RecSteps]
    /\ recPend \in [Workers -> SUBSET Sessions]
    /\ recBroken \in [Workers -> BOOLEAN]
    /\ faults \in 0..MaxFaults

Init ==
    /\ wstate = [w \in Workers |-> "down"]
    /\ home = [s \in Sessions |-> NoWorker]
    /\ live = [s \in Sessions |-> FALSE]
    /\ regPc = [s \in Sessions |-> "none"]
    /\ relPc = [s \in Sessions |-> "none"]
    /\ hb = [s \in Sessions |-> FALSE]
    /\ beatDue = [s \in Sessions |-> FALSE]
    /\ misses = [s \in Sessions |-> 0]
    /\ early = [s \in Sessions |-> FALSE]
    /\ lock = [s \in Sessions |-> NoWorker]
    /\ ttl = [s \in Sessions |-> 0]
    /\ meta = [s \in Sessions |-> "none"]
    /\ active = {}
    /\ callDb = [s \in Sessions |-> "none"]
    /\ recTodo = [w \in Workers |-> {}]
    /\ recCur = [w \in Workers |-> NoSession]
    /\ recStep = [w \in Workers |-> "idle"]
    /\ recPend = [w \in Workers |-> {}]
    /\ recBroken = [w \in Workers |-> FALSE]
    /\ faults = 0

-----------------------------------------------------------------------------
(* create_session and register_session                                     *)

\* The part of create_session up to _sessions[session_id] = session.
CreateSession(w, s) ==
    /\ wstate[w] = "up"
    /\ regPc[s] = "none"
    /\ home' = [home EXCEPT ![s] = w]
    /\ live' = [live EXCEPT ![s] = TRUE]
    /\ regPc' = [regPc EXCEPT ![s] = "connecting"]
    /\ UNCHANGED <<heart, early, wstate, relPc, storeVars, callDb, recVars,
                   faults>>

\* The create request of s moves from one await to the next.
Advance(s, from, to) ==
    /\ regPc[s] = from
    /\ regPc' = [regPc EXCEPT ![s] = to]

\* client.connect and the greeting returned: the audio loop runs.
Connected(s) ==
    /\ Advance(s, "connecting", "meta")
    /\ UNCHANGED <<place, heart, relPc, storeVars, callDb, recVars, faults>>

\* client.connect raised.  Nothing removes the session from _sessions; the
\* request rolls its transaction back.
ConnectError(s) ==
    /\ Advance(s, "connecting", "failed")
    /\ UNCHANGED <<place, heart, relPc, storeVars, callDb, recVars, faults>>

\* store.create: HSET of all the fields.
RegCreate(s) ==
    /\ Advance(s, "meta", "lock")
    /\ meta' = [meta EXCEPT ![s] = "active"]
    /\ UNCHANGED <<place, heart, relPc, lock, ttl, active, callDb, recVars,
                   faults>>

\* store.acquire_lock: SET NX EX.  On a conflict register_session returns
\* False and create_session goes on without coordination.
RegAcquire(s) ==
    LET free == lock[s] = NoWorker IN
    /\ Advance(s, "lock", IF free THEN "active" ELSE "returned")
    /\ lock' = IF free THEN [lock EXCEPT ![s] = home[s]] ELSE lock
    /\ ttl' = IF free THEN [ttl EXCEPT ![s] = LockTTL] ELSE ttl
    /\ misses' = IF free THEN [misses EXCEPT ![s] = 0] ELSE misses
    /\ UNCHANGED <<place, relPc, hb, beatDue, meta, active, callDb, recVars,
                   faults>>

\* store.add_to_active: SADD.
RegAddActive(s) ==
    /\ Advance(s, "active", "start")
    /\ active' = active \cup {s}
    /\ UNCHANGED <<place, heart, relPc, lock, ttl, meta, callDb, recVars,
                   faults>>

\* register_session starts the heartbeat task and returns.
RegStart(s) ==
    /\ Advance(s, "start", "returned")
    /\ hb' = [hb EXCEPT ![s] = TRUE]
    /\ UNCHANGED <<place, relPc, beatDue, misses, storeVars, callDb, recVars,
                   faults>>

\* A store call of register_session raised: create_session logs it and goes
\* on with the session known to this process only.
RegError(s) ==
    /\ faults < MaxFaults
    /\ regPc[s] \in {"meta", "lock", "active"}
    /\ regPc' = [regPc EXCEPT ![s] = "returned"]
    /\ faults' = faults + 1
    /\ UNCHANGED <<place, heart, relPc, storeVars, callDb, recVars>>

\* create_call stores mango_call_id and the initial status, and the request's
\* transaction commits: only now can anybody else see the call row.
CommitCall(s) ==
    /\ Advance(s, "returned", "committed")
    /\ callDb' = [callDb EXCEPT ![s] = "in_progress"]
    /\ UNCHANGED <<place, heart, relPc, storeVars, recVars, faults>>

-----------------------------------------------------------------------------
(* The heartbeat task and the clock                                        *)

\* A heartbeat interval goes by and the key loses that much of its TTL.  The
\* heartbeat task, if there is one, wakes up.  Round trips have no timeout, so
\* the interval may also pass while one is under way, unrenewed.
Elapse(s) ==
    /\ ttl[s] > 0
    /\ ttl' = [ttl EXCEPT ![s] = @ - 1]
    /\ lock' = IF ttl[s] = 1 THEN [lock EXCEPT ![s] = NoWorker] ELSE lock
    /\ beatDue' = [beatDue EXCEPT ![s] = hb[s]]
    /\ misses' = IF hb[s] /\ ~beatDue[s] THEN misses
                 ELSE [misses EXCEPT ![s] = @ + 1]
    /\ UNCHANGED <<place, regPc, relPc, hb, meta, active, callDb, recVars,
                   faults>>

\* Mutant: the renewal checks the owner and forgets EXPIRE.
HeartbeatNoExpire(s) ==
    /\ beatDue[s]
    /\ beatDue' = [beatDue EXCEPT ![s] = FALSE]
    /\ misses' = IF lock[s] = home[s] THEN [misses EXCEPT ![s] = 0] ELSE misses
    /\ hb' = [hb EXCEPT ![s] = lock[s] = home[s]]
    /\ UNCHANGED <<place, regPc, relPc, storeVars, callDb, recVars, faults>>

\* renew_lock returned.  It extends a lock that is still ours; on False the
\* heartbeat task logs heartbeat_lost and ends.
Heartbeat(s) ==
    LET renewed == lock[s] = home[s] IN
    /\ beatDue[s]
    /\ beatDue' = [beatDue EXCEPT ![s] = FALSE]
    /\ ttl' = IF renewed THEN [ttl EXCEPT ![s] = LockTTL] ELSE ttl
    /\ misses' = IF renewed THEN [misses EXCEPT ![s] = 0] ELSE misses
    /\ hb' = [hb EXCEPT ![s] = renewed]
    /\ UNCHANGED <<place, regPc, relPc, lock, meta, active, callDb, recVars,
                   faults>>

\* renew_lock raised: the loop logs heartbeat_error and sleeps again.
HeartbeatError(s) ==
    /\ faults < MaxFaults
    /\ beatDue[s]
    /\ beatDue' = [beatDue EXCEPT ![s] = FALSE]
    /\ misses' = [misses EXCEPT ![s] = @ + 1]
    /\ faults' = faults + 1
    /\ UNCHANGED <<place, regPc, relPc, hb, storeVars, callDb, recVars>>

-----------------------------------------------------------------------------
(* terminate_session, finalize_call and release_session                    *)

\* create_session is over, or the request that called it is.
Created == {"returned", "committed", "failed"}

\* terminate_session up to its first await: whoever pops the session from
\* _sessions tears it down, every later call returns at once.
TermBegin(s) ==
    /\ live[s]
    /\ live' = [live EXCEPT ![s] = FALSE]
    /\ relPc' = [relPc EXCEPT ![s] = "teardown"]
    /\ early' = [early EXCEPT ![s] = regPc[s] \notin Created]
    /\ UNCHANGED <<heart, wstate, home, regPc, storeVars, callDb, recVars,
                   faults>>

\* The teardown of s moves from one await to the next.
Release(s, from, to) ==
    /\ relPc[s] = from
    /\ relPc' = [relPc EXCEPT ![s] = to]

\* finalize_call reads the call in a transaction of its own.  It leaves alone
\* a call that is terminal, or that it cannot see yet.
TermRead(s) ==
    /\ Release(s, "teardown",
               IF callDb[s] \in TerminalCall \cup {"none"}
               THEN "cancel" ELSE "write")
    /\ UNCHANGED <<place, heart, regPc, storeVars, callDb, recVars, faults>>

\* finalize_call writes the status and commits.  The UPDATE waits for the row
\* while a reconciler's open transaction holds it.
TermWrite(s) ==
    /\ Release(s, "write", "cancel")
    /\ \A w \in Workers : s \notin recPend[w]
    /\ callDb' = [callDb EXCEPT ![s] = "ended"]
    /\ UNCHANGED <<place, heart, regPc, storeVars, recVars, faults>>

\* The transaction of finalize_call failed: it is logged and the call keeps its
\* status.
TermDbError(s) ==
    /\ faults < MaxFaults
    /\ relPc[s] \in {"teardown", "write"}
    /\ relPc' = [relPc EXCEPT ![s] = "cancel"]
    /\ faults' = faults + 1
    /\ UNCHANGED <<place, regPc, heart, storeVars, callDb, recVars>>

\* release_session cancels the heartbeat task it finds.
RelCancel(s) ==
    /\ Release(s, "cancel", "exists")
    /\ hb' = [hb EXCEPT ![s] = FALSE]
    /\ beatDue' = [beatDue EXCEPT ![s] = FALSE]
    /\ UNCHANGED <<place, regPc, misses, storeVars, callDb, recVars, faults>>

\* update_status(TERMINATED), first round trip: EXISTS.
RelExists(s) ==
    /\ Release(s, "exists", IF meta[s] = "none" THEN "unlock" ELSE "hset")
    /\ UNCHANGED <<place, heart, regPc, storeVars, callDb, recVars, faults>>

\* What HSET of status and updated_at leaves in a metadata hash.
AfterHset(old, status) == IF old \in {"none", "partial"} THEN "partial" ELSE status

\* update_status(TERMINATED), second round trip: HSET.
RelHset(s) ==
    /\ Release(s, "hset", "unlock")
    /\ meta' = [meta EXCEPT ![s] = AfterHset(@, "terminated")]
    /\ UNCHANGED <<place, heart, regPc, lock, ttl, active, callDb, recVars,
                   faults>>

\* The lock key of s is removed.
FreeLock(s) ==
    /\ lock' = [lock EXCEPT ![s] = NoWorker]
    /\ ttl' = [ttl EXCEPT ![s] = 0]

\* release_lock: the Lua script deletes the lock only if it is ours.
RelUnlock(s) ==
    /\ Release(s, "unlock", "remove")
    /\ IF lock[s] = home[s] THEN FreeLock(s) ELSE UNCHANGED <<lock, ttl>>
    /\ UNCHANGED <<place, heart, regPc, meta, active, callDb, recVars, faults>>

\* remove_from_active: SREM.
RelRemove(s) ==
    /\ Release(s, "remove", "delete")
    /\ active' = active \ {s}
    /\ UNCHANGED <<place, heart, regPc, lock, ttl, meta, callDb, recVars,
                   faults>>

\* store.delete, first round trip: DEL of the metadata and of the lock,
\* whoever holds it.
RelDelete(s) ==
    /\ Release(s, "delete", "srem")
    /\ meta' = [meta EXCEPT ![s] = "none"]
    /\ FreeLock(s)
    /\ UNCHANGED <<place, heart, regPc, active, callDb, recVars, faults>>

\* store.delete, second round trip: SREM.
RelSrem(s) ==
    /\ Release(s, "srem", "done")
    /\ active' = active \ {s}
    /\ UNCHANGED <<place, heart, regPc, lock, ttl, meta, callDb, recVars,
                   faults>>

\* A store call of release_session raised: terminate_session logs it and ends.
RelError(s) ==
    /\ faults < MaxFaults
    /\ relPc[s] \in {"exists", "hset", "unlock", "remove", "delete", "srem"}
    /\ relPc' = [relPc EXCEPT ![s] = "aborted"]
    /\ faults' = faults + 1
    /\ UNCHANGED <<place, heart, regPc, storeVars, callDb, recVars>>

-----------------------------------------------------------------------------
(* Worker start, startup_reconcile, stop and crash                         *)

\* lifespan starts and startup_reconcile reads the active set.
Startup(w) ==
    /\ wstate[w] = "down"
    /\ wstate' = [wstate EXCEPT ![w] = "reconciling"]
    /\ recTodo' = [recTodo EXCEPT ![w] = active]
    /\ recStep' = [recStep EXCEPT ![w] = "pick"]
    /\ UNCHANGED <<heart, early, home, live, regPc, relPc, storeVars, callDb,
                   recCur, recPend, recBroken, faults>>

\* Mutant: the owner is not looked up.
RecPickAny(w, s) ==
    /\ recStep[w] = "pick"
    /\ s \in recTodo[w]
    /\ recTodo' = [recTodo EXCEPT ![w] = @ \ {s}]
    /\ recStep' = [recStep EXCEPT ![w] = "meta"]
    /\ recCur' = [recCur EXCEPT ![w] = s]
    /\ UNCHANGED <<workerVars, storeVars, callDb, recPend, recBroken, faults>>

\* The next session of the list: one that has an owner is left alone.
RecPick(w, s) ==
    LET owned == lock[s] # NoWorker IN
    /\ recStep[w] = "pick"
    /\ s \in recTodo[w]
    /\ recTodo' = [recTodo EXCEPT ![w] = @ \ {s}]
    /\ recStep' = [recStep EXCEPT ![w] = IF owned THEN "pick" ELSE "meta"]
    /\ recCur' = [recCur EXCEPT ![w] = IF owned THEN NoSession ELSE s]
    /\ UNCHANGED <<workerVars, storeVars, callDb, recPend, recBroken, faults>>

\* An exception leaves startup_reconcile: its transaction is rolled back, what
\* it has done to the store stays, and the worker starts serving all the same.
Abandon(w) ==
    /\ wstate' = [wstate EXCEPT ![w] = "up"]
    /\ recTodo' = [recTodo EXCEPT ![w] = {}]
    /\ recCur' = [recCur EXCEPT ![w] = NoSession]
    /\ recStep' = [recStep EXCEPT ![w] = "idle"]
    /\ recPend' = [recPend EXCEPT ![w] = {}]

\* store.get of the orphan's metadata; without any, only the active set is
\* cleaned.
RecMeta(w) ==
    /\ recStep[w] = "meta"
    /\ meta[recCur[w]] # "partial"
    /\ recStep' = [recStep EXCEPT ![w] =
            IF meta[recCur[w]] = "none" THEN "gone" ELSE "read"]
    /\ UNCHANGED <<workerVars, storeVars, callDb, recTodo, recCur, recPend,
                   recBroken, faults>>

\* A partial hash makes from_dict raise, which nothing in startup_reconcile
\* catches.
RecBadMeta(w) ==
    /\ recStep[w] = "meta"
    /\ meta[recCur[w]] = "partial"
    /\ Abandon(w)
    /\ UNCHANGED <<heart, home, live, regPc, relPc, early, storeVars, callDb,
                   recBroken, faults>>

\* A store call of startup_reconcile raised: not caught there either.
RecStoreError(w) ==
    /\ faults < MaxFaults
    /\ recStep[w] \in {"pick", "meta", "exists", "hset", "remove", "gone"}
    /\ faults' = faults + 1
    /\ Abandon(w)
    /\ UNCHANGED <<heart, home, live, regPc, relPc, early, storeVars, callDb,
                   recBroken>>

\* call_repo.get_by_mango_call_id: a call that is terminal, or whose id is
\* not committed, is left alone.
RecRead(w) ==
    /\ recStep[w] = "read"
    /\ ~recBroken[w]
    /\ recStep' = [recStep EXCEPT ![w] =
            IF callDb[recCur[w]] = "in_progress" THEN "flush" ELSE "exists"]
    /\ UNCHANGED <<workerVars, storeVars, callDb, recTodo, recCur, recPend,
                   recBroken, faults>>

\* w wants to update a row that the open transaction of v has updated.
RowWait(w, v) == recStep[w] = "flush" /\ v # w /\ recCur[w] \in recPend[v]

\* call_repo.save flushes the UPDATE; it is visible at the commit.
RecFlush(w) ==
    /\ recStep[w] = "flush"
    /\ ~recBroken[w]
    /\ \A v \in Workers : ~RowWait(w, v)
    /\ recPend' = [recPend EXCEPT ![w] = @ \cup {recCur[w]}]
    /\ recStep' = [recStep EXCEPT ![w] = "exists"]
    /\ UNCHANGED <<workerVars, storeVars, callDb, recTodo, recCur, recBroken,
                   faults>>

\* Mutant: the handler of the error goes back to the same session.
DbFailsRetry(w) ==
    /\ recStep[w] \in {"read", "flush"}
    /\ recBroken' = [recBroken EXCEPT ![w] = TRUE]
    /\ recPend' = [recPend EXCEPT ![w] = {}]
    /\ recStep' = [recStep EXCEPT ![w] = "read"]
    /\ UNCHANGED <<workerVars, storeVars, callDb, recTodo, recCur>>

\* An error while the call is read or saved is counted and the loop goes on,
\* but the transaction is aborted: what it had updated is lost.
DbFails(w) ==
    /\ recStep[w] \in {"read", "flush"}
    /\ recBroken' = [recBroken EXCEPT ![w] = TRUE]
    /\ recPend' = [recPend EXCEPT ![w] = {}]
    /\ recStep' = [recStep EXCEPT ![w] = "exists"]
    /\ UNCHANGED <<workerVars, storeVars, callDb, recTodo, recCur>>

\* The database is out of reach.
RecDbError(w) ==
    /\ faults < MaxFaults
    /\ ~recBroken[w]
    /\ faults' = faults + 1
    /\ DbFails(w)

\* Every later statement of an aborted transaction fails too.
RecDbAborted(w) ==
    /\ recBroken[w]
    /\ DbFails(w)
    /\ UNCHANGED faults

\* Two workers that start together visit the orphans in different orders and
\* wait for each other's rows: the database aborts one of them.
RecDeadlock(w) ==
    /\ \E v \in Workers : RowWait(w, v) /\ RowWait(v, w)
    /\ DbFails(w)
    /\ UNCHANGED faults

\* update_status(FAILED), first round trip: EXISTS.
RecExists(w) ==
    /\ recStep[w] = "exists"
    /\ recStep' = [recStep EXCEPT ![w] =
            IF meta[recCur[w]] = "none" THEN "remove" ELSE "hset"]
    /\ UNCHANGED <<workerVars, storeVars, callDb, recTodo, recCur, recPend,
                   recBroken, faults>>

\* update_status(FAILED), second round trip: HSET.
RecHset(w) ==
    /\ recStep[w] = "hset"
    /\ meta' = [meta EXCEPT ![recCur[w]] = AfterHset(@, "failed")]
    /\ recStep' = [recStep EXCEPT ![w] = "remove"]
    /\ UNCHANGED <<workerVars, lock, ttl, active, callDb, recTodo, recCur,
                   recPend, recBroken, faults>>

\* remove_from_active, for a reconciled session and for one without metadata.
RecRemove(w) ==
    /\ recStep[w] \in {"remove", "gone"}
    /\ active' = active \ {recCur[w]}
    /\ recCur' = [recCur EXCEPT ![w] = NoSession]
    /\ recStep' = [recStep EXCEPT ![w] = "pick"]
    /\ UNCHANGED <<workerVars, lock, ttl, meta, callDb, recTodo, recPend,
                   recBroken, faults>>

\* The list is done: lifespan commits the one transaction of the whole pass
\* and the worker starts serving.  A broken transaction raises instead.
RecCommit(w) ==
    /\ recStep[w] = "pick"
    /\ recTodo[w] = {}
    /\ callDb' = [s \in Sessions |->
                     IF s \in recPend[w] THEN "failed" ELSE callDb[s]]
    /\ recPend' = [recPend EXCEPT ![w] = {}]
    /\ recStep' = [recStep EXCEPT ![w] = "idle"]
    /\ wstate' = [wstate EXCEPT ![w] = "up"]
    /\ UNCHANGED <<heart, early, home, live, regPc, relPc, storeVars, recTodo,
                   recCur, recBroken, faults>>

\* Everything in the memory of w is lost: its sessions, their tasks, its open
\* requests and transactions.
Vanish(w, how) ==
    /\ wstate' = [wstate EXCEPT ![w] = how]
    /\ live' = [s \in Sessions |-> live[s] /\ home[s] # w]
    /\ hb' = [s \in Sessions |-> hb[s] /\ home[s] # w]
    /\ beatDue' = [s \in Sessions |-> beatDue[s] /\ home[s] # w]
    /\ regPc' = [s \in Sessions |-> IF home[s] = w THEN "dead" ELSE regPc[s]]
    /\ relPc' = [s \in Sessions |-> IF home[s] = w THEN "dead" ELSE relPc[s]]
    /\ recTodo' = [recTodo EXCEPT ![w] = {}]
    /\ recCur' = [recCur EXCEPT ![w] = NoSession]
    /\ recStep' = [recStep EXCEPT ![w] = "idle"]
    /\ recPend' = [recPend EXCEPT ![w] = {}]
    /\ UNCHANGED <<early, home, misses, storeVars, callDb, recBroken, faults>>

\* The process is killed.
Crash(w) ==
    /\ wstate[w] \in {"reconciling", "up"}
    /\ Vanish(w, "crashed")

\* The process is asked to stop: open requests are drained,
\* then the shutdown half of lifespan runs.  It closes the Redis pool and
\* touches no session.
Shutdown(w) ==
    /\ wstate[w] = "up"
    /\ \A s \in Sessions : home[s] = w =>
          regPc[s] \in {"committed", "failed"}
    /\ Vanish(w, "stopped")

-----------------------------------------------------------------------------
CreateSteps(s) ==
    \/ Connected(s) \/ RegCreate(s) \/ RegAcquire(s) \/ RegAddActive(s)
    \/ RegStart(s) \/ CommitCall(s)

TermSteps(s) ==
    \/ TermRead(s) \/ TermWrite(s) \/ RelCancel(s) \/ RelExists(s)
    \/ RelHset(s) \/ RelUnlock(s) \/ RelRemove(s) \/ RelDelete(s) \/ RelSrem(s)

RecStepsOf(w) ==
    \/ \E s \in Sessions : RecPick(w, s)
    \/ RecMeta(w) \/ RecBadMeta(w) \/ RecRead(w) \/ RecFlush(w)
    \/ RecDbAborted(w) \/ RecDeadlock(w) \/ RecExists(w) \/ RecHset(w)
    \/ RecRemove(w) \/ RecCommit(w)

Next ==
    \/ \E w \in Workers, s \in Sessions : CreateSession(w, s)
    \/ \E s \in Sessions :
          \/ CreateSteps(s) \/ ConnectError(s) \/ RegError(s)
          \/ Elapse(s) \/ Heartbeat(s) \/ HeartbeatError(s)
          \/ TermBegin(s) \/ TermSteps(s) \/ TermDbError(s) \/ RelError(s)
    \/ \E w \in Workers :
          \/ Startup(w) \/ RecStepsOf(w) \/ RecDbError(w) \/ RecStoreError(w)
          \/ Crash(w) \/ Shutdown(w)

Spec == Init /\ [][Next]_vars

\* Time passes, a worker that is up keeps running its coroutines, and every
\* worker of the deployment is started at some point.  Nothing obliges a
\* caller to create or end a session, a worker to crash, or a store to fail.
Fairness ==
    /\ \A s \in Sessions :
          /\ WF_vars(CreateSteps(s))
          /\ WF_vars(Elapse(s))
          /\ WF_vars(Heartbeat(s))
          /\ WF_vars(TermSteps(s))
    /\ \A w \in Workers :
          /\ WF_vars(Startup(w))
          /\ WF_vars(RecStepsOf(w))

FairSpec == Spec /\ Fairness

-----------------------------------------------------------------------------
(* Properties                                                              *)

\* The termination of s has not come to the point where it cancels the
\* heartbeat task.
NotReleased(s) == relPc[s] \in {"none", "teardown", "write", "cancel"}

\* The heartbeat of s runs and has not been silent for too long.
Renewing(s) == hb[s] /\ NotReleased(s) /\ misses[s] + 1 < LockTTL

\* _heartbeat_loop keeps the lease: a session whose heartbeat task runs, and
\* which has missed fewer than LockTTL - 1 renewals in a row, is owned by the
\* worker that runs it.  One failed renewal never costs the ownership.
LeaseHeld == \A s \in Sessions : Renewing(s) => lock[s] = home[s]

\* The sessions that the reconciliation of w has judged to be orphans and
\* whose call or metadata it may still change.
Condemned(w) == recPend[w] \cup ({recCur[w]} \ {NoSession})

\* startup_reconcile reads the lock once and acts on it several round trips
\* later.  The verdict is never stale: nobody owns the lock of a session from
\* the moment the reconciler found it free to the commit.
CondemnedStaysFree ==
    \A w \in Workers : \A s \in Condemned(w) : lock[s] = NoWorker

\* So reconciliation never fails the call of a session whose heartbeat is
\* renewing, whatever the interleaving of the two workers.
SparesRenewing ==
    \A w \in Workers : \A s \in Condemned(w) : ~Renewing(s)

\* After release_session of a session that was fully created, nothing of it
\* is left to be taken for a live one: no lock, no heartbeat task, no entry in
\* the active set.
CleanRelease ==
    \A s \in Sessions :
        relPc[s] = "done" /\ ~early[s] =>
            lock[s] = NoWorker /\ ~hb[s] /\ s \notin active

\* No two workers can be in a state where each waits for the other's rows and
\* none is aborted: a reconciliation always ends, so a worker always gets to
\* serve requests.
ReconcileEnds ==
    \A w \in Workers : wstate[w] = "reconciling" ~> wstate[w] # "reconciling"

\* What startup_reconcile's docstring says it does "for each orphaned session": as
\* long as store and database answer, a worker does not start to serve before its
\* list is done.  It does when an HSET behind a delete has left a partial hash.
EachOrphanVisited ==
    [][faults = 0 => \A w \in Workers :
           wstate[w] = "reconciling" /\ wstate'[w] = "up"
               => recStep[w] = "pick" /\ recTodo[w] = {}]_vars

-----------------------------------------------------------------------------
(* The inductive strengthening behind LeaseHeld, SparesRenewing and        *)
(* CleanRelease                                                            *)

\* A reconciler that is past the pick step is at a session.
StepInv ==
    \A w \in Workers : recStep[w] \notin {"idle", "pick"} => recCur[w] \in Sessions

\* Who created a session, and what can exist before it is registered.
BeforeStart == {"none", "connecting", "meta", "lock", "active", "start", "failed"}

HomeInv ==
    \A s \in Sessions :
        /\ regPc[s] # "none" => home[s] \in Workers
        /\ regPc[s] = "none" => ~live[s] /\ relPc[s] = "none" /\ lock[s] = NoWorker
        /\ live[s] => relPc[s] = "none"
        /\ regPc[s] \in BeforeStart => ~hb[s]
        /\ ~hb[s] => ~beatDue[s]

\* A lock has time left, and belongs to the creator of the session.
LockInv ==
    \A s \in Sessions :
        /\ lock[s] \in {NoWorker, home[s]}
        /\ lock[s] = NoWorker <=> ttl[s] = 0

\* Intervals since the last renewal, the one that is being renewed included.
Silence(s) == misses[s] + (IF beatDue[s] THEN 1 ELSE 0)

\* From the acquisition to the release the TTL left is exactly what the
\* silence has not used up.
LeaseInv ==
    \A s \in Sessions :
        /\ hb[s] \/ regPc[s] \in {"active", "start"}
        /\ NotReleased(s)
        /\ Silence(s) < LockTTL
        => lock[s] = home[s] /\ ttl[s] = LockTTL - Silence(s)

\* The session is past the only step that can give its lock an owner.
PastAcquire(s) == regPc[s] \notin {"none", "connecting", "meta", "lock"}

\* What the store lists as active, and what a reconciler took from that list,
\* is past the acquisition.
FreeInv ==
    /\ \A s \in active : PastAcquire(s)
    /\ \A w \in Workers :
          /\ \A s \in recTodo[w] : PastAcquire(s)
          /\ \A s \in Condemned(w) : PastAcquire(s) /\ lock[s] = NoWorker

\* How far release_session has come, for a session that was fully created.
CleanInv ==
    \A s \in Sessions : relPc[s] \notin {"none", "dead"} /\ ~early[s] =>
        /\ regPc[s] \in Created
        /\ ~NotReleased(s) => ~hb[s]
        /\ relPc[s] \in {"remove", "delete", "srem", "done"} => lock[s] = NoWorker
        /\ relPc[s] \in {"delete", "srem", "done"} => s \notin active

=============================================================================
