---------------------------- MODULE MCSessionLease ----------------------------
(* Instances of SessionLease for TLC.                                      *)
EXTENDS SessionLease

CONSTANTS w1, w2, w3, s1, s2

CONSTANTS
    Late,     \* the session that is still to come in the instance from the start
    Stopped   \* the worker that came first, stopped already or releasing

\* A worker has crashed with all the sessions in conversation, their calls
\* committed; some locks have expired, others not yet.  The other workers have
\* not started.
OrphanInit ==
    \E dead \in Workers, left \in [Sessions -> 0..LockTTL] :
        /\ wstate = [w \in Workers |-> IF w = dead THEN "crashed" ELSE "down"]
        /\ home = [s \in Sessions |-> dead]
        /\ live = [s \in Sessions |-> FALSE]
        /\ regPc = [s \in Sessions |-> "dead"]
        /\ relPc = [s \in Sessions |-> "dead"]
        /\ hb = [s \in Sessions |-> FALSE]
        /\ beatDue = [s \in Sessions |-> FALSE]
        /\ misses = [s \in Sessions |-> LockTTL - left[s]]
        /\ early = [s \in Sessions |-> FALSE]
        /\ lock = [s \in Sessions |-> IF left[s] = 0 THEN NoWorker ELSE dead]
        /\ ttl = left
        /\ meta = [s \in Sessions |-> "active"]
        /\ active = Sessions
        /\ callDb = [s \in Sessions |-> "in_progress"]
        /\ recTodo = [w \in Workers |-> {}]
        /\ recCur = [w \in Workers |-> NoSession]
        /\ recStep = [w \in Workers |-> "idle"]
        /\ recPend = [w \in Workers |-> {}]
        /\ recBroken = [w \in Workers |-> FALSE]
        /\ faults = 0

\* The system starts with one worker stopped again and the sessions before the
\* late one failed while they connected to Gemini: states Spec reaches, which
\* leave two workers and one session to follow through its whole life.
StartInit ==
    /\ wstate = [w \in Workers |-> IF w = Stopped THEN "stopped" ELSE "down"]
    /\ home = [s \in Sessions |-> IF s = Late THEN NoWorker ELSE Stopped]
    /\ live = [s \in Sessions |-> FALSE]
    /\ regPc = [s \in Sessions |-> IF s = Late THEN "none" ELSE "dead"]
    /\ relPc = [s \in Sessions |-> IF s = Late THEN "none" ELSE "dead"]
    /\ hb = [s \in Sessions |-> FALSE]
    /\ beatDue = [s \in Sessions |-> FALSE]
    /\ misses = [s \in Sessions |-> 0]
    /\ early = [s \in Sessions |-> FALSE]
    /\ lock = [s \in Sessions |-> NoWorker]
    /\ ttl = [s \in Sessions |-> 0]
    /\ meta = [s \in Sessions |-> "none"]
    /\ active = {}
    /\ callDb = [s \in Sessions |-> "none"]
    /\ recTodo = [w \in Workers |-> {}]
    /\ recCur = [w \in Workers |-> NoSession]
    /\ recStep = [w \in Workers |-> "idle"]
    /\ recPend = [w \in Workers |-> {}]
    /\ recBroken = [w \in Workers |-> FALSE]
    /\ faults = 0

\* One worker is up.  It has let the lock of the late session go and is about to
\* take it off the active list; the others it has released.  The other workers
\* are still to start, and may find the late one listed and free.
ReleaseInit ==
    /\ wstate = [w \in Workers |-> IF w = Stopped THEN "up" ELSE "down"]
    /\ home = [s \in Sessions |-> Stopped]
    /\ live = [s \in Sessions |-> FALSE]
    /\ regPc = [s \in Sessions |-> "committed"]
    /\ relPc = [s \in Sessions |-> IF s = Late THEN "remove" ELSE "done"]
    /\ hb = [s \in Sessions |-> FALSE]
    /\ beatDue = [s \in Sessions |-> FALSE]
    /\ misses = [s \in Sessions |-> 0]
    /\ early = [s \in Sessions |-> FALSE]
    /\ lock = [s \in Sessions |-> NoWorker]
    /\ ttl = [s \in Sessions |-> 0]
    /\ meta = [s \in Sessions |-> IF s = Late THEN "terminated" ELSE "none"]
    /\ active = {Late}
    /\ callDb = [s \in Sessions |-> "ended"]
    /\ recTodo = [w \in Workers |-> {}]
    /\ recCur = [w \in Workers |-> NoSession]
    /\ recStep = [w \in Workers |-> "idle"]
    /\ recPend = [w \in Workers |-> {}]
    /\ recBroken = [w \in Workers |-> FALSE]
    /\ faults = 0

MCSpec == (OrphanInit \/ StartInit \/ ReleaseInit) /\ [][Next]_vars /\ Fairness
=============================================================================
