---------------------------- MODULE CallLifecycle ----------------------------
(***************************************************************************)
(* The life of a call as the API sees it: CallService over the routing     *)
(* engine, the Vapi and Direct engines beneath it, Vapi's webhooks, and    *)
(* the finalizer of a Direct session.                                      *)
(*                                                                         *)
(* Every HTTP request and every webhook is one database transaction: it    *)
(* reads the call row without a lock, talks to an engine, writes (taking   *)
(* the row lock at the flush) and commits.  A request that raises is       *)
(* rolled back.  finalize_call is a transaction of its own, run by the     *)
(* session that ends.  Vapi moves its calls on its own and reports by      *)
(* webhooks that arrive in any order, possibly more than once.             *)
(*                                                                         *)
(* One action is one await together with the code up to the next one.      *)
(***************************************************************************)
EXTENDS Integers, FiniteSets

CONSTANTS
    Calls,       \* identities of calls, each created at most once
    Requests,    \* requests and webhooks the server works on at a time
    NoCall, NoRequest,
    Cap,         \* rate_limit_max_concurrent_calls
    Production,  \* settings.is_production: no stub for AUTO
    Configs,     \* the sets of engines the application may be configured with
    Serial,      \* do the writers of one row, and creations, take turns
    Traffic,     \* the kinds of webhook Vapi sends in this instance
    Stages,      \* the statuses between queued and ended it goes through
    MaxFaults    \* how many answers and commits may be lost

ASSUME CapAssumption == Cap \in Nat
ASSUME ConfigsAssumption == Configs \subseteq SUBSET {"vapi", "direct"}
ASSUME NoneAssumption == NoCall \notin Calls /\ NoRequest \notin Requests
ASSUME FlagsAssumption == Production \in BOOLEAN /\ Serial \in BOOLEAN
ASSUME MaxFaultsAssumption == MaxFaults \in Nat

VARIABLES
    up,       \* engines that are configured
    row,      \* database: call -> committed [st, route]
    lock,     \* database: call -> the request that holds its row
    req,      \* request -> [pc, kind, call, st, route], its own session
    vapi,     \* Vapi: call -> status of the call at the provider
    sess,     \* call -> its Direct session
    fin,      \* call -> [pc, st], finalize_call of that session
    hooks,    \* webhooks on their way
    lost,     \* history: calls whose creation lost an answer or its commit
    unheard,  \* history: calls whose stop reached no engine
    missed,   \* history: calls whose last word came before their row
    faults

vars == <<up, row, lock, req, vapi, sess, fin, hooks, lost, unheard, missed, faults>>

Terminal == {"COMPLETED", "FAILED", "STOPPED"}
Statuses == Terminal \cup {"QUEUED", "RINGING", "IN_PROGRESS", "NEEDS_TRANSFER",
                           "TRANSFERRING", "CONNECTED_TO_MANAGER"}
VapiStatuses == {"queued", "ringing", "in-progress", "forwarding", "ended"}
HookKinds == {"status-update", "end-of-call-report", "hang",
              "transfer-destination-request"}

ASSUME TrafficAssumption == Traffic \subseteq HookKinds
ASSUME StagesAssumption == Stages \subseteq {"ringing", "in-progress", "forwarding"}

Idle == [pc |-> "idle", kind |-> "none", call |-> NoCall, st |-> "none",
         route |-> "none"]

Hooks == [call : Calls, kind : HookKinds, val : VapiStatuses \cup {"none", "ok", "error"}]

Routes == {"none", "vapi", "direct", "stub"}
Rows == [st : Statuses \cup {"none"}, route : Routes]
Locals == [pc : {"idle", "dial", "insert", "probe", "flush", "act", "await", "save", "commit"},
           kind : {"none", "create", "get", "stop", "steer", "hook"},
           call : Calls \cup {NoCall}, st : Statuses \cup {"none"}, route : Routes]
Finals == [pc : {"none", "due", "write", "done"}, st : Statuses \cup {"none"}]

TypeOK ==
    /\ up \in SUBSET {"vapi", "direct"}
    /\ row \in [Calls -> Rows]
    /\ lock \in [Calls -> Requests \cup {NoRequest}]
    /\ req \in [Requests -> Locals]
    /\ vapi \in [Calls -> VapiStatuses \cup {"none"}]
    /\ sess \in [Calls -> {"none", "live", "gone"}]
    /\ fin \in [Calls -> Finals]
    /\ hooks \in SUBSET Hooks
    /\ lost \in SUBSET Calls
    /\ unheard \in SUBSET Calls
    /\ missed \in SUBSET Calls
    /\ faults \in 0..MaxFaults

Init ==
    /\ up \in Configs
    /\ row = [c \in Calls |-> [st |-> "none", route |-> "none"]]
    /\ lock = [c \in Calls |-> NoRequest]
    /\ req = [r \in Requests |-> Idle]
    /\ vapi = [c \in Calls |-> "none"]
    /\ sess = [c \in Calls |-> "none"]
    /\ fin = [c \in Calls |-> [pc |-> "none", st |-> "none"]]
    /\ hooks = {}
    /\ lost = {} /\ unheard = {} /\ missed = {}
    /\ faults = 0

-----------------------------------------------------------------------------
(* Engines and the database                                                *)

Live(c) == row[c].st \notin Terminal \cup {"none"}

\* Somebody is talking to the customer through this engine.
LegUp(c, route) ==
    \/ route = "vapi" /\ vapi[c] \notin {"none", "ended"}
    \/ route = "direct" /\ sess[c] = "live"

\* _STATUS_MAP of the processor and _VAPI_STATUS_MAP of the engine.
StatusOf(v) ==
    CASE v = "queued" -> "QUEUED"
      [] v = "ringing" -> "RINGING"
      [] v = "in-progress" -> "IN_PROGRESS"
      [] v = "forwarding" -> "TRANSFERRING"
      [] v = "ended" -> "COMPLETED"

\* The primary route of a new call; none when the engine asked for is missing
\* (or, for AUTO in production, every engine is).
Select(mode) ==
    CASE mode # "auto" -> {mode} \cap up
      [] "vapi" \in up -> {"vapi"}
      [] "direct" \in up -> {"direct"}
      [] OTHER -> IF Production THEN {} ELSE {"stub"}

\* allows_fallback: allow_vapi_to_direct_fallback is on, so the mode is moot.
Fallback(route) == IF route = "vapi" /\ "direct" \in up THEN {"direct"} ELSE {}

\* _engine_by_name for the route the call was made with.
Engine(route) == IF route \in up THEN route ELSE "stub"

\* VapiCallEngine.get_status: GET /call/{id}, mapped.
VapiAnswer(c) == {StatusOf(vapi[c])}

\* DirectGeminiEngine.get_status: the status of the session, or what the state of
\* its leg says when this worker has no session, or the row's status when the leg
\* cannot be asked.  A session that failed is registered a moment longer.
DirectAnswer(c, st) ==
    IF sess[c] = "live" THEN {"IN_PROGRESS"}
    ELSE {"FAILED", st} \cup (IF fin[c].pc = "due" THEN {fin[c].st} \ {"STOPPED"} ELSE {})

\* What engine.get_status may answer for a call whose row says st.
LiveStatus(c, route, st) ==
    CASE Engine(route) = "vapi" -> VapiAnswer(c)
      [] Engine(route) = "direct" -> DirectAnswer(c, st)
      [] OTHER -> {st}

Free(c, r) == lock[c] \in {NoRequest, r}

\* Requests that have read the row of c and may still write it.
Writers(c) == {r \in Requests : req[r].call = c /\ req[r].kind # "create"}

Turn(c) == Serial => Writers(c) = {} /\ fin[c].pc # "write"

Goto(r, where) == req' = [req EXCEPT ![r].pc = where]

\* The end of a request: its transaction and its row lock are over.
Done(r) ==
    /\ req' = [req EXCEPT ![r] = Idle]
    /\ lock' = [c \in Calls |-> IF lock[c] = r THEN NoRequest ELSE lock[c]]

Fault == faults < MaxFaults /\ faults' = faults + 1

-----------------------------------------------------------------------------
(* POST /calls                                                             *)

\* Mutant of AtCapacity: off by one.
AtCapacityLate == Cardinality({c \in Calls : Live(c)}) > Cap

\* _check_max_concurrent_calls, on what is committed.
AtCapacity == Cardinality({c \in Calls : Live(c)}) >= Cap

\* The limits let the call pass, the row is inserted (nobody sees it yet) and
\* the policy selects a route.  The limit counts committed rows only.
Create(r, c) ==
    /\ req[r] = Idle
    /\ row[c].st = "none" /\ vapi[c] = "none" /\ sess[c] = "none"
    /\ \A q \in Requests : req[q].call # c
    /\ Serial => \A q \in Requests : req[q].kind # "create"
    /\ ~AtCapacity
    /\ \E mode \in {"auto", "vapi", "direct"} : \E route \in Select(mode) :
         req' = [req EXCEPT ![r] = [pc |-> "dial", kind |-> "create", call |-> c,
                                    st |-> "none", route |-> route]]
    /\ UNCHANGED <<up, row, lock, vapi, sess, fin, hooks, lost, unheard, missed, faults>>

\* The route fails: the next one is tried, or the creation is rolled back and
\* the FAILED row with it.
NextRoute(r) ==
    \/ \E route \in Fallback(req[r].route) :
         req' = [req EXCEPT ![r].route = route] /\ UNCHANGED lock
    \/ Fallback(req[r].route) = {} /\ Done(r)

\* Mutant of DialVapi: the answer is rejected after the call was placed.
DialVapiRejected(r) ==
    /\ req[r].pc = "dial" /\ req[r].route = "vapi"
    /\ vapi' = [vapi EXCEPT ![req[r].call] = "queued"]
    /\ NextRoute(r)
    /\ UNCHANGED <<up, row, sess, fin, hooks, lost, unheard, missed, faults>>

\* POST /call/phone succeeds.
DialVapi(r) ==
    /\ req[r].pc = "dial" /\ req[r].route = "vapi"
    /\ vapi' = [vapi EXCEPT ![req[r].call] = "queued"]
    /\ req' = [req EXCEPT ![r].pc = "insert", ![r].st = "QUEUED"]
    /\ UNCHANGED <<up, row, lock, sess, fin, hooks, lost, unheard, missed, faults>>

\* The leg is answered and its session runs (DirectSession has the details).
DialDirect(r) ==
    /\ req[r].pc = "dial" /\ req[r].route = "direct"
    /\ sess' = [sess EXCEPT ![req[r].call] = "live"]
    /\ req' = [req EXCEPT ![r].pc = "insert", ![r].st = "IN_PROGRESS"]
    /\ UNCHANGED <<up, row, lock, vapi, fin, hooks, lost, unheard, missed, faults>>

DialStub(r) ==
    /\ req[r].pc = "dial" /\ req[r].route = "stub"
    /\ req' = [req EXCEPT ![r].pc = "insert", ![r].st = "QUEUED"]
    /\ UNCHANGED <<up, row, lock, vapi, sess, fin, hooks, lost, unheard, missed, faults>>

\* An engine raises: the limit of sessions, a leg nobody answers, an HTTP error.
DialRefused(r) ==
    /\ req[r].pc = "dial" /\ req[r].route # "stub"
    /\ NextRoute(r)
    /\ UNCHANGED <<up, row, vapi, sess, fin, hooks, lost, unheard, missed, faults>>

\* Vapi placed the call, the answer did not come through: for the client a
\* network error like any other.
DialAnswerLost(r) ==
    LET c == req[r].call IN
    /\ req[r].pc = "dial" /\ req[r].route = "vapi"
    /\ Fault
    /\ vapi' = [vapi EXCEPT ![c] = "queued"]
    /\ lost' = lost \cup {c}
    /\ NextRoute(r)
    /\ UNCHANGED <<up, row, sess, fin, hooks, unheard, missed>>

\* The transaction of the creation commits: the call becomes visible.
CommitCreate(r) ==
    LET c == req[r].call IN
    /\ req[r].pc = "insert"
    /\ row' = [row EXCEPT ![c] = [st |-> req[r].st, route |-> req[r].route]]
    /\ Done(r)
    /\ UNCHANGED <<up, vapi, sess, fin, hooks, lost, unheard, missed, faults>>

CommitCreateFails(r) ==
    /\ req[r].pc = "insert"
    /\ Fault
    /\ lost' = lost \cup {req[r].call}
    /\ Done(r)
    /\ UNCHANGED <<up, row, vapi, sess, fin, hooks, unheard, missed>>

-----------------------------------------------------------------------------
(* GET, POST stop, POST steer                                              *)

\* get_call reads the row; a terminal call is returned (or refused) as it is.
Begin(r, c, kind) ==
    /\ req[r] = Idle
    /\ Live(c)
    /\ Turn(c)
    /\ req' = [req EXCEPT ![r] = [pc |-> "probe", kind |-> kind, call |-> c,
                                  st |-> row[c].st, route |-> row[c].route]]
    /\ UNCHANGED <<up, row, lock, vapi, sess, fin, hooks, lost, unheard, missed, faults>>

\* What follows get_call.
AfterGet(kind) == IF kind = "get" THEN "commit" ELSE "act"

\* The engine answers; a status that differs is written back.  An engine that
\* does not answer leaves the status as it was.
Probe(r) ==
    LET c == req[r].call IN
    /\ req[r].pc = "probe"
    /\ \E st \in LiveStatus(c, req[r].route, req[r].st) \cup {req[r].st} :
         req' = [req EXCEPT ![r].st = st,
                            ![r].pc = IF st # req[r].st THEN "flush"
                                      ELSE AfterGet(req[r].kind)]
    /\ UNCHANGED <<up, row, lock, vapi, sess, fin, hooks, lost, unheard, missed, faults>>

\* repo.save: the UPDATE waits for the row and holds it from here on.
Flush(r) ==
    LET c == req[r].call IN
    /\ req[r].pc = "flush" /\ Free(c, r)
    /\ lock' = [lock EXCEPT ![c] = r]
    /\ Goto(r, IF req[r].st \in Terminal \/ req[r].kind = "hook" THEN "commit"
               ELSE AfterGet(req[r].kind))
    /\ UNCHANGED <<up, row, vapi, sess, fin, hooks, lost, unheard, missed, faults>>

\* send_instruction is best effort on every engine.
Steer(r) ==
    /\ req[r].pc = "act" /\ req[r].kind = "steer"
    /\ Goto(r, "commit")
    /\ UNCHANGED <<up, row, lock, vapi, sess, fin, hooks, lost, unheard, missed, faults>>

\* What Vapi sends when a call is over.
EndHooks(c) ==
    {h \in Hooks : /\ h.call = c /\ h.kind \in Traffic
                   /\ \/ h.kind = "status-update" /\ h.val = "ended"
                      \/ h.kind = "end-of-call-report" /\ h.val = "ok"}

\* DELETE /call/{id}; 404 means the call is over already.
StopVapi(r) ==
    LET c == req[r].call IN
    /\ req[r].pc = "act" /\ req[r].kind = "stop" /\ Engine(req[r].route) = "vapi"
    /\ vapi' = [vapi EXCEPT ![c] = "ended"]
    /\ hooks' = IF vapi[c] = "ended" THEN hooks ELSE hooks \cup EndHooks(c)
    /\ req' = [req EXCEPT ![r].pc = "save", ![r].st = "STOPPED"]
    /\ UNCHANGED <<up, row, lock, sess, fin, lost, unheard, missed, faults>>

\* Mutant of StopVapiFails: the error is logged, and the call marked.
StopVapiFailsQuietly(r) ==
    /\ req[r].pc = "act" /\ req[r].kind = "stop" /\ Engine(req[r].route) = "vapi"
    /\ req' = [req EXCEPT ![r].pc = "save", ![r].st = "STOPPED"]
    /\ UNCHANGED <<up, row, lock, vapi, sess, fin, hooks, lost, unheard, missed, faults>>

\* DELETE fails: the request raises and everything it wrote is rolled back.
StopVapiFails(r) ==
    /\ req[r].pc = "act" /\ req[r].kind = "stop" /\ Engine(req[r].route) = "vapi"
    /\ Done(r)
    /\ UNCHANGED <<up, row, vapi, sess, fin, hooks, lost, unheard, missed, faults>>

\* terminate_session on the worker that has the session: the request waits
\* until finalize_call is through.
StopDirect(r) ==
    LET c == req[r].call IN
    /\ req[r].pc = "act" /\ req[r].kind = "stop" /\ Engine(req[r].route) = "direct"
    /\ sess[c] = "live"
    /\ sess' = [sess EXCEPT ![c] = "gone"]
    /\ fin' = [fin EXCEPT ![c] = [pc |-> "due", st |-> "STOPPED"]]
    /\ Goto(r, "await")
    /\ UNCHANGED <<up, row, lock, vapi, hooks, lost, unheard, missed, faults>>

\* The session is over, or lives on another worker, or the engine is not
\* configured any more (the stub takes the call): nothing is done, and the call
\* is marked STOPPED all the same.
StopNobody(r) ==
    LET c == req[r].call IN
    /\ req[r].pc = "act" /\ req[r].kind = "stop" /\ Engine(req[r].route) # "vapi"
    /\ req' = [req EXCEPT ![r].pc = "save", ![r].st = "STOPPED"]
    /\ unheard' = IF LegUp(c, req[r].route) THEN unheard \cup {c} ELSE unheard
    /\ UNCHANGED <<up, row, lock, vapi, sess, fin, hooks, lost, missed, faults>>

Stopped(r) ==
    /\ req[r].pc = "await" /\ fin[req[r].call].pc = "done"
    /\ req' = [req EXCEPT ![r].pc = "save", ![r].st = "STOPPED"]
    /\ UNCHANGED <<up, row, lock, vapi, sess, fin, hooks, lost, unheard, missed, faults>>

Save(r) ==
    LET c == req[r].call IN
    /\ req[r].pc = "save" /\ Free(c, r)
    /\ lock' = [lock EXCEPT ![c] = r]
    /\ Goto(r, "commit")
    /\ UNCHANGED <<up, row, vapi, sess, fin, hooks, lost, unheard, missed, faults>>

\* get_db commits what was written (the row is locked if something was).  A
\* steer that found the call over raises instead: the refresh is rolled back.
Commit(r) ==
    LET c == req[r].call
        written == lock[c] = r /\ ~(req[r].kind = "steer" /\ req[r].st \in Terminal) IN
    /\ req[r].pc = "commit"
    /\ row' = IF written THEN [row EXCEPT ![c].st = req[r].st] ELSE row
    /\ Done(r)
    /\ UNCHANGED <<up, vapi, sess, fin, hooks, lost, unheard, missed, faults>>

-----------------------------------------------------------------------------
(* finalize_call and the end of a Direct session                           *)

\* The customer hangs up, the model goes away, the leg fails.
SessionEnds(c) ==
    /\ sess[c] = "live"
    /\ sess' = [sess EXCEPT ![c] = "gone"]
    /\ \E st \in {"COMPLETED", "FAILED"} :
         fin' = [fin EXCEPT ![c] = [pc |-> "due", st |-> st]]
    /\ UNCHANGED <<up, row, lock, req, vapi, hooks, lost, unheard, missed, faults>>

\* The row is not there yet, or ended by somebody else: nothing to do.
FinalizeRead(c) ==
    /\ fin[c].pc = "due"
    /\ Serial => \A r \in Writers(c) : req[r].pc = "await"
    /\ fin' = [fin EXCEPT ![c].pc = IF Live(c) THEN "write" ELSE "done"]
    /\ UNCHANGED <<up, row, lock, req, vapi, sess, hooks, lost, unheard, missed, faults>>

FinalizeWrite(c) ==
    /\ fin[c].pc = "write" /\ lock[c] = NoRequest
    /\ row' = [row EXCEPT ![c].st = fin[c].st]
    /\ fin' = [fin EXCEPT ![c].pc = "done"]
    /\ UNCHANGED <<up, lock, req, vapi, sess, hooks, lost, unheard, missed, faults>>

\* Errors are logged and swallowed.
FinalizeFails(c) ==
    /\ fin[c].pc \in {"due", "write"}
    /\ Fault
    /\ fin' = [fin EXCEPT ![c].pc = "done"]
    /\ UNCHANGED <<up, row, lock, req, vapi, sess, hooks, lost, unheard, missed>>

-----------------------------------------------------------------------------
(* Vapi and its webhooks                                                   *)

Sent(c, kind, val) ==
    IF kind \in Traffic THEN {[call |-> c, kind |-> kind, val |-> val]} ELSE {}

\* The order in which a call passes through its statuses.
Before(s) ==
    CASE s = "ringing" -> {"queued"}
      [] s = "in-progress" -> {"queued", "ringing"}
      [] s = "forwarding" -> {"in-progress"}

VapiMoves(c) ==
    /\ \E s \in Stages :
         /\ vapi[c] \in Before(s)
         /\ vapi' = [vapi EXCEPT ![c] = s]
         /\ hooks' = hooks \cup Sent(c, "status-update", s)
    /\ UNCHANGED <<up, row, lock, req, sess, fin, lost, unheard, missed, faults>>

VapiAsksForManager(c) ==
    /\ vapi[c] = "in-progress"
    /\ "transfer-destination-request" \in Traffic
    /\ hooks' = hooks \cup Sent(c, "transfer-destination-request", "none")
    /\ UNCHANGED <<up, row, lock, req, vapi, sess, fin, lost, unheard, missed, faults>>

VapiEnds(c) ==
    /\ vapi[c] \notin {"none", "ended"}
    /\ vapi' = [vapi EXCEPT ![c] = "ended"]
    /\ \E reason \in {"ok", "error"} :
         hooks' = hooks \cup Sent(c, "status-update", "ended")
                        \cup Sent(c, "end-of-call-report", reason)
                        \cup (IF reason = "ok" THEN Sent(c, "hang", "none") ELSE {})
    /\ UNCHANGED <<up, row, lock, req, sess, fin, lost, unheard, missed, faults>>

\* _handle_end_of_call: the reason tells how the call ended.
EndOfCall(h) == IF h.val = "error" THEN "FAILED" ELSE "COMPLETED"

\* The status a webhook gives the call (_route and the handlers).
NewStatus(h) ==
    CASE h.kind = "status-update" -> StatusOf(h.val)
      [] h.kind = "end-of-call-report" -> EndOfCall(h)
      [] h.kind = "hang" -> "FAILED"
      [] h.kind = "transfer-destination-request" -> "NEEDS_TRANSFER"

\* Mutant of HookApplies: no check that the call is over.
HookAppliesAlways(h) == row[h.call].route = "vapi"

\* Mutant of HookApplies: only a conversation can end.
HookAppliesTalking(h) == row[h.call].route = "vapi" /\ row[h.call].st = "IN_PROGRESS"

\* A webhook finds its call by vapi_call_id among the committed rows and is
\* ignored when the call is over.
HookApplies(h) == row[h.call].route = "vapi" /\ Live(h.call)

\* POST /webhooks/vapi, answered with 200 whatever becomes of it.  Vapi may send
\* the same event again: nothing recognises it.
Deliver(r, h, again) ==
    LET c == h.call IN
    /\ h \in hooks
    /\ req[r] = Idle
    /\ Turn(c)
    /\ hooks' = IF again THEN hooks ELSE hooks \ {h}
    /\ req' = IF HookApplies(h)
              THEN [req EXCEPT ![r] = [pc |-> "flush", kind |-> "hook", call |-> c,
                                       st |-> NewStatus(h), route |-> "vapi"]]
              ELSE req
    /\ missed' = IF row[c].st = "none" /\ ~again /\ NewStatus(h) \in Terminal
                 THEN missed \cup {c} ELSE missed
    /\ UNCHANGED <<up, row, lock, vapi, sess, fin, lost, unheard, faults>>

-----------------------------------------------------------------------------
(* The surroundings                                                        *)

\* The transfer of a Direct call commits (WarmTransfer has the details).
HandOver(c) ==
    /\ row[c].st = "IN_PROGRESS" /\ row[c].route = "direct"
    /\ lock[c] = NoRequest /\ Turn(c)
    /\ row' = [row EXCEPT ![c].st = "CONNECTED_TO_MANAGER"]
    /\ UNCHANGED <<up, lock, req, vapi, sess, fin, hooks, lost, unheard, missed, faults>>

\* The application is restarted with other engines configured, at a moment when
\* no session runs (SessionLease is about the others).
Reconfigure ==
    /\ \A r \in Requests : req[r] = Idle
    /\ \A c \in Calls : sess[c] # "live" /\ fin[c].pc \in {"none", "done"}
    /\ up' \in Configs \ {up}
    /\ UNCHANGED <<row, lock, req, vapi, sess, fin, hooks, lost, unheard, missed, faults>>

Step(r) ==
    \/ DialVapi(r) \/ DialDirect(r) \/ DialStub(r)
    \/ DialRefused(r) \/ DialAnswerLost(r)
    \/ CommitCreate(r) \/ CommitCreateFails(r)
    \/ Probe(r) \/ Flush(r) \/ Steer(r) \/ Stopped(r) \/ Save(r) \/ Commit(r)
    \/ StopVapi(r) \/ StopVapiFails(r) \/ StopDirect(r) \/ StopNobody(r)

Finalize(c) == FinalizeRead(c) \/ FinalizeWrite(c) \/ FinalizeFails(c)

Next ==
    \/ \E r \in Requests :
         \/ Step(r)
         \/ \E c \in Calls : Create(r, c)
         \/ \E c \in Calls : \E kind \in {"get", "stop", "steer"} : Begin(r, c, kind)
         \/ \E h \in hooks : \E again \in BOOLEAN : Deliver(r, h, again)
    \/ \E c \in Calls :
         \/ SessionEnds(c) \/ Finalize(c) \/ HandOver(c)
         \/ VapiMoves(c) \/ VapiAsksForManager(c) \/ VapiEnds(c)
    \/ Reconfigure

\* One of the webhooks that end the call is taken.
DeliverEnd(c) ==
    \E r \in Requests : \E again \in BOOLEAN :
        \E h \in {k \in hooks : k.call = c /\ NewStatus(k) \in Terminal} :
            Deliver(r, h, again)

\* Requests and finalizers run on, the database serves those who wait for a row
\* lock in turn, and Vapi repeats a webhook until it is taken.
Fairness ==
    /\ \A r \in Requests : WF_vars(Step(r))
    /\ \A c \in Calls : SF_vars(Finalize(c))
    /\ \A c \in Calls : SF_vars(DeliverEnd(c))

Spec == Init /\ [][Next]_vars /\ Fairness

-----------------------------------------------------------------------------
(* Properties                                                              *)

\* A call marked STOPPED is silent: the engine it was made with has nobody on
\* the line any more, however stops, refreshes, webhooks and finalizers of the
\* call interleave, except when the stop reached no engine (stop_call,
\* _resolve_for_existing_call).
StopHeard ==
    \A c \in Calls \ unheard : row[c].st = "STOPPED" => ~LegUp(c, row[c].route)

\* "If the original engine is gone, we log a warning and raise rather than silently
\* no-op through stub.  Stopping a call must not be lost" (router_engine.py).  The
\* warning is logged, nothing is raised, and the stub takes the stop.
NoSilentStub ==
    \A c \in Calls : row[c].st = "STOPPED" /\ row[c].route \notin up => ~LegUp(c, row[c].route)

\* A customer is called by at most one engine for one call, and a leg that is up
\* after its creation is over has a row to stop it by, unless an answer of the
\* provider or the commit was lost (initiate_call's fallback, create_call).
OneLeg ==
    \A c \in Calls \ lost :
        /\ ~(LegUp(c, "vapi") /\ LegUp(c, "direct"))
        /\ (LegUp(c, "vapi") \/ LegUp(c, "direct")) =>
              \/ row[c].st # "none"
              \/ \E r \in Requests : req[r].call = c /\ req[r].kind = "create"

\* As long as creations take turns there are never more live calls than
\* rate_limit_max_concurrent_calls, the statuses of a transfer included
\* (_check_max_concurrent_calls).
CapHolds == Serial => Cardinality({c \in Calls : Live(c)}) <= Cap

\* "Max active calls" (env_reference.md), whoever asks when.  Creations that
\* overlap pass the count together: each sees only the rows that are committed.
CapAlwaysHolds == Cardinality({c \in Calls : Live(c)}) <= Cap

\* The call has ended and nobody who saw it live can still write it.
Settled(c) ==
    row[c].st \in Terminal /\ Writers(c) = {} /\ fin[c].pc # "write"

\* Once a call has ended and the requests that saw it live are through, nothing
\* ever begins to write it again: late and repeated webhooks, stops and refreshes
\* all leave it alone (the is_terminal checks of service, processor, finalizer).
SettledStays ==
    [][\A c \in Calls : Settled(c) => Settled(c)' /\ row'[c] = row[c]]_vars

Abstract == INSTANCE CallStatus WITH
    status <- [c \in Calls |-> IF Live(c) THEN "live" ELSE row[c].st]

\* As long as the writers of a row take turns, the status of a call is what
\* CallStatus says: live, then one terminal status for good (TERMINAL_STATUSES).
ImplementsCallStatus == Abstract!Spec

\* "Terminal statuses - no further transitions allowed" (models/call.py): a call
\* that has ended is never live again.  It is, when get_call asks the engine, waits
\* for the answer, and writes it over the end that was committed meanwhile.
NeverLiveAgain == [][\A c \in Calls : row[c].st \in Terminal => ~Live(c)']_vars

\* A call that ended at Vapi ends in the database too, whatever the order of its
\* webhooks, unless they were all answered before its row was committed
\* (create_call commits after Vapi has placed the call; process drops an event
\* without a call).
EndNoticed ==
    \A c \in Calls :
        (vapi[c] = "ended" /\ row[c].route = "vapi" /\ c \notin missed)
            ~> (row[c].st \in Terminal \/ c \in missed)

=============================================================================
