----------------------------- MODULE MangoEvents -----------------------------
(***************************************************************************)
(* The webhooks of Mango and of the FreeSWITCH dialplan: what they do to   *)
(* the calls in the database, and how they start an inbound call.          *)
(*                                                                         *)
(* A request is one database transaction.  It marks its event as seen      *)
(* first (in Redis, outside the transaction), finds the call, changes it   *)
(* by the row it has read, looks for an agent of the number that was       *)
(* called, and starts a session on the leg if the database knows no call   *)
(* for it.  All of that is visible to others when it commits.  An          *)
(* exception rolls the transaction back; the mark stays.                   *)
(*                                                                         *)
(* Two legs: "out" belongs to the outbound call Out, "in" is an incoming   *)
(* one.  What the events do to the leg stores is in MangoDial.             *)
(***************************************************************************)
EXTENDS Integers, FiniteSets

CONSTANTS
    Events,      \* events of the provider
    Requests,    \* requests the server works on at a time
    Inbound,     \* identities for inbound calls
    Kinds,       \* what the events say: [via, leg, state, bridge, whisper, found, routed, key]
    NoKind, NoEvent, NoCall,
    MaxCopies,   \* how often one event may be delivered
    MaxFaults    \* how many requests fail on the way

ASSUME InboundAssumption == "out" \notin Inbound
ASSUME NoneAssumption == NoKind \notin Kinds /\ NoEvent \notin Events
                         /\ NoCall \notin Inbound \cup {"out"}
ASSUME BoundsAssumption == MaxCopies \in Nat /\ MaxFaults \in Nat

VARIABLES
    serial,    \* do the requests take turns
    kind,      \* event -> what it says
    copies,    \* event -> deliveries that are still to come
    seen,      \* Redis: keys of the events marked as seen
    req,       \* request -> its local state
    row,       \* database: call -> committed [st, leg]
    xfer,      \* database: status of the transfer of the outbound call
    applied,   \* history: event -> how often its effects were committed
    started,   \* history: sessions started on the incoming leg
    forgotten, \* history: those whose row was rolled back
    faults

vars == <<serial, kind, copies, seen, req, row, xfer, applied, started, forgotten, faults>>

Calls == Inbound \cup {"out"}
Terminal == {"COMPLETED", "FAILED", "STOPPED"}
Statuses == Terminal \cup {"none", "QUEUED", "RINGING", "IN_PROGRESS", "TRANSFERRING",
                           "CONNECTED_TO_MANAGER"}
LegStates == {"none", "RINGING", "ANSWERED", "FAILED", "TERMINATED"}
Ended == {"FAILED", "TERMINATED"}
Legs == {"none", "direct", "out", "in"}
Transfers == {"none", "open", "unanswered", "connected", "failed"}

\* what the report of a failed whisper overrules: no manager answered, or none was available, too
Unsettled == {"open", "unanswered"}

ASSUME KindsAssumption ==
    Kinds \subseteq [via : {"mango", "dialplan"}, leg : {"out", "in"}, state : LegStates,
                     bridge : {"none", "bridge_confirmed"},
                     whisper : {"none", "whisper_failed"},
                     found : {"call_id", "leg", "phone"},
                     routed : BOOLEAN, key : {"event_id", "uid"}]

\* the number called on an outbound leg is the customer's, and no line of ours
ASSUME RoutedAssumption == \A k \in Kinds : k.routed => k.leg = "in"

Idle == [pc |-> "idle", ev |-> NoEvent, call |-> NoCall, st |-> "none", leg |-> "none",
         was |-> "none", xfer |-> "none", new |-> NoCall, did |-> 0]

\* provider_event_id: the event's own id, or the first id the payload has
Key(e) == IF kind[e].key = "event_id" THEN e ELSE kind[e].leg

Init ==
    /\ serial \in BOOLEAN
    /\ kind = [e \in Events |-> NoKind]
    /\ copies = [e \in Events |-> 0]
    /\ seen = {}
    /\ req = [r \in Requests |-> Idle]
    /\ row = [c \in Calls |-> [st |-> "none", leg |-> "none"]]
    /\ xfer = "none"
    /\ applied = [e \in Events |-> 0]
    /\ started = 0 /\ forgotten = 0 /\ faults = 0

-----------------------------------------------------------------------------
(* Mango sends events, in any order and possibly more than once.           *)

Sends(e) ==
    /\ kind[e] = NoKind
    /\ \E k \in Kinds : kind' = [kind EXCEPT ![e] = k]
    /\ \E n \in 1..MaxCopies : copies' = [copies EXCEPT ![e] = n]
    /\ UNCHANGED <<serial, seen, req, row, xfer, applied, started, forgotten, faults>>

Others == <<serial, kind, xfer, applied, started, forgotten, faults>>

Turn == serial => \A r \in Requests : req[r].pc = "idle"

mango_webhook(r, e) ==
    /\ req[r].pc = "idle" /\ Turn
    /\ copies[e] > 0 /\ kind[e].via = "mango"
    /\ copies' = [copies EXCEPT ![e] = @ - 1]
    /\ req' = [req EXCEPT ![r].pc = "mark", ![r].ev = e]
    /\ UNCHANGED <<seen, row>> /\ UNCHANGED Others

\* the dialplan reports an incoming leg: nothing to deduplicate or to apply
freeswitch_inbound_sip(r, e) ==
    /\ req[r].pc = "idle" /\ Turn
    /\ copies[e] > 0 /\ kind[e].via = "dialplan"
    /\ copies' = [copies EXCEPT ![e] = @ - 1]
    /\ req' = [req EXCEPT ![r].pc = "route", ![r].ev = e]
    /\ UNCHANGED <<seen, row>> /\ UNCHANGED Others

\* no JSON, or the guard says no: answered at once
WebhookRefused(e) ==
    /\ copies[e] > 0
    /\ copies' = [copies EXCEPT ![e] = @ - 1]
    /\ UNCHANGED <<seen, req, row>> /\ UNCHANGED Others

-----------------------------------------------------------------------------
(* MangoEventProcessor.process.                                            *)

\* Mutant of mark_event_seen: the event is looked up first and marked at the end of the request
MarkLooksOnly(r) ==
    /\ req[r].pc = "mark"
    /\ req' = [req EXCEPT ![r].pc = IF Key(req[r].ev) \in seen THEN "route" ELSE "correlate"]
    /\ UNCHANGED <<copies, seen, row>> /\ UNCHANGED Others

\* SET NX; a duplicate is not applied, but the request goes on to the routing
mark_event_seen(r) ==
    /\ req[r].pc = "mark"
    /\ seen' = seen \cup {Key(req[r].ev)}
    /\ req' = [req EXCEPT ![r].pc = IF Key(req[r].ev) \in seen THEN "route" ELSE "correlate"]
    /\ UNCHANGED <<copies, row>> /\ UNCHANGED Others

WithLeg(l) == {c \in Calls : row[c].st # "none" /\ row[c].leg = l}

\* scalar_one_or_none: two rows are an error
Ambiguous(l) == Cardinality(WithLeg(l)) > 1

\* the calls an event may be about: the one it names, the one with its leg, or an
\* active one with one of its phone numbers
Found(k) ==
    IF k.found = "call_id" /\ row["out"].st # "none" THEN {"out"}
    ELSE IF WithLeg(k.leg) # {} THEN WithLeg(k.leg)
    ELSE IF k.found = "phone" /\ row["out"].st \notin Terminal \cup {"none"} THEN {"out"}
    ELSE {}

\* _correlate; the status that _apply_call_state goes by is the one read here
Correlate(r) ==
    LET k == kind[req[r].ev]
    IN  /\ req[r].pc = "correlate"
        /\ Found(k) = {"out"} \/ ~Ambiguous(k.leg)
        /\ IF Found(k) = {}
           THEN req' = [req EXCEPT ![r].pc = "route", ![r].did = 1]
           ELSE \E c \in Found(k) :
                req' = [req EXCEPT ![r].pc = "apply", ![r].call = c, ![r].st = row[c].st, ![r].was = row[c].st,
                                   ![r].leg = row[c].leg,
                                   ![r].xfer = IF c = "out" THEN xfer ELSE "none"]
        /\ UNCHANGED <<copies, seen, row>> /\ UNCHANGED Others

\* Mutant of AfterEvent: the end of a leg is applied whatever the call has come to
AfterEventUnguarded(st, k) ==
    IF k.state \in Ended THEN IF k.state = "FAILED" THEN "FAILED" ELSE "COMPLETED"
    ELSE IF k.state = "ANSWERED" /\ st \in {"QUEUED", "RINGING"} THEN "IN_PROGRESS"
    ELSE st

\* _apply_call_state, and _maybe_promote_real_telephony_leg
AfterEvent(st, k) ==
    IF k.state = "RINGING" /\ st = "QUEUED" THEN "RINGING"
    ELSE IF k.state = "ANSWERED" /\ st \in {"QUEUED", "RINGING"} THEN "IN_PROGRESS"
    ELSE IF k.state \in Ended /\ st \notin Terminal \cup {"CONNECTED_TO_MANAGER"}
         THEN IF k.state = "FAILED" THEN "FAILED" ELSE "COMPLETED"
    ELSE st

Promoted(leg, st, k) ==
    IF st # AfterEvent(st, k) /\ k.state \in Ended \cup {"ANSWERED"} /\ leg \in {"direct", "none"}
    THEN k.leg ELSE leg

apply_call_state(r) ==
    LET k == kind[req[r].ev]
        st1 == AfterEvent(req[r].st, k)
        confirmed == k.bridge = "bridge_confirmed" /\ req[r].xfer = "open"
        failed == k.whisper = "whisper_failed" /\ req[r].xfer \in Unsettled /\ ~confirmed
    IN  /\ req[r].pc = "apply"
        /\ req' = [req EXCEPT
              ![r].pc = "route", ![r].did = 1,
              ![r].leg = Promoted(@, req[r].st, k),
              ![r].xfer = IF confirmed THEN "connected" ELSE IF failed THEN "failed" ELSE @,
              ![r].st = IF confirmed THEN "CONNECTED_TO_MANAGER"
                        ELSE IF failed THEN "STOPPED" ELSE st1]
        /\ UNCHANGED <<copies, seen, row>> /\ UNCHANGED Others

-----------------------------------------------------------------------------
(* resolve_inbound, ensure_inbound_call and ensure_inbound_sip_call.       *)

Launches(k) == k.routed /\ k.state \notin Ended

\* no agent for the number, an event of a leg that has ended, or a call for the
\* leg already
NotLaunched(r) ==
    LET k == kind[req[r].ev]
    IN  /\ req[r].pc = "route"
        /\ ~Launches(k) \/ Cardinality(WithLeg(k.leg)) = 1
        /\ req' = [req EXCEPT ![r].pc = "commit"]
        /\ UNCHANGED <<copies, seen, row>> /\ UNCHANGED Others

\* Mutant of Launch: the call of the leg is not looked up
LaunchWithoutLookup(r) ==
    LET k == kind[req[r].ev]
    IN  /\ req[r].pc = "route"
        /\ Launches(k)
        /\ \E c \in Inbound :
            /\ row[c].st = "none" /\ \A q \in Requests : req[q].new # c
            /\ req' = [req EXCEPT ![r].pc = "commit", ![r].new = c]
        /\ started' = started + 1
        /\ UNCHANGED <<serial, kind, copies, seen, row, xfer, applied, forgotten, faults>>

\* create_call starts the session on the leg; the row is still the request's own
Launch(r) ==
    LET k == kind[req[r].ev]
    IN  /\ req[r].pc = "route"
        /\ Launches(k) /\ WithLeg(k.leg) = {}
        /\ \E c \in Inbound :
            /\ row[c].st = "none" /\ \A q \in Requests : req[q].new # c
            /\ req' = [req EXCEPT ![r].pc = "commit", ![r].new = c]
        /\ started' = started + 1
        /\ UNCHANGED <<serial, kind, copies, seen, row, xfer, applied, forgotten, faults>>

ensure_inbound_call(r) ==
    req[r].ev # NoEvent /\ kind[req[r].ev].via = "mango" /\ Launch(r)

ensure_inbound_sip_call(r) ==
    req[r].ev # NoEvent /\ kind[req[r].ev].via = "dialplan" /\ Launch(r)

\* get_db commits: the columns that have changed are written over what is there
Commit(r) ==
    LET q == req[r]
        k == kind[q.ev]
        written == [c \in Calls |->
            IF c = q.new THEN [st |-> "IN_PROGRESS", leg |-> k.leg]
            ELSE IF c = q.call /\ q.st # q.was THEN [st |-> q.st, leg |-> q.leg] ELSE row[c]]
    IN  /\ q.pc = "commit"
        /\ row' = written
        /\ xfer' = IF q.call = "out" /\ q.xfer \in {"connected", "failed"} THEN q.xfer ELSE xfer
        /\ applied' = [applied EXCEPT ![q.ev] = @ + q.did]
        /\ req' = [req EXCEPT ![r] = Idle]
        /\ UNCHANGED <<serial, kind, copies, seen, started, forgotten, faults>>

\* The database, Redis or the engine raises, or two rows have the leg: the
\* transaction is rolled back.  A session that was started goes on without a row.
RequestFails(r) ==
    /\ req[r].pc \notin {"idle", "mark"}
    /\ \/ faults < MaxFaults /\ faults' = faults + 1
       \/ req[r].pc \in {"correlate", "route"} /\ Ambiguous(kind[req[r].ev].leg) /\ UNCHANGED faults
    /\ forgotten' = IF req[r].new # NoCall THEN forgotten + 1 ELSE forgotten
    /\ req' = [req EXCEPT ![r] = Idle]
    /\ UNCHANGED <<serial, kind, copies, seen, row, xfer, applied, started>>

-----------------------------------------------------------------------------
(* The rest of the application.                                            *)

AppRest == <<serial, kind, copies, seen, req, applied, started, forgotten, faults>>

\* create_call of the outbound call commits
OutboundCommits ==
    /\ row["out"].st = "none"
    /\ \E s \in {"QUEUED", "IN_PROGRESS"}, l \in {"direct", "none"} :
           row' = [row EXCEPT !["out"] = [st |-> s, leg |-> l]]
    /\ UNCHANGED xfer /\ UNCHANGED AppRest

\* what a transfer may leave in the database: it is under way, or no manager answered
TransferOpens ==
    /\ Turn /\ row["out"].st = "IN_PROGRESS" /\ xfer = "none"
    /\ xfer' \in Unsettled
    /\ row' = [row EXCEPT !["out"].st = IF xfer' = "open" THEN "TRANSFERRING" ELSE "STOPPED"]
    /\ UNCHANGED AppRest

\* finalize_call of the session's own end
SessionEnds(c) ==
    /\ Turn /\ row[c].st \notin Terminal \cup {"none"}
    /\ row' = [row EXCEPT ![c].st = "COMPLETED"]
    /\ UNCHANGED xfer /\ UNCHANGED AppRest

-----------------------------------------------------------------------------
Next ==
    \/ \E e \in Events : Sends(e) \/ WebhookRefused(e)
                         \/ \E r \in Requests : mango_webhook(r, e) \/ freeswitch_inbound_sip(r, e)
    \/ \E r \in Requests :
        \/ mark_event_seen(r) \/ Correlate(r) \/ apply_call_state(r)
        \/ NotLaunched(r) \/ ensure_inbound_call(r) \/ ensure_inbound_sip_call(r) \/ Commit(r) \/ RequestFails(r)
    \/ OutboundCommits \/ TransferOpens
    \/ \E c \in Calls : SessionEnds(c)

Spec == Init /\ [][Next]_vars

-----------------------------------------------------------------------------
(* Properties.                                                             *)

Locals == [pc : {"idle", "mark", "correlate", "apply", "route", "commit"},
           ev : Events \cup {NoEvent}, call : Calls \cup {NoCall},
           st : Statuses, leg : Legs, was : Statuses, xfer : Transfers,
           new : Inbound \cup {NoCall}, did : {0, 1}]

TypeOK ==
    /\ serial \in BOOLEAN
    /\ kind \in [Events -> Kinds \cup {NoKind}]
    /\ copies \in [Events -> 0..MaxCopies]
    /\ req \in [Requests -> Locals]
    /\ row \in [Calls -> [st : Statuses, leg : Legs]]
    /\ xfer \in Transfers
    /\ applied \in [Events -> Nat]
    /\ started \in Nat /\ forgotten \in Nat /\ faults \in 0..MaxFaults

\* However often an event is delivered, and by however many requests at once, its
\* effect on a call is committed at most once (docs/mango_control_plane.md:
\* "deduplicates by event_id").
AppliedOnce == \A e \in Events : applied[e] =< 1

\* As long as requests take turns a leg gets one session, unless the row of the
\* first was rolled back.
OneSession == serial => started =< 1 + forgotten

\* "RINGING may arrive 2-3 times.  All state updates must be idempotent"
\* (TELEPHONY_ARCHITECTURE.md), however the requests overlap: but two of them look
\* for a call of the leg before either has committed one.
OneSessionAlways == started =< 1 + forgotten

\* As long as requests take turns a call that is over stays as it is, except that
\* the report of a bridge or of a whisper overrules it while its transfer is not
\* settled (_apply_call_state asks the transfer there, not the call).
OverStays ==
    [][serial => \A c \in Calls :
           row[c].st \in Terminal =>
               row'[c].st = row[c].st \/ (c = "out" /\ xfer \in Unsettled /\ xfer' # xfer)]_vars

=============================================================================
