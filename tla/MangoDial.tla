------------------------------ MODULE MangoDial ------------------------------
(***************************************************************************)
(* How MangoTelephonyAdapter dials one leg and learns whether it was       *)
(* answered.  Three writers share two stores: the dialling coroutine       *)
(* (connect or originate_call and wait_for_answered), the ESL reader of    *)
(* the media gateway (_apply_correlation_only_event) and the webhook       *)
(* handler (MangoEventProcessor.process).                                  *)
(*                                                                         *)
(* The leg store keeps one state for an id and is overwritten blindly.     *)
(* The correlation store keeps a Redis hash for the leg; every update      *)
(* reads the whole hash, merges and writes all of it back, with an await   *)
(* in between.  (Without Redis a lock makes the three steps one: a subset  *)
(* of these behaviours.)                                                   *)
(*                                                                         *)
(* Ids: "leg" is the id the call was placed with ("direct-..."), "real"    *)
(* the uuid FreeSWITCH reports for it later, "child" an auxiliary channel  *)
(* that carries the leg's origination uuid, "mango" the provider's id.     *)
(***************************************************************************)
EXTENDS Integers, Sequences

CONSTANTS
    MaxHooks,    \* how many webhooks Mango sends
    MaxWire,     \* ESL events that are not read yet
    MaxChild,    \* how many events of auxiliary channels there are
    ChildStates  \* and which: created, answered, hung up

ASSUME MaxHooksAssumption == MaxHooks \in Nat
ASSUME MaxWireAssumption == MaxWire \in Nat
ASSUME MaxChildAssumption == MaxChild \in Nat
ASSUME ChildStatesAssumption == ChildStates \subseteq {"INITIATING", "ANSWERED", "TERMINATED"}

VARIABLES
    sip,      \* _is_mango_sip_trunk_configured: SIP through FreeSWITCH, else the REST API
    line,     \* the customer's phone
    answered, \* history: it was picked up
    wire,     \* ESL events on their way to the reader
    hooks,    \* webhooks on their way
    sent,     \* [hooks, child], how many were sent
    store,    \* AbstractMangoLegStateStore: id -> state
    corr,     \* the hash of the leg in the correlation store
    op,       \* actor -> the update of corr it is in the middle of
    pc,       \* actor -> where it is
    val,      \* dialler: the state or uuid it has just read
    cur,      \* [esl, hook], the event being applied
    channel,  \* provider_leg_id of the TelephonyChannel that connect returned
    misled,   \* history: an event of an auxiliary channel was taken for the leg's
    early,    \* history: the reply to originate was taken for an answer nobody gave yet
    killLost  \* history: the command to hang up did not arrive

dialVars == <<sip, line, answered, wire, hooks, sent, store, corr, op, pc, val, cur,
          channel, misled, early, killLost>>

Ids == {"leg", "real", "child", "mango"}
TelephonyLegState == {"INITIATING", "RINGING", "ANSWERED", "BRIDGED", "FAILED", "TERMINATED"}
Accepted == {"ANSWERED", "BRIDGED"}
EndStates == {"FAILED", "TERMINATED"}
Actors == {"dial", "esl", "hook"}
NoReport == [state |-> "none", id |-> "none"]

-----------------------------------------------------------------------------
(* The correlation hash.  A field that is absent reads as "none".          *)

Fields == {"mango_state", "freeswitch_state", "effective_state", "freeswitch_uuid",
           "answered_seen", "bridged_seen"}
NoFields == [f \in Fields |-> "none"]

\* the fields of the patch over those of the hash
Over(patch, h) == [f \in Fields |-> IF patch[f] = "none" THEN h[f] ELSE patch[f]]

NoOp == [at |-> "none", patch |-> NoFields, copy |-> NoFields]

Rank == [s \in TelephonyLegState |->
    CASE s = "TERMINATED" -> 1 [] s = "FAILED" -> 2 [] s = "BRIDGED" -> 3
      [] s = "ANSWERED" -> 4 [] s = "RINGING" -> 5 [] s = "INITIATING" -> 6]

effective_state(m, f) ==
    LET known == {m, f} \ {"none"}
    IN  IF known = {} THEN "none"
        ELSE CHOOSE s \in known : \A t \in known : Rank[s] =< Rank[t]

Merged(patch, copy) ==
    LET merged == Over(patch, copy)
        eff == effective_state(merged["mango_state"], merged["freeswitch_state"])
    IN  IF eff = "none" THEN merged ELSE [merged EXCEPT !["effective_state"] = eff]

Seen(h, states, flag) ==
    IF h[flag] = "1" \/ h["mango_state"] \in states \/ h["freeswitch_state"] \in states
    THEN "1" ELSE "0"

Flags(state) ==
    [NoFields EXCEPT !["answered_seen"] = IF state \in Accepted THEN "1" ELSE "none",
                     !["bridged_seen"] = IF state = "BRIDGED" THEN "1" ELSE "none"]

upsert_mapping(uuid) ==
    [at |-> "get", patch |-> [NoFields EXCEPT !["freeswitch_uuid"] = uuid], copy |-> NoFields]

set_mango_state(state) ==
    [at |-> "read", patch |-> [Flags(state) EXCEPT !["mango_state"] = state], copy |-> NoFields]

set_freeswitch_state(state, uuid) ==
    [at |-> "read", copy |-> NoFields,
     patch |-> [Flags(state) EXCEPT !["freeswitch_state"] = state, !["freeswitch_uuid"] = uuid]]

\* upsert_mapping takes its two flags from a look of its own just before
\* _merge_and_store's; both looks are one step here
OpRead(a) ==
    /\ op[a].at \in {"get", "read"}
    /\ LET patch == IF op[a].at = "read" THEN op[a].patch
                    ELSE [op[a].patch EXCEPT
                            !["answered_seen"] = Seen(corr, Accepted, "answered_seen"),
                            !["bridged_seen"] = Seen(corr, {"BRIDGED"}, "bridged_seen")]
       IN  op' = [op EXCEPT ![a] = [at |-> "write", patch |-> patch, copy |-> corr]]
    /\ UNCHANGED <<sip, line, answered, wire, hooks, sent, store, corr, pc, val, cur,
                   channel, misled, early, killLost>>

OpWrite(a) ==
    /\ op[a].at = "write"
    /\ corr' = Over(Merged(op[a].patch, op[a].copy), corr)
    /\ op' = [op EXCEPT ![a] = NoOp]
    /\ UNCHANGED <<sip, line, answered, wire, hooks, sent, store, pc, val, cur, channel,
                   misled, early, killLost>>

At(a, label) == pc[a] = label /\ op[a].at = "none"

-----------------------------------------------------------------------------
DialInit ==
    /\ sip \in BOOLEAN
    /\ line = "idle" /\ answered = FALSE
    /\ wire = <<>> /\ hooks = {} /\ sent = [hooks |-> 0, child |-> 0]
    /\ store = [i \in Ids |-> "none"] /\ corr = NoFields
    /\ op = [a \in Actors |-> NoOp]
    /\ pc = [a \in Actors |-> "idle"]
    /\ val = "none" /\ cur = [esl |-> NoReport, hook |-> NoReport]
    /\ channel = "none" /\ misled = FALSE /\ early = FALSE
    /\ killLost = FALSE

-----------------------------------------------------------------------------
(* The customer's phone, and what FreeSWITCH and Mango report of it.  An   *)
(* ESL event that finds the wire full is lost, as while the connection is  *)
(* down; webhooks may not be sent at all and overtake each other.          *)

\* which leg a webhook names: ours, Mango's own one with our command id (given
\* or found by _correlate), or Mango's own one only
HookKinds == {"own", "alias", "stray"}

Reported(events, state) ==
    /\ IF sip /\ events # {} /\ Len(wire) < MaxWire
       THEN \E e \in events : wire' = Append(wire, e)
       ELSE UNCHANGED wire
    /\ \/ UNCHANGED <<hooks, sent>>
       \/ /\ sent.hooks < MaxHooks
          /\ \E k \in HookKinds : hooks' = hooks \cup {[state |-> state, id |-> k]}
          /\ sent' = [sent EXCEPT !.hooks = @ + 1]

LineMoves(to, events, state) ==
    /\ line' = to
    /\ answered' = (answered \/ to = "up")
    /\ Reported(events, state)
    /\ UNCHANGED <<sip, store, corr, op, pc, val, cur, channel, misled, early, killLost>>

Event(state, ids) == {[state |-> state, id |-> u] : u \in ids}

Rings == line = "trying" /\ LineMoves("ringing", Event("INITIATING", {"leg"}), "RINGING")
Answers == line = "ringing" /\ LineMoves("up", Event("ANSWERED", {"leg", "real"}), "ANSWERED")
Bridges == line = "up" /\ LineMoves("up", {}, "BRIDGED")
HangsUp ==
    /\ line \in {"trying", "ringing", "up"}
    /\ LineMoves("gone", Event("TERMINATED", {"leg", "real"}),
                 IF line = "up" THEN "TERMINATED" ELSE "FAILED")

\* FreeSWITCH emits an event of an auxiliary channel of the leg
ChildEvent ==
    /\ sip /\ line # "idle" /\ sent.child < MaxChild /\ Len(wire) < MaxWire
    /\ \E s \in ChildStates : wire' = Append(wire, [state |-> s, id |-> "child"])
    /\ sent' = [sent EXCEPT !.child = @ + 1]
    /\ UNCHANGED <<sip, line, answered, hooks, store, corr, op, pc, val, cur, channel,
                   misled, early, killLost>>

-----------------------------------------------------------------------------
(* connect: originate_call, wait_for_answered and the id for the media.    *)

\* the command goes out; the network may lose the answer, not the call
originate_call ==
    /\ At("dial", "idle")
    /\ line' = "trying"
    /\ pc' = [pc EXCEPT !["dial"] = "reply"]
    /\ UNCHANGED <<sip, answered, wire, hooks, sent, store, corr, op, val, cur, channel,
                   misled, early, killLost>>

DialRest == <<sip, line, answered, wire, hooks, sent, corr, cur, misled, early, killLost>>

OriginateRaises ==
    /\ At("dial", "reply")
    /\ pc' = [pc EXCEPT !["dial"] = "failed"]
    /\ UNCHANGED <<store, op, val, channel>> /\ UNCHANGED DialRest

\* "-ERR": nothing was dialled
OriginateRefused ==
    /\ At("dial", "reply") /\ sip /\ line = "trying"
    /\ line' = "gone"
    /\ store' = [store EXCEPT !["leg"] = "FAILED"]
    /\ op' = [op EXCEPT !["dial"] = set_freeswitch_state("FAILED", "leg")]
    /\ pc' = [pc EXCEPT !["dial"] = "failed"]
    /\ UNCHANGED <<sip, answered, wire, hooks, sent, corr, val, cur, channel, misled,
                   early, killLost>>

\* the reply may already carry CHANNEL_ANSWER of the leg, or the disposition ANSWER
\* of a leg that is only parked: both are taken for an answer, and connect does not
\* wait for another
OriginateReplied ==
    /\ At("dial", "reply") /\ sip
    /\ op' = [op EXCEPT !["dial"] = upsert_mapping("leg")]
    /\ pc' = [pc EXCEPT !["dial"] = "mapped"]
    /\ val' \in {"INITIATING", "ANSWERED"}
    /\ early' = (early \/ (val' = "ANSWERED" /\ ~answered))
    /\ UNCHANGED <<sip, line, answered, wire, hooks, sent, store, corr, cur, channel,
                   misled, killLost>>

\* set_leg_state does not look at what the other writers stored meanwhile
LegInitialised ==
    /\ At("dial", "mapped")
    /\ store' = [store EXCEPT !["leg"] = val]
    /\ IF val = "ANSWERED"
       THEN /\ op' = [op EXCEPT !["dial"] = set_freeswitch_state("ANSWERED", "leg")]
            /\ pc' = [pc EXCEPT !["dial"] = "resolve"]
       ELSE /\ pc' = [pc EXCEPT !["dial"] = "wait"]
            /\ UNCHANGED op
    /\ val' = "none"
    /\ UNCHANGED channel /\ UNCHANGED DialRest

CallbackReplied ==
    /\ At("dial", "reply") /\ ~sip
    /\ store' = [store EXCEPT !["leg"] = "INITIATING"]
    /\ op' = [op EXCEPT !["dial"] = upsert_mapping("leg")]
    /\ pc' = [pc EXCEPT !["dial"] = "wait"]
    /\ UNCHANGED <<val, channel>> /\ UNCHANGED DialRest

AfterState(state) == IF state \in Accepted THEN "resolve"
                     ELSE IF state \in EndStates THEN "ended" ELSE "wait"

\* one turn of wait_for_leg_state: first the leg store
wait_for_leg_state ==
    /\ At("dial", "wait")
    /\ pc' = [pc EXCEPT !["dial"] =
                 IF store["leg"] \in Accepted \cup EndStates
                 THEN AfterState(store["leg"]) ELSE "poll"]
    /\ UNCHANGED <<store, op, val, channel>> /\ UNCHANGED DialRest

observed_via_correlation(h) ==
    IF {h["effective_state"], h["freeswitch_state"], h["mango_state"]}
           \cap EndStates # {} THEN "none"
    ELSE IF h["bridged_seen"] = "1" THEN "BRIDGED"
    ELSE IF h["answered_seen"] = "1" THEN "ANSWERED"
    ELSE "none"

CorrelationState(h) ==
    IF observed_via_correlation(h) # "none" THEN observed_via_correlation(h)
    ELSE IF h["effective_state"] \in Accepted \cup EndStates THEN h["effective_state"]
    ELSE "none"

\* then the correlation store ...
wait_via_correlation ==
    /\ At("dial", "poll")
    /\ LET s == CorrelationState(corr)
       IN  IF s # "none"
           THEN val' = s /\ pc' = [pc EXCEPT !["dial"] = "polled"]
           ELSE IF sip
           THEN /\ val' = IF corr["freeswitch_uuid"] = "none" THEN "leg"
                          ELSE corr["freeswitch_uuid"]
                /\ pc' = [pc EXCEPT !["dial"] = "probe"]
           ELSE pc' = [pc EXCEPT !["dial"] = "wait"] /\ UNCHANGED val
    /\ UNCHANGED <<store, op, channel>> /\ UNCHANGED DialRest

PolledSaved ==
    /\ At("dial", "polled")
    /\ store' = [store EXCEPT !["leg"] = val]
    /\ pc' = [pc EXCEPT !["dial"] = AfterState(val)]
    /\ val' = "none"
    /\ UNCHANGED <<op, channel>> /\ UNCHANGED DialRest

\* what FreeSWITCH says of a channel: only the leg itself knows an answer, and it
\* is ACTIVE with disposition ANSWER as soon as it is parked
Channels == {"leg", "real", "child"}
answer_state(uuid) == IF uuid \in {"leg", "real"} /\ line = "up" THEN "answered" ELSE "early"

\* Mutant of ProbeConfirms: channel_call_state ACTIVE is taken for an answer
ProbeTrustsCallState(uuid) == uuid \in Channels

ProbeConfirms(uuid) == answer_state(uuid) = "answered"

\* ... then the channel itself.  uuid_exists "false", an error and an answer that
\* says nothing all lead back to the loop.
wait_via_freeswitch ==
    /\ At("dial", "probe")
    /\ \/ /\ val \in Channels /\ line # "gone" /\ ProbeConfirms(val)
          /\ store' = [store EXCEPT !["leg"] = "ANSWERED"]
          /\ op' = [op EXCEPT !["dial"] = set_freeswitch_state("ANSWERED", val)]
          /\ val' = "ANSWERED"
          /\ pc' = [pc EXCEPT !["dial"] = "polled"]
       \/ /\ val \in Channels /\ line = "ringing" /\ ~ProbeConfirms(val)
          /\ store' = [store EXCEPT !["leg"] = "RINGING"]
          /\ pc' = [pc EXCEPT !["dial"] = "wait"]
          /\ val' = "none" /\ UNCHANGED op
       \/ /\ pc' = [pc EXCEPT !["dial"] = "wait"]
          /\ val' = "none" /\ UNCHANGED <<store, op>>
    /\ UNCHANGED channel /\ UNCHANGED DialRest

AnswerTimeout ==
    /\ At("dial", "wait")
    /\ pc' = [pc EXCEPT !["dial"] = "failed"]
    /\ UNCHANGED <<store, op, val, channel>> /\ UNCHANGED DialRest

\* an end is taken back when the correlation has seen an answer and no end
wait_for_answered ==
    /\ At("dial", "ended")
    /\ LET s == observed_via_correlation(corr)
       IN  IF s # "none"
           THEN /\ store' = [store EXCEPT !["leg"] = s]
                /\ pc' = [pc EXCEPT !["dial"] = "resolve"]
           ELSE /\ pc' = [pc EXCEPT !["dial"] = "over"]
                /\ UNCHANGED store
    /\ UNCHANGED <<op, val, channel>> /\ UNCHANGED DialRest

\* up to ten looks for another uuid than the one the call was placed with
resolve_provider_leg_id ==
    /\ At("dial", "resolve")
    /\ LET u == corr["freeswitch_uuid"]
       IN  channel' = IF u \notin {"none", "leg"} THEN u ELSE "leg"
    /\ pc' = [pc EXCEPT !["dial"] = "talking"]
    /\ UNCHANGED <<store, op, val>> /\ UNCHANGED DialRest

\* connect for a leg that is already there (an inbound call)
ConnectExisting ==
    /\ At("dial", "idle") /\ line = "idle"
    /\ line' \in {"ringing", "up"} /\ answered' = (line' = "up")
    /\ store' = [store EXCEPT !["leg"] = "ANSWERED"]
    /\ op' = [op EXCEPT !["dial"] = upsert_mapping("leg")]
    /\ pc' = [pc EXCEPT !["dial"] = "existing"]
    /\ UNCHANGED <<sip, wire, hooks, sent, corr, val, cur, channel, misled, early,
                   killLost>>

ExistingMapped ==
    /\ At("dial", "existing")
    /\ op' = [op EXCEPT !["dial"] = set_freeswitch_state("ANSWERED", "leg")]
    /\ channel' = "leg"
    /\ pc' = [pc EXCEPT !["dial"] = "attached"]
    /\ UNCHANGED <<store, val>> /\ UNCHANGED DialRest

-----------------------------------------------------------------------------
(* terminate_leg: a session hangs up the leg of its channel, a transfer    *)
(* the leg it dialled.                                                     *)

Target == IF channel = "none" THEN "leg" ELSE channel

\* Mutant of TerminateSkipped: a leg the store has no state of is left alone, too
TerminateSkipsUnknown ==
    /\ pc["dial"] \in {"talking", "attached", "failed", "over"} /\ op["dial"].at = "none"
    /\ store[Target] \in {"TERMINATED", "none"}
    /\ pc' = [pc EXCEPT !["dial"] = "released"]
    /\ UNCHANGED <<store, op, val, channel>> /\ UNCHANGED DialRest

TerminateSkipped ==
    /\ pc["dial"] \in {"talking", "attached", "failed", "over"} /\ op["dial"].at = "none"
    /\ store[Target] = "TERMINATED"
    /\ pc' = [pc EXCEPT !["dial"] = "released"]
    /\ UNCHANGED <<store, op, val, channel>> /\ UNCHANGED DialRest

\* the channel that a hang-up command with this id ends
Reaches(id) == IF sip THEN id \in {"leg", "real"} ELSE id \in {"leg", "mango"}

\* uuid_kill in the background, or the hang-up command of the REST API; an id
\* nobody knows and, over SIP, every error are ignored
terminate_leg ==
    /\ pc["dial"] \in {"talking", "attached", "failed", "over"} /\ op["dial"].at = "none"
    /\ store[Target] # "TERMINATED"
    /\ store' = [store EXCEPT ![Target] = "TERMINATED"]
    /\ pc' = [pc EXCEPT !["dial"] = "released"]
    /\ \/ /\ line' = IF Reaches(Target) /\ line # "idle" THEN "gone" ELSE line
          /\ killLost' = (killLost \/ ~Reaches(Target))
       \/ sip /\ killLost' = TRUE /\ UNCHANGED line
    /\ UNCHANGED <<sip, answered, wire, hooks, sent, corr, op, val, cur, channel, misled,
                   early>>

\* the REST command fails: terminate_leg raises and the leg keeps its state
TerminateRaises ==
    /\ pc["dial"] \in {"talking", "attached", "failed", "over"} /\ op["dial"].at = "none"
    /\ store[Target] # "TERMINATED" /\ ~sip
    /\ killLost' = TRUE
    /\ pc' = [pc EXCEPT !["dial"] = "released"]
    /\ UNCHANGED <<sip, line, answered, wire, hooks, sent, store, corr, op, val, cur,
                   channel, misled, early>>

-----------------------------------------------------------------------------
(* The ESL reader.                                                         *)

IsForeign(uuid) ==
    /\ corr["freeswitch_uuid"] \notin {"none", "leg"}
    /\ uuid # corr["freeswitch_uuid"]

\* An event of another channel is left aside once the leg's own uuid is known.
\* (An event with the provisional uuid is then foreign, too.)
ReadEvent ==
    /\ At("esl", "idle") /\ wire # <<>>
    /\ wire' = Tail(wire)
    /\ LET e == Head(wire)
       IN  IF IsForeign(e.id)
           THEN UNCHANGED <<op, pc, cur, misled>>
           ELSE /\ cur' = [cur EXCEPT !.esl = e]
                /\ op' = [op EXCEPT !["esl"] = upsert_mapping(e.id)]
                /\ pc' = [pc EXCEPT !["esl"] = "state"]
                /\ misled' = (misled \/ e.id = "child")
    /\ UNCHANGED <<sip, line, answered, hooks, sent, store, corr, val, channel, early,
                   killLost>>

EventState ==
    /\ At("esl", "state")
    /\ op' = [op EXCEPT !["esl"] = set_freeswitch_state(cur.esl.state, cur.esl.id)]
    /\ cur' = [cur EXCEPT !.esl = NoReport]
    /\ pc' = [pc EXCEPT !["esl"] = "idle"]
    /\ UNCHANGED <<sip, line, answered, wire, hooks, sent, store, corr, val, channel,
                   misled, early, killLost>>

-----------------------------------------------------------------------------
(* The webhook: first the leg it names, then its alias.                    *)

HookRest == <<sip, line, answered, wire, sent, corr, val, channel, misled, early, killLost>>

HookTaken ==
    /\ At("hook", "idle")
    /\ \E h \in hooks :
        /\ hooks' = hooks \ {h}
        /\ store' = [store EXCEPT ![IF h.id = "own" THEN "leg" ELSE "mango"] = h.state]
        /\ op' = IF h.id = "own" THEN [op EXCEPT !["hook"] = set_mango_state(h.state)] ELSE op
        /\ IF h.id = "alias"
           THEN cur' = [cur EXCEPT !.hook = h] /\ pc' = [pc EXCEPT !["hook"] = "alias"]
           ELSE UNCHANGED <<cur, pc>>
    /\ UNCHANGED HookRest

HookAliased ==
    /\ At("hook", "alias")
    /\ store' = [store EXCEPT !["leg"] = cur.hook.state]
    /\ op' = [op EXCEPT !["hook"] = upsert_mapping("mango")]
    /\ cur' = [cur EXCEPT !.hook = NoReport]
    /\ pc' = [pc EXCEPT !["hook"] = "idle"]
    /\ UNCHANGED hooks /\ UNCHANGED HookRest

-----------------------------------------------------------------------------
Connects ==
    \/ originate_call \/ OriginateRaises \/ OriginateRefused \/ OriginateReplied
    \/ LegInitialised \/ CallbackReplied \/ wait_for_leg_state \/ wait_via_correlation
    \/ PolledSaved \/ wait_via_freeswitch \/ wait_for_answered \/ resolve_provider_leg_id
    \/ ConnectExisting \/ ExistingMapped

Terminates == TerminateSkipped \/ terminate_leg \/ TerminateRaises

DialNext ==
    \/ Rings \/ Answers \/ Bridges \/ HangsUp \/ ChildEvent
    \/ Connects \/ AnswerTimeout \/ Terminates
    \/ ReadEvent \/ EventState \/ HookTaken \/ HookAliased
    \/ \E a \in Actors : OpRead(a) \/ OpWrite(a)

DialSpec == DialInit /\ [][DialNext]_dialVars

-----------------------------------------------------------------------------
(* Properties.                                                             *)

States == TelephonyLegState \cup {"none"}
Hashes ==
    {h \in [Fields -> States \cup Ids \cup {"0", "1"}] :
        /\ \A f \in {"mango_state", "freeswitch_state", "effective_state"} : h[f] \in States
        /\ h["freeswitch_uuid"] \in Ids \cup {"none"}}
WireEvents == [state : {"INITIATING", "ANSWERED", "TERMINATED"}, id : Channels]
Webhooks == [state : TelephonyLegState \ {"INITIATING"}, id : HookKinds]
Places == {"idle", "reply", "mapped", "wait", "poll", "polled", "probe", "ended", "resolve",
           "talking", "existing", "attached", "failed", "over", "released", "state", "alias"}

DialTypeOK ==
    /\ sip \in BOOLEAN /\ answered \in BOOLEAN
    /\ line \in {"idle", "trying", "ringing", "up", "gone"}
    /\ wire \in Seq(WireEvents) /\ hooks \subseteq Webhooks
    /\ sent \in [hooks : Nat, child : Nat]
    /\ store \in [Ids -> States] /\ corr \in Hashes
    /\ op \in [Actors -> [at : {"none", "get", "read", "write"}, patch : Hashes, copy : Hashes]]
    /\ pc \in [Actors -> Places]
    /\ val \in States \cup Ids /\ channel \in Ids \cup {"none"}
    /\ cur \in [esl : WireEvents \cup {NoReport}, hook : Webhooks \cup {NoReport}]
    /\ misled \in BOOLEAN /\ early \in BOOLEAN /\ killLost \in BOOLEAN

\* What connect says of a leg is so: it reports an answer only of a customer who has
\* picked up, and gives the leg up as ended only when the phone is down.  No stale
\* flag, no lost update of the hash, no early state of the parked channel, no uuid
\* FreeSWITCH does not know and no failed probe stands in for either.  Two things
\* can: an auxiliary channel whose events come before the leg's uuid is known, and,
\* for an answer, the disposition in the reply to originate.
VerdictIsReal ==
    /\ pc["dial"] = "talking" => answered \/ misled \/ early
    /\ pc["dial"] = "over" => line = "gone" \/ misled

\* What the probe's comment says of a direct call: its parked leg has the disposition
\* ANSWER before the callee answers, and only an explicit answer state or the events
\* confirm an answer.  connect goes by the disposition when the reply carries it.
AnswerIsConfirmed == pc["dial"] = "talking" => answered \/ misled

\* When terminate_leg has returned, the leg is down, unless its command was lost or
\* an auxiliary channel's end was taken for the leg's own
\* (transfer_engine/mango.py: "Cleanup manager leg to avoid late-answer orphan calls").
ReleasedIsDown == pc["dial"] = "released" => line = "gone" \/ killLost \/ misled
=============================================================================
