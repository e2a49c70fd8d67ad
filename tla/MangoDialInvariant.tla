------------------------- MODULE MangoDialInvariant -------------------------
(***************************************************************************)
(* The inductive invariant of MangoDial.                                   *)
(***************************************************************************)
EXTENDS MangoDial

\* What the three writers hold at each place.
PlaceInv ==
    /\ pc["dial"] \notin {"state", "alias"}
    /\ pc["esl"] \in {"idle", "state"} /\ pc["hook"] \in {"idle", "alias"}
    /\ pc["esl"] = "state" => cur.esl \in WireEvents
    /\ pc["hook"] = "alias" => cur.hook \in Webhooks
    /\ pc["dial"] = "mapped" => val \in {"INITIATING", "ANSWERED"}
    /\ pc["dial"] = "polled" => val \in TelephonyLegState
    /\ pc["dial"] = "probe" => val \in Ids

\* Nothing happens to the phone before it is dialled, and it is up only after it
\* was picked up.
LineInv ==
    /\ line = "idle" <=> pc["dial"] = "idle"
    /\ line = "idle" => ~answered
    /\ line = "up" => answered

\* The reply to originate, and connect for a leg that is there already, say
\* "answered" without having seen it, and terminate_leg says "terminated" whatever
\* becomes of its command.
PickedUp == misled \/ early \/ answered \/ pc["dial"] \in {"existing", "attached", "released"}
Down == misled \/ line = "gone" \/ pc["dial"] = "released"

\* The states that anybody has a reason to believe of the leg.
Believable == {s \in States : (s \in Accepted => PickedUp) /\ (s \in EndStates => Down)}

\* Hashes and updates that speak of the states of S only.
HashOf(S) ==
    {h \in Hashes :
        /\ h["mango_state"] \in S /\ h["freeswitch_state"] \in S /\ h["effective_state"] \in S
        /\ h["answered_seen"] = "1" \/ h["bridged_seen"] = "1" => Accepted \subseteq S}
OpOf(S) == [at : {"none", "get", "read", "write"}, patch : HashOf(S), copy : HashOf(S)]

\* What is on its way from the phone.
ReportInv ==
    /\ \A i \in 1..Len(wire) : wire[i].id # "child" => wire[i].state \in Believable
    /\ \A h \in hooks : h.state \in Believable
    /\ pc["hook"] = "alias" => cur.hook.state \in Believable
    /\ pc["esl"] = "state" => cur.esl.state \in Believable

\* What the stores say, and what is about to be written over the hash.
StoreInv ==
    /\ store \in [Ids -> Believable]
    /\ corr \in HashOf(Believable)
    /\ op \in [Actors -> OpOf(Believable)]

\* What the dialler has concluded from them.
DialInv ==
    /\ pc["dial"] \in {"mapped", "polled"} => val \in Believable
    /\ pc["dial"] \in {"resolve", "talking"} => answered \/ misled \/ early
    /\ pc["dial"] \in {"ended", "over"} => line = "gone" \/ misled

DialIInv ==
    DialTypeOK /\ PlaceInv /\ LineInv /\ ReportInv /\ StoreInv /\ DialInv /\ ReleasedIsDown
=============================================================================
