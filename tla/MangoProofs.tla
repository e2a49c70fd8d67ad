---------------------------- MODULE MangoProofs ----------------------------
(***************************************************************************)
(* Proofs of the safety properties of MangoEvents and of MangoDial for     *)
(* every value of their constants: any events, requests and copies, any    *)
(* number of webhooks and of events on the ESL connection.                 *)
(*                                                                         *)
(* The two components meet nowhere but in the names of the leg states, so  *)
(* each part uses the definitions of its own component only.               *)
(***************************************************************************)
EXTENDS MangoEvents, MangoDialInvariant, SequenceTheorems, TLAPS

-----------------------------------------------------------------------------
(* The inductive invariant                                                 *)

\* An event that is on its way, or in a request, has been sent.
EventInv ==
    /\ \A e \in Events : copies[e] > 0 => kind[e] # NoKind
    /\ \A r \in Requests :
         /\ req[r].pc = "idle" => req[r] = Idle
         /\ req[r].pc # "idle" => req[r].ev # NoEvent /\ kind[req[r].ev] # NoKind

\* The request took its event past the mark, and has not committed.
Carries(r) == req[r].pc \in {"correlate", "apply"} \/ req[r].did = 1

\* The mark is what keeps an event with one request: nobody carries it before it
\* is in seen, and whoever finds it there does not carry it.
OnceInv ==
    /\ \A r \in Requests : Carries(r) => Key(req[r].ev) \in seen /\ applied[req[r].ev] = 0
    /\ \A r, q \in Requests : Carries(r) /\ Carries(q) /\ req[r].ev = req[q].ev => r = q
    /\ \A e \in Events : applied[e] # 0 => kind[e] # NoKind /\ Key(e) \in seen
    /\ AppliedOnce

\* What a request holds at each stage, and that no call goes back to "none".
RowInv ==
    /\ \A c \in Inbound : row[c].st # "none" => row[c].leg = "in"
    /\ \A r \in Requests :
         /\ req[r].pc \in {"mark", "correlate"} => req[r].call = NoCall
         /\ req[r].pc = "apply" => req[r].call # NoCall /\ req[r].st = req[r].was
         /\ req[r].call # NoCall => /\ row[req[r].call].st # "none"
                                    /\ req[r].st # "none"
         /\ req[r].call \in Inbound => req[r].leg = "in" /\ req[r].xfer = "none"
         /\ req[r].new # NoCall => /\ req[r].pc = "commit"
                                   /\ row[req[r].new].st = "none"
                                   /\ kind[req[r].ev].leg = "in"
    /\ \A r, q \in Requests : req[r].new # NoCall /\ req[r].new = req[q].new => r = q

\* While requests take turns, what a request has read is what is there.
TurnInv ==
    serial =>
      /\ \A r, q \in Requests : req[r].pc # "idle" /\ req[q].pc # "idle" => r = q
      /\ \A r \in Requests :
           req[r].call # NoCall =>
             /\ req[r].was = row[req[r].call].st
             /\ req[r].pc = "apply" /\ req[r].call = "out" => req[r].xfer = xfer
             /\ \/ req[r].st = req[r].was
                \/ req[r].was \notin Terminal
                \/ /\ req[r].call = "out" /\ xfer \in Unsettled
                   /\ req[r].xfer \in {"connected", "failed"}

\* A session that was started has a row, or will have one, or was forgotten.
SessionInv ==
    serial =>
      \/ started =< forgotten
      \/ /\ started = forgotten + 1
         /\ \/ \E c \in Inbound : row[c].st # "none"
            \/ \E r \in Requests : req[r].new # NoCall

IInv == TypeOK /\ EventInv /\ OnceInv /\ RowInv /\ TurnInv /\ SessionInv

-----------------------------------------------------------------------------
(* The initial states and the types                                        *)

\* The invariant holds before the first event.
LEMMA InitIInv == Init => IInv
<1>1. SUFFICES ASSUME Init PROVE IInv
  OBVIOUS
<1>2. TypeOK
  BY <1>1, BoundsAssumption DEF Init, TypeOK, Locals, Idle, Statuses, Legs, Transfers
<1>3. EventInv /\ RowInv /\ TurnInv /\ SessionInv
  BY <1>1, NoneAssumption DEF Init, EventInv, RowInv, TurnInv, SessionInv, Idle, Calls
<1>4. OnceInv
  BY <1>1 DEF Init, OnceInv, Carries, AppliedOnce, Idle
<1>5. QED
  BY <1>2, <1>3, <1>4 DEF IInv

USE DEF AppRest, Others

\* Every action keeps the types of the variables.
LEMMA TypeStep == TypeOK /\ EventInv /\ [Next]_vars => TypeOK'
<1>1. SUFFICES ASSUME TypeOK, EventInv, [Next]_vars PROVE TypeOK'
  OBVIOUS
<1> USE <1>1, BoundsAssumption DEF TypeOK
<1>2. ASSUME NEW e \in Events, Sends(e) PROVE TypeOK'
  BY <1>2 DEF Sends
<1>3. ASSUME NEW e \in Events, WebhookRefused(e) PROVE TypeOK'
  BY <1>3 DEF WebhookRefused
<1>4. ASSUME NEW r \in Requests, NEW e \in Events, mango_webhook(r, e) PROVE TypeOK'
  <2>1. [req[r] EXCEPT !.pc = "mark", !.ev = e] \in Locals
    BY DEF Locals
  <2>2. req' = [req EXCEPT ![r] = [req[r] EXCEPT !.pc = "mark", !.ev = e]]
    BY <1>4 DEF mango_webhook
  <2>3. req' \in [Requests -> Locals]
    BY <2>1, <2>2
  <2>4. QED
    BY <1>4, <2>3 DEF mango_webhook
<1>5. ASSUME NEW r \in Requests, NEW e \in Events, freeswitch_inbound_sip(r, e) PROVE TypeOK'
  <2>1. [req[r] EXCEPT !.pc = "route", !.ev = e] \in Locals
    BY DEF Locals
  <2>2. req' = [req EXCEPT ![r] = [req[r] EXCEPT !.pc = "route", !.ev = e]]
    BY <1>5 DEF freeswitch_inbound_sip
  <2>3. req' \in [Requests -> Locals]
    BY <2>1, <2>2
  <2>4. QED
    BY <1>5, <2>3 DEF freeswitch_inbound_sip
<1>6. ASSUME NEW r \in Requests, mark_event_seen(r) PROVE TypeOK'
  <2>1. req' \in [Requests -> Locals]
    BY <1>6 DEF mark_event_seen, Locals
  <2>2. QED
    BY <1>6, <2>1 DEF mark_event_seen
<1>7. ASSUME NEW r \in Requests, Correlate(r) PROVE TypeOK'
  <2>1. ASSUME req' = [req EXCEPT ![r].pc = "route", ![r].did = 1]
        PROVE  req' \in [Requests -> Locals]
    <3>1. [req[r] EXCEPT !.pc = "route", !.did = 1] \in Locals
      BY DEF Locals
    <3>2. req' = [req EXCEPT ![r] = [req[r] EXCEPT !.pc = "route", !.did = 1]]
      BY <2>1
    <3>3. QED
      BY <3>1, <3>2
  <2>2. ASSUME NEW c \in Calls, NEW st \in Statuses, NEW l \in Legs, NEW x \in Transfers,
               req' = [req EXCEPT ![r].pc = "apply", ![r].call = c, ![r].st = st, ![r].was = st,
                                  ![r].leg = l, ![r].xfer = x]
        PROVE  req' \in [Requests -> Locals]
    <3> DEFINE v == [req[r] EXCEPT !.pc = "apply", !.call = c, !.st = st, !.was = st, !.leg = l, !.xfer = x]
    <3>1. v \in Locals
      BY DEF Locals
    <3>2. req' = [req EXCEPT ![r] = v]
      BY <2>2
    <3>3. QED
      BY <3>1, <3>2
  <2>3. \A k : Found(k) \subseteq Calls
    BY DEF Found, WithLeg, Calls
  <2>4. req' \in [Requests -> Locals]
    <3>1. CASE Found(kind[req[r].ev]) = {}
      BY <1>7, <2>1, <3>1 DEF Correlate
    <3>2. CASE Found(kind[req[r].ev]) # {}
      <4>1. PICK c \in Calls :
              req' = [req EXCEPT ![r].pc = "apply", ![r].call = c, ![r].st = row[c].st, ![r].was = row[c].st,
                                 ![r].leg = row[c].leg, ![r].xfer = IF c = "out" THEN xfer ELSE "none"]
        BY <1>7, <2>3, <3>2 DEF Correlate
      <4>2. row[c].st \in Statuses /\ row[c].leg \in Legs
            /\ (IF c = "out" THEN xfer ELSE "none") \in Transfers
        BY DEF Transfers
      <4>3. QED
        BY <2>2, <4>1, <4>2
    <3>3. QED
      BY <3>1, <3>2
  <2>5. QED
    BY <1>7, <2>4 DEF Correlate
<1>8. ASSUME NEW r \in Requests, apply_call_state(r) PROVE TypeOK'
  <2> DEFINE k == kind[req[r].ev]
  <2>1. k \in Kinds /\ k.leg \in {"out", "in"}
    BY <1>8, KindsAssumption DEF apply_call_state, EventInv, Locals
  <2>2. AfterEvent(req[r].st, k) \in Statuses
    BY DEF AfterEvent, Statuses, Terminal, Locals
  <2>3. Promoted(req[r].leg, req[r].st, k) \in Legs
    BY <2>1 DEF Promoted, Legs, Locals
  <2>4. ASSUME NEW st \in Statuses, NEW l \in Legs, NEW x \in Transfers,
               req' = [req EXCEPT ![r].pc = "route", ![r].did = 1, ![r].leg = l, ![r].xfer = x, ![r].st = st]
        PROVE  req' \in [Requests -> Locals]
    <3> DEFINE v == [req[r] EXCEPT !.pc = "route", !.did = 1, !.leg = l, !.xfer = x, !.st = st]
    <3>1. v \in Locals
      BY DEF Locals
    <3>2. req' = [req EXCEPT ![r] = v]
      BY <2>4
    <3>3. QED
      BY <3>1, <3>2
  <2>5. req[r].xfer \in Transfers /\ {"connected", "failed"} \subseteq Transfers
        /\ {"CONNECTED_TO_MANAGER", "STOPPED"} \subseteq Statuses
    BY DEF Locals, Transfers, Statuses, Terminal
  <2>6. req' \in [Requests -> Locals]
    BY <1>8, <2>2, <2>3, <2>4, <2>5 DEF apply_call_state
  <2>7. QED
    BY <1>8, <2>6 DEF apply_call_state
<1>9. ASSUME NEW r \in Requests, NotLaunched(r) PROVE TypeOK'
  <2>1. req' \in [Requests -> Locals]
    BY <1>9 DEF NotLaunched, Locals
  <2>2. QED
    BY <1>9, <2>1 DEF NotLaunched
<1>10. ASSUME NEW r \in Requests, Launch(r) PROVE TypeOK'
  <2>1. PICK c \in Inbound : req' = [req EXCEPT ![r].pc = "commit", ![r].new = c]
    BY <1>10 DEF Launch
  <2>2. [req[r] EXCEPT !.pc = "commit", !.new = c] \in Locals
    BY DEF Locals
  <2>3. req' = [req EXCEPT ![r] = [req[r] EXCEPT !.pc = "commit", !.new = c]]
    BY <2>1
  <2>4. req' \in [Requests -> Locals]
    BY <2>2, <2>3
  <2>5. QED
    BY <1>10, <2>4 DEF Launch
<1>11. ASSUME NEW r \in Requests, Commit(r) PROVE TypeOK'
  <2>1. req' \in [Requests -> Locals]
    BY <1>11 DEF Commit, Locals, Idle, Statuses, Legs, Transfers
  <2>2. kind[req[r].ev] \in Kinds /\ kind[req[r].ev].leg \in {"out", "in"} /\ req[r] \in Locals
    BY <1>11, KindsAssumption DEF Commit, EventInv, Locals
  <2>3. row' \in [Calls -> [st : Statuses, leg : Legs]]
    BY <1>11, <2>2 DEF Commit, Locals, Statuses, Legs
  <2>4. applied' \in [Events -> Nat] /\ xfer' \in Transfers
    <3>1. req[r].did \in Nat /\ \A e \in Events : applied[e] + req[r].did \in Nat
      BY <2>2 DEF Locals
    <3>2. applied' = [applied EXCEPT ![req[r].ev] = @ + req[r].did]
      BY <1>11 DEF Commit
    <3>3. xfer' \in Transfers
      BY <1>11, <2>2 DEF Commit, Locals
    <3>4. QED
      BY <3>1, <3>2, <3>3
  <2>5. QED
    BY <1>11, <2>1, <2>3, <2>4 DEF Commit
<1>12. ASSUME NEW r \in Requests, RequestFails(r) PROVE TypeOK'
  <2>1. req' \in [Requests -> Locals]
    BY <1>12 DEF RequestFails, Idle, Statuses, Legs, Transfers, Locals
  <2>2. QED
    BY <1>12, <2>1 DEF RequestFails
<1>13. CASE OutboundCommits
  BY <1>13 DEF OutboundCommits, Statuses, Legs, Calls
<1>14. CASE TransferOpens
  <2>1. PICK s \in {"TRANSFERRING", "STOPPED"} : row' = [row EXCEPT !["out"].st = s]
    BY <1>14 DEF TransferOpens
  <2>2. s \in Statuses
    BY DEF Statuses, Terminal
  <2>3. QED
    BY <1>14, <2>1, <2>2 DEF TransferOpens, Transfers, Unsettled, Calls
<1>15. ASSUME NEW c \in Calls, SessionEnds(c) PROVE TypeOK'
  BY <1>15 DEF SessionEnds, Statuses, Terminal
<1>16. CASE UNCHANGED vars
  BY <1>16 DEF vars
<1>17. QED
  BY <1>1, <1>2, <1>3, <1>4, <1>5, <1>6, <1>7, <1>8, <1>9, <1>10, <1>11, <1>12, <1>13, <1>14, <1>15,
     <1>16, Zenon DEF Next, ensure_inbound_call, ensure_inbound_sip_call

-----------------------------------------------------------------------------
(* What the two longer steps of a request do                               *)

\* A request that correlates its event goes on without a call, or with one that
\* is in the database and with what its row says.
LEMMA CorrelateEffect ==
    ASSUME TypeOK, NEW r \in Requests, Correlate(r)
    PROVE  /\ req[r].pc = "correlate"
           /\ \A q \in Requests \ {r} : req'[q] = req[q]
           /\ req'[r].ev = req[r].ev /\ req'[r].new = req[r].new
           /\ \/ /\ req'[r].pc = "route" /\ req'[r].did = 1 /\ req'[r].call = req[r].call
                 /\ req'[r].st = req[r].st /\ req'[r].was = req[r].was
                 /\ req'[r].leg = req[r].leg /\ req'[r].xfer = req[r].xfer
              \/ \E c \in Calls :
                   /\ row[c].st # "none"
                   /\ req'[r].pc = "apply" /\ req'[r].did = req[r].did /\ req'[r].call = c
                   /\ req'[r].st = row[c].st /\ req'[r].was = row[c].st
                   /\ req'[r].leg = row[c].leg
                   /\ req'[r].xfer = IF c = "out" THEN xfer ELSE "none"
<1> DEFINE k == kind[req[r].ev]
<1>1. \A c \in Found(k) : c \in Calls /\ row[c].st # "none"
  BY DEF Found, WithLeg, Calls
<1>2. CASE Found(k) = {}
  <2>1. req' = [req EXCEPT ![r].pc = "route", ![r].did = 1] /\ req[r].pc = "correlate"
    BY <1>2 DEF Correlate
  <2>2. QED
    BY <2>1 DEF TypeOK, Locals
<1>3. CASE Found(k) # {}
  <2>1. PICK c \in Found(k) :
          req' = [req EXCEPT ![r].pc = "apply", ![r].call = c, ![r].st = row[c].st, ![r].was = row[c].st,
                             ![r].leg = row[c].leg, ![r].xfer = IF c = "out" THEN xfer ELSE "none"]
    BY <1>3 DEF Correlate
  <2>2. req[r].pc = "correlate" /\ c \in Calls /\ row[c].st # "none"
    BY <1>1 DEF Correlate
  <2>3. QED
    BY <2>1, <2>2 DEF TypeOK, Locals
<1>4. QED
  BY <1>2, <1>3

\* A call that is over keeps its status when an event is applied to it, unless
\* the event settles its transfer.
LEMMA ApplyEffect ==
    ASSUME TypeOK, NEW r \in Requests, apply_call_state(r)
    PROVE  /\ req[r].pc = "apply"
           /\ \A q \in Requests \ {r} : req'[q] = req[q]
           /\ req'[r].pc = "route" /\ req'[r].did = 1
           /\ req'[r].ev = req[r].ev /\ req'[r].new = req[r].new
           /\ req'[r].call = req[r].call /\ req'[r].was = req[r].was
           /\ req[r].st # "none" => req'[r].st # "none"
           /\ req[r].leg = "in" => req'[r].leg = "in"
           /\ req[r].xfer \notin Unsettled => req'[r].xfer = req[r].xfer
           /\ \/ req'[r].st = req[r].st
              \/ req[r].st \notin Terminal
              \/ req[r].xfer \in Unsettled /\ req'[r].xfer \in {"connected", "failed"}
<1> DEFINE k == kind[req[r].ev]
<1>1. /\ AfterEvent(req[r].st, k) = req[r].st \/ req[r].st \notin Terminal
      /\ req[r].st # "none" => AfterEvent(req[r].st, k) # "none"
  BY DEF AfterEvent, Terminal
<1>2. req[r].leg = "in" => Promoted(req[r].leg, req[r].st, k) = "in"
  BY DEF Promoted
<1>3. PICK st, l, x :
        /\ req' = [req EXCEPT ![r].pc = "route", ![r].did = 1, ![r].leg = l, ![r].xfer = x, ![r].st = st]
        /\ l = Promoted(req[r].leg, req[r].st, k)
        /\ \/ st = AfterEvent(req[r].st, k) /\ x = req[r].xfer
           \/ req[r].xfer = "open" /\ x = "connected" /\ st = "CONNECTED_TO_MANAGER"
           \/ req[r].xfer \in Unsettled /\ x = "failed" /\ st = "STOPPED"
  BY DEF apply_call_state, TypeOK, Locals, Unsettled
<1>4. req[r].pc = "apply"
  BY DEF apply_call_state
<1>5. QED
  BY <1>1, <1>2, <1>3, <1>4 DEF TypeOK, Locals

\* A commit writes the new call and the call the event was about, nothing else.
LEMMA CommitEffect ==
    ASSUME TypeOK, NEW r \in Requests, Commit(r)
    PROVE  /\ req[r].pc = "commit" /\ req'[r] = Idle
           /\ \A q \in Requests \ {r} : req'[q] = req[q]
           /\ \A c \in Calls : c = req[r].new => /\ row'[c].st = "IN_PROGRESS"
                                               /\ row'[c].leg = kind[req[r].ev].leg
           /\ \A c \in Calls : c # req[r].new => \/ row'[c] = row[c]
                                               \/ /\ c = req[r].call
                                                  /\ row'[c].st = req[r].st
                                                  /\ row'[c].leg = req[r].leg
<1>1. req[r].pc = "commit" /\ req' = [req EXCEPT ![r] = Idle]
  BY DEF Commit
<1>2. row' = [c \in Calls |->
                IF c = req[r].new THEN [st |-> "IN_PROGRESS", leg |-> kind[req[r].ev].leg]
                ELSE IF c = req[r].call /\ req[r].st # req[r].was
                     THEN [st |-> req[r].st, leg |-> req[r].leg] ELSE row[c]]
  BY DEF Commit
<1>3. ASSUME NEW c \in Calls, c = req[r].new
      PROVE  row'[c].st = "IN_PROGRESS" /\ row'[c].leg = kind[req[r].ev].leg
  BY <1>2, <1>3
<1>4. ASSUME NEW c \in Calls, c # req[r].new
      PROVE  \/ row'[c] = row[c]
             \/ c = req[r].call /\ row'[c].st = req[r].st /\ row'[c].leg = req[r].leg
  BY <1>2, <1>4
<1>5. QED
  BY <1>1, <1>3, <1>4 DEF TypeOK

\* What is on its way, or in a request, stays sent.
LEMMA EventStep == TypeOK /\ EventInv /\ [Next]_vars => EventInv'
<1>1. SUFFICES ASSUME TypeOK, EventInv, [Next]_vars PROVE EventInv'
  OBVIOUS
<1> USE <1>1 DEF TypeOK, EventInv, Idle
<1>2. ASSUME NEW e \in Events, Sends(e) PROVE EventInv'
  BY <1>2, NoneAssumption DEF Sends
<1>3. ASSUME NEW e \in Events, WebhookRefused(e) PROVE EventInv'
  BY <1>3 DEF WebhookRefused
<1>4. ASSUME NEW r \in Requests, NEW e \in Events, mango_webhook(r, e) PROVE EventInv'
  BY <1>4, NoneAssumption DEF mango_webhook, Locals
<1>5. ASSUME NEW r \in Requests, NEW e \in Events, freeswitch_inbound_sip(r, e) PROVE EventInv'
  BY <1>5, NoneAssumption DEF freeswitch_inbound_sip, Locals
<1>6. ASSUME NEW r \in Requests, mark_event_seen(r) PROVE EventInv'
  BY <1>6 DEF mark_event_seen, Locals
<1>7. ASSUME NEW r \in Requests, Correlate(r) PROVE EventInv'
  <2>1. UNCHANGED <<copies, kind>>
    BY <1>7 DEF Correlate
  <2>2. QED
    BY <1>7, <2>1, CorrelateEffect
<1>8. ASSUME NEW r \in Requests, apply_call_state(r) PROVE EventInv'
  <2>1. UNCHANGED <<copies, kind>>
    BY <1>8 DEF apply_call_state
  <2>2. QED
    BY <1>8, <2>1, ApplyEffect
<1>9. ASSUME NEW r \in Requests, NotLaunched(r) PROVE EventInv'
  BY <1>9 DEF NotLaunched, Locals
<1>10. ASSUME NEW r \in Requests, Launch(r) PROVE EventInv'
  BY <1>10 DEF Launch, Locals
<1>11. ASSUME NEW r \in Requests, Commit(r) PROVE EventInv'
  BY <1>11 DEF Commit
<1>12. ASSUME NEW r \in Requests, RequestFails(r) PROVE EventInv'
  BY <1>12 DEF RequestFails
<1>13. CASE OutboundCommits
  BY <1>13 DEF OutboundCommits
<1>14. CASE TransferOpens
  BY <1>14 DEF TransferOpens
<1>15. ASSUME NEW c \in Calls, SessionEnds(c) PROVE EventInv'
  BY <1>15 DEF SessionEnds
<1>16. CASE UNCHANGED vars
  BY <1>16 DEF vars
<1> HIDE DEF EventInv
<1>18. QED
  BY <1>1, <1>2, <1>3, <1>4, <1>5, <1>6, <1>7, <1>8, <1>9, <1>10, <1>11, <1>12, <1>13, <1>14, <1>15, <1>16, Zenon
     DEF Next, ensure_inbound_call, ensure_inbound_sip_call

\* No step applies an event that was applied, or that another request has.
LEMMA OnceStep == TypeOK /\ EventInv /\ OnceInv /\ [Next]_vars => OnceInv'
<1>1. SUFFICES ASSUME TypeOK, EventInv, OnceInv, [Next]_vars PROVE OnceInv'
  OBVIOUS
<1> USE <1>1 DEF TypeOK, EventInv, OnceInv, AppliedOnce, Carries, Key, Idle
<1>2. ASSUME NEW e \in Events, Sends(e) PROVE OnceInv'
  BY <1>2 DEF Sends
<1>3. ASSUME NEW e \in Events, WebhookRefused(e) PROVE OnceInv'
  BY <1>3 DEF WebhookRefused
<1>4. ASSUME NEW r \in Requests, NEW e \in Events, mango_webhook(r, e) PROVE OnceInv'
  BY <1>4 DEF mango_webhook, Locals
<1>5. ASSUME NEW r \in Requests, NEW e \in Events, freeswitch_inbound_sip(r, e) PROVE OnceInv'
  BY <1>5 DEF freeswitch_inbound_sip, Locals
<1>6. ASSUME NEW r \in Requests, mark_event_seen(r) PROVE OnceInv'
  BY <1>6 DEF mark_event_seen, Locals
<1>7. ASSUME NEW r \in Requests, Correlate(r) PROVE OnceInv'
  <2>1. UNCHANGED <<kind, seen, applied>>
    BY <1>7 DEF Correlate
  <2>2. QED
    BY <1>7, <2>1, CorrelateEffect
<1>8. ASSUME NEW r \in Requests, apply_call_state(r) PROVE OnceInv'
  <2>1. UNCHANGED <<kind, seen, applied>>
    BY <1>8 DEF apply_call_state
  <2>2. QED
    BY <1>8, <2>1, ApplyEffect
<1>9. ASSUME NEW r \in Requests, NotLaunched(r) PROVE OnceInv'
  BY <1>9 DEF NotLaunched, Locals
<1>10. ASSUME NEW r \in Requests, Launch(r) PROVE OnceInv'
  BY <1>10 DEF Launch, Locals
<1>11. ASSUME NEW r \in Requests, Commit(r) PROVE OnceInv'
  BY <1>11 DEF Commit, Locals
<1>12. ASSUME NEW r \in Requests, RequestFails(r) PROVE OnceInv'
  BY <1>12 DEF RequestFails, Locals
<1>13. CASE OutboundCommits
  BY <1>13 DEF OutboundCommits
<1>14. CASE TransferOpens
  BY <1>14 DEF TransferOpens
<1>15. ASSUME NEW c \in Calls, SessionEnds(c) PROVE OnceInv'
  BY <1>15 DEF SessionEnds
<1>16. CASE UNCHANGED vars
  BY <1>16 DEF vars
<1> HIDE DEF OnceInv
<1>18. QED
  BY <1>1, <1>2, <1>3, <1>4, <1>5, <1>6, <1>7, <1>8, <1>9, <1>10, <1>11, <1>12, <1>13, <1>14, <1>15, <1>16, Zenon
     DEF Next, ensure_inbound_call, ensure_inbound_sip_call

\* Requests and rows stay in step.
LEMMA RowStep == TypeOK /\ EventInv /\ RowInv /\ [Next]_vars => RowInv'
<1>1. SUFFICES ASSUME TypeOK, EventInv, RowInv, [Next]_vars PROVE RowInv'
  OBVIOUS
<1> USE <1>1 DEF TypeOK, EventInv, RowInv, Idle
<1>2. ASSUME NEW e \in Events, Sends(e) PROVE RowInv'
  BY <1>2 DEF Sends
<1>3. ASSUME NEW e \in Events, WebhookRefused(e) PROVE RowInv'
  BY <1>3 DEF WebhookRefused
<1>4. ASSUME NEW r \in Requests, NEW e \in Events, mango_webhook(r, e) PROVE RowInv'
  BY <1>4 DEF mango_webhook, Locals
<1>5. ASSUME NEW r \in Requests, NEW e \in Events, freeswitch_inbound_sip(r, e) PROVE RowInv'
  BY <1>5 DEF freeswitch_inbound_sip, Locals
<1>6. ASSUME NEW r \in Requests, mark_event_seen(r) PROVE RowInv'
  BY <1>6 DEF mark_event_seen, Locals
<1>7. ASSUME NEW r \in Requests, Correlate(r) PROVE RowInv'
  <2>1. UNCHANGED <<kind, row>>
    BY <1>7 DEF Correlate
  <2>2. QED
    BY <1>7, <2>1, CorrelateEffect, InboundAssumption, NoneAssumption DEF Calls
<1>8. ASSUME NEW r \in Requests, apply_call_state(r) PROVE RowInv'
  <2>1. UNCHANGED <<kind, row>>
    BY <1>8 DEF apply_call_state
  <2>2. QED
    BY <1>8, <2>1, ApplyEffect DEF Unsettled
<1>9. ASSUME NEW r \in Requests, NotLaunched(r) PROVE RowInv'
  BY <1>9 DEF NotLaunched, Locals
<1>10. ASSUME NEW r \in Requests, Launch(r) PROVE RowInv'
  BY <1>10, NoneAssumption, InboundAssumption, RoutedAssumption DEF Launch, Locals
<1>11. ASSUME NEW r \in Requests, Commit(r) PROVE RowInv'
  <2>1. UNCHANGED kind
    BY <1>11 DEF Commit
  <2>2. req[r].new # NoCall => kind[req[r].ev].leg = "in"
    OBVIOUS
  <2>3. \A q \in Requests : /\ req[q].call # NoCall => req[q].call \in Calls
                            /\ req[q].new # NoCall => req[q].new \in Calls
                            /\ req[q].call \in Inbound => req[q].call # NoCall
                            /\ req[q].new \in Inbound => req[q].new # NoCall
    BY NoneAssumption DEF Locals, Calls
  <2>4. \A c \in Inbound : row'[c].st # "none" => row'[c].leg = "in"
    BY <1>11, <2>2, <2>3, CommitEffect DEF Calls
  <2>5. \A c \in Calls : row[c].st # "none" => row'[c].st # "none"
    BY <1>11, <2>3, CommitEffect, NoneAssumption DEF Calls
  <2>6. ASSUME NEW q \in Requests \ {r}, req[q].new # NoCall
        PROVE  row'[req[q].new].st = "none"
    BY <1>11, <2>3, <2>6, CommitEffect
  <2>7. QED
    BY <1>11, <2>1, <2>3, <2>4, <2>5, <2>6, NoneAssumption, CommitEffect
<1>12. ASSUME NEW r \in Requests, RequestFails(r) PROVE RowInv'
  BY <1>12, NoneAssumption, InboundAssumption, RoutedAssumption DEF RequestFails, Locals
<1>13. CASE OutboundCommits
  BY <1>13, NoneAssumption, InboundAssumption, RoutedAssumption DEF OutboundCommits, Calls, Locals
<1>14. CASE TransferOpens
  BY <1>14, NoneAssumption, InboundAssumption, RoutedAssumption DEF TransferOpens
<1>15. ASSUME NEW c \in Calls, SessionEnds(c) PROVE RowInv'
  BY <1>15 DEF SessionEnds
<1>16. CASE UNCHANGED vars
  BY <1>16 DEF vars
<1> HIDE DEF RowInv
<1>18. QED
  BY <1>1, <1>2, <1>3, <1>4, <1>5, <1>6, <1>7, <1>8, <1>9, <1>10, <1>11, <1>12, <1>13, <1>14, <1>15, <1>16, Zenon
     DEF Next, ensure_inbound_call, ensure_inbound_sip_call

\* While requests take turns nobody's reading gets stale.
LEMMA TurnStep == TypeOK /\ EventInv /\ RowInv /\ TurnInv /\ [Next]_vars => TurnInv'
<1>1. SUFFICES ASSUME TypeOK, EventInv, RowInv, TurnInv, [Next]_vars PROVE TurnInv'
  OBVIOUS
<1> USE <1>1 DEF TypeOK, EventInv, RowInv, TurnInv, Turn, Idle
<1>2. ASSUME NEW e \in Events, Sends(e) PROVE TurnInv'
  BY <1>2 DEF Sends
<1>3. ASSUME NEW e \in Events, WebhookRefused(e) PROVE TurnInv'
  BY <1>3 DEF WebhookRefused
<1>4. ASSUME NEW r \in Requests, NEW e \in Events, mango_webhook(r, e) PROVE TurnInv'
  BY <1>4 DEF mango_webhook, Locals
<1>5. ASSUME NEW r \in Requests, NEW e \in Events, freeswitch_inbound_sip(r, e) PROVE TurnInv'
  BY <1>5 DEF freeswitch_inbound_sip, Locals
<1>6. ASSUME NEW r \in Requests, mark_event_seen(r) PROVE TurnInv'
  BY <1>6 DEF mark_event_seen, Locals
<1>7. ASSUME NEW r \in Requests, Correlate(r) PROVE TurnInv'
  <2>1. UNCHANGED <<serial, xfer, row>>
    BY <1>7 DEF Correlate
  <2>2. QED
    BY <1>7, <2>1, CorrelateEffect
<1>8. ASSUME NEW r \in Requests, apply_call_state(r) PROVE TurnInv'
  <2>1. UNCHANGED <<serial, xfer, row>>
    BY <1>8 DEF apply_call_state
  <2>2. QED
    BY <1>8, <2>1, ApplyEffect DEF Locals, Calls, Unsettled
<1>9. ASSUME NEW r \in Requests, NotLaunched(r) PROVE TurnInv'
  BY <1>9 DEF NotLaunched, Locals
<1>10. ASSUME NEW r \in Requests, Launch(r) PROVE TurnInv'
  BY <1>10 DEF Launch, Locals
<1>11. ASSUME NEW r \in Requests, Commit(r) PROVE TurnInv'
  BY <1>11 DEF Commit, Locals
<1>12. ASSUME NEW r \in Requests, RequestFails(r) PROVE TurnInv'
  BY <1>12 DEF RequestFails, Locals
<1>13. CASE OutboundCommits
  BY <1>13 DEF OutboundCommits
<1>14. CASE TransferOpens
  BY <1>14 DEF TransferOpens
<1>15. ASSUME NEW c \in Calls, SessionEnds(c) PROVE TurnInv'
  BY <1>15 DEF SessionEnds
<1>16. CASE UNCHANGED vars
  BY <1>16 DEF vars
<1> HIDE DEF TurnInv
<1>18. QED
  BY <1>1, <1>2, <1>3, <1>4, <1>5, <1>6, <1>7, <1>8, <1>9, <1>10, <1>11, <1>12, <1>13, <1>14, <1>15, <1>16, Zenon
     DEF Next, ensure_inbound_call, ensure_inbound_sip_call

\* A second session needs a row that was forgotten.
LEMMA SessionStep == TypeOK /\ EventInv /\ RowInv /\ TurnInv /\ SessionInv /\ [Next]_vars => SessionInv'
<1>1. SUFFICES ASSUME TypeOK, EventInv, RowInv, TurnInv, SessionInv, [Next]_vars PROVE SessionInv'
  OBVIOUS
<1> USE <1>1 DEF TypeOK, EventInv, RowInv, TurnInv, SessionInv, Idle
<1>2. ASSUME NEW e \in Events, Sends(e) PROVE SessionInv'
  BY <1>2 DEF Sends
<1>3. ASSUME NEW e \in Events, WebhookRefused(e) PROVE SessionInv'
  BY <1>3 DEF WebhookRefused
<1>4. ASSUME NEW r \in Requests, NEW e \in Events, mango_webhook(r, e) PROVE SessionInv'
  BY <1>4 DEF mango_webhook, Locals
<1>5. ASSUME NEW r \in Requests, NEW e \in Events, freeswitch_inbound_sip(r, e) PROVE SessionInv'
  BY <1>5 DEF freeswitch_inbound_sip, Locals
<1>6. ASSUME NEW r \in Requests, mark_event_seen(r) PROVE SessionInv'
  BY <1>6 DEF mark_event_seen, Locals
<1>7. ASSUME NEW r \in Requests, Correlate(r) PROVE SessionInv'
  <2>1. UNCHANGED <<serial, row, started, forgotten>>
    BY <1>7 DEF Correlate
  <2>2. QED
    BY <1>7, <2>1, CorrelateEffect
<1>8. ASSUME NEW r \in Requests, apply_call_state(r) PROVE SessionInv'
  <2>1. UNCHANGED <<serial, row, started, forgotten>>
    BY <1>8 DEF apply_call_state
  <2>2. QED
    BY <1>8, <2>1, ApplyEffect
<1>9. ASSUME NEW r \in Requests, NotLaunched(r) PROVE SessionInv'
  BY <1>9 DEF NotLaunched, Locals
<1>10. ASSUME NEW r \in Requests, Launch(r) PROVE SessionInv'
  BY <1>10 DEF Launch, Locals
<1>11. ASSUME NEW r \in Requests, Commit(r) PROVE SessionInv'
  <2>1. UNCHANGED <<serial, started, forgotten>>
        /\ req'[r] = Idle /\ \A q \in Requests \ {r} : req'[q] = req[q]
    BY <1>11 DEF Commit
  <2>2. \A c \in Inbound : row[c].st # "none" => row'[c].st # "none"
    BY <1>11, NoneAssumption DEF Commit, Calls, Locals
  <2>3. req[r].new # NoCall => req[r].new \in Inbound /\ row'[req[r].new].st # "none"
    BY <1>11 DEF Commit, Calls, Locals
  <2>4. QED
    BY <2>1, <2>2, <2>3
<1>12. ASSUME NEW r \in Requests, RequestFails(r) PROVE SessionInv'
  BY <1>12 DEF RequestFails, Locals
<1>13. CASE OutboundCommits
  BY <1>13 DEF OutboundCommits
<1>14. CASE TransferOpens
  BY <1>14 DEF TransferOpens
<1>15. ASSUME NEW c \in Calls, SessionEnds(c) PROVE SessionInv'
  BY <1>15 DEF SessionEnds
<1>16. CASE UNCHANGED vars
  BY <1>16 DEF vars
<1> HIDE DEF SessionInv
<1>18. QED
  BY <1>1, <1>2, <1>3, <1>4, <1>5, <1>6, <1>7, <1>8, <1>9, <1>10, <1>11, <1>12, <1>13, <1>14, <1>15, <1>16, Zenon
     DEF Next, ensure_inbound_call, ensure_inbound_sip_call

-----------------------------------------------------------------------------
(* Theorems                                                                *)

\* The inductive invariant: types, events that were sent, the mark of the event
\* store, requests in step with the rows, readings that are not stale while
\* requests take turns, and sessions that have a row.
THEOREM Invariance == Spec => []IInv
<1>1. IInv /\ [Next]_vars => IInv'
  BY TypeStep, EventStep, OnceStep, RowStep, TurnStep, SessionStep DEF IInv
<1>2. QED
  BY <1>1, InitIInv, PTL DEF Spec

\* Every variable of the webhooks' model keeps its type.
THEOREM TypeCorrect == Spec => []TypeOK
<1>1. IInv => TypeOK
  BY DEF IInv
<1>2. QED
  BY <1>1, Invariance, PTL

\* An event is applied at most once however often it is delivered and by however
\* many requests at once: SET NX of mark_event_seen lets one request carry it.
THEOREM EventsAppliedOnce == Spec => []AppliedOnce
<1>1. IInv => AppliedOnce
  BY DEF IInv, OnceInv
<1>2. QED
  BY <1>1, Invariance, PTL

\* As long as requests take turns the incoming leg gets a second session only
\* after the row of one was rolled back (ensure_inbound_call looks for the row).
THEOREM OneSessionPerLeg == Spec => []OneSession
<1>1. IInv => OneSession
  BY DEF IInv, TypeOK, SessionInv, OneSession
<1>2. QED
  BY <1>1, Invariance, PTL

\* As long as requests take turns no event changes a call that is over, but for
\* the report that settles its transfer (_apply_call_state).
THEOREM OverCallStays == Spec => OverStays
<1> DEFINE Kept(c) == row[c].st \in Terminal =>
                        row'[c].st = row[c].st \/ (c = "out" /\ xfer \in Unsettled /\ xfer' # xfer)
<1>1. ASSUME IInv, [Next]_vars, serial PROVE \A c \in Calls : Kept(c)
  <2>1. ASSUME NEW r \in Requests, Commit(r) PROVE \A c \in Calls : Kept(c)
    <3>1. SUFFICES ASSUME NEW c \in Calls, row[c].st \in Terminal, row'[c].st # row[c].st
                   PROVE  c = "out" /\ xfer \in Unsettled /\ xfer' # xfer
      OBVIOUS
    <3>2. TypeOK /\ c # NoCall
      BY <1>1, NoneAssumption DEF IInv, Calls
    <3>3. c # req[r].new
      BY <1>1, <3>1, <3>2 DEF IInv, RowInv, Terminal
    <3>4. c = req[r].call /\ req[r].st # row[c].st
      BY <2>1, <3>1, <3>2, <3>3, CommitEffect
    <3>5. /\ req[r].call = "out" /\ xfer \in Unsettled
          /\ req[r].xfer \in {"connected", "failed"}
      BY <1>1, <3>1, <3>2, <3>4 DEF IInv, TurnInv
    <3>6. QED
      BY <2>1, <3>4, <3>5 DEF Commit, Unsettled
  <2>2. CASE TransferOpens
    BY <1>1, <2>2 DEF TransferOpens, IInv, TypeOK, Terminal
  <2>3. CASE OutboundCommits
    BY <1>1, <2>3 DEF OutboundCommits, IInv, TypeOK, Terminal
  <2>4. ASSUME NEW c \in Calls, SessionEnds(c) PROVE \A d \in Calls : Kept(d)
    BY <1>1, <2>4 DEF SessionEnds, IInv, TypeOK, Terminal
  <2>5. ASSUME UNCHANGED row PROVE \A c \in Calls : Kept(c)
    BY <2>5
  <2>6. ASSUME NEW e \in Events,
               Sends(e) \/ WebhookRefused(e)
               \/ \E r \in Requests : mango_webhook(r, e) \/ freeswitch_inbound_sip(r, e)
        PROVE  UNCHANGED row
    BY <2>6 DEF Sends, WebhookRefused, mango_webhook, freeswitch_inbound_sip
  <2>7. ASSUME NEW r \in Requests,
               \/ mark_event_seen(r) \/ Correlate(r) \/ apply_call_state(r) \/ NotLaunched(r)
               \/ Launch(r) \/ RequestFails(r)
        PROVE  UNCHANGED row
    BY <2>7 DEF mark_event_seen, Correlate, apply_call_state, NotLaunched, Launch, RequestFails
  <2>8. CASE UNCHANGED vars
    BY <2>5, <2>8 DEF vars
  <2> HIDE DEF Kept
  <2>9. QED
    BY <1>1, <2>1, <2>2, <2>3, <2>4, <2>5, <2>6, <2>7, <2>8, Zenon
       DEF Next, ensure_inbound_call, ensure_inbound_sip_call
<1>2. IInv /\ [Next]_vars =>
        [serial => \A c \in Calls :
           row[c].st \in Terminal =>
               row'[c].st = row[c].st \/ (c = "out" /\ xfer \in Unsettled /\ xfer' # xfer)]_vars
  BY <1>1, Zenon
<1>3. QED
  BY <1>2, Invariance, PTL DEF Spec, OverStays

-----------------------------------------------------------------------------
(* MangoDial: one leg, three writers, two stores                           *)

(* The hash of the correlation store                                       *)

\* A hash is a record of strings with a field of states, and nothing else is one.
LEMMA HashFields ==
    ASSUME NEW S, NEW h \in HashOf(S)
    PROVE  /\ h \in Hashes /\ h \in [Fields -> States \cup Ids \cup {"0", "1"}]
           /\ \A f \in {"mango_state", "freeswitch_state", "effective_state"} :
                  f \in Fields /\ h[f] \in S /\ h[f] \in States
           /\ h["freeswitch_uuid"] \in Ids \cup {"none"}
           /\ h["answered_seen"] = "1" => Accepted \subseteq S
           /\ h["bridged_seen"] = "1" => Accepted \subseteq S
BY DEF HashOf, Hashes, Fields

\* What makes a hash one that speaks of the states of S only.
LEMMA HashIntro ==
    ASSUME NEW S \in SUBSET States, NEW h \in [Fields -> States \cup Ids \cup {"0", "1"}],
           h["mango_state"] \in S, h["freeswitch_state"] \in S, h["effective_state"] \in S,
           h["freeswitch_uuid"] \in Ids \cup {"none"},
           h["answered_seen"] = "1" => Accepted \subseteq S,
           h["bridged_seen"] = "1" => Accepted \subseteq S
    PROVE  h \in HashOf(S)
BY DEF HashOf, Hashes

\* Whoever may believe more may also believe the hash.
LEMMA HashGrows ==
    ASSUME NEW S, NEW T, S \subseteq T
    PROVE  HashOf(S) \subseteq HashOf(T) /\ OpOf(S) \subseteq OpOf(T)
<1>1. HashOf(S) \subseteq HashOf(T)
  BY DEF HashOf
<1>2. QED
  BY <1>1 DEF OpOf

\* An empty hash and an actor without an update speak of no state.
LEMMA NoFieldsHash == ASSUME NEW S \in SUBSET States, "none" \in S
                      PROVE  NoFields \in HashOf(S) /\ NoOp \in OpOf(S)
<1>1. NoFields \in HashOf(S)
  BY HashIntro DEF NoFields, Fields, States
<1>2. QED
  BY <1>1 DEF OpOf, NoOp

\* Each field of what a patch makes of a hash comes from one of the two.
LEMMA OverHash ==
    ASSUME NEW S \in SUBSET States, NEW p \in HashOf(S), NEW h \in HashOf(S)
    PROVE  Over(p, h) \in HashOf(S)
<1>1. \A f \in Fields : Over(p, h)[f] = p[f] \/ Over(p, h)[f] = h[f]
  BY DEF Over
<1>2. Over(p, h) \in [Fields -> States \cup Ids \cup {"0", "1"}]
  BY HashFields DEF Over
<1>3. Fields = {"mango_state", "freeswitch_state", "effective_state", "freeswitch_uuid",
                "answered_seen", "bridged_seen"}
  BY DEF Fields
<1>4. Over(p, h)["mango_state"] \in S /\ Over(p, h)["freeswitch_state"] \in S
      /\ Over(p, h)["effective_state"] \in S /\ Over(p, h)["freeswitch_uuid"] \in Ids \cup {"none"}
  BY <1>1, <1>3, HashFields
<1>5. /\ Over(p, h)["answered_seen"] = "1" => Accepted \subseteq S
      /\ Over(p, h)["bridged_seen"] = "1" => Accepted \subseteq S
  BY <1>1, <1>3, HashFields
<1>6. QED
  BY <1>2, <1>4, <1>5, HashIntro

\* The effective state is one of the two states it is computed from.
LEMMA EffectiveState ==
    ASSUME NEW m \in States, NEW f \in States
    PROVE  effective_state(m, f) \in {m, f}
<1>1. PICK known : known = {m, f} \ {"none"}
  OBVIOUS
<1>2. CASE known = {}
  BY <1>1, <1>2 DEF effective_state
<1>3. CASE known # {}
  <2>1. known \subseteq TelephonyLegState
    BY <1>1 DEF States
  <2>2. \A s \in TelephonyLegState : Rank[s] \in Int
    BY DEF Rank, TelephonyLegState
  <2>3. \E s \in known : \A t \in known : Rank[s] =< Rank[t]
    BY <1>1, <1>3, <2>1, <2>2
  <2>4. effective_state(m, f) = CHOOSE s \in known : \A t \in known : Rank[s] =< Rank[t]
    BY <1>1, <1>3 DEF effective_state
  <2>5. effective_state(m, f) \in known
    BY <2>3, <2>4
  <2>6. QED
    BY <1>1, <2>5
<1>4. QED
  BY <1>2, <1>3

\* _merge_and_store brings in no state that neither the patch nor the hash has.
LEMMA MergedHash ==
    ASSUME NEW S \in SUBSET States, NEW p \in HashOf(S), NEW h \in HashOf(S)
    PROVE  Merged(p, h) \in HashOf(S)
<1>1. PICK m \in HashOf(S) : m = Over(p, h)
  BY OverHash
<1>2. PICK e \in S : e = effective_state(m["mango_state"], m["freeswitch_state"])
  BY HashFields, EffectiveState
<1>3. m \in HashOf(S) /\ [m EXCEPT !["effective_state"] = e] \in HashOf(S)
  <2>1. PICK n : n = [m EXCEPT !["effective_state"] = e]
    OBVIOUS
  <2>2. m \in [Fields -> States \cup Ids \cup {"0", "1"}] /\ "effective_state" \in Fields
    BY HashFields
  <2>3. /\ n \in [Fields -> States \cup Ids \cup {"0", "1"}] /\ n["effective_state"] = e
        /\ \A f \in Fields \ {"effective_state"} : n[f] = m[f]
    BY <2>1, <2>2
  <2>4. /\ n["mango_state"] = m["mango_state"] /\ n["freeswitch_state"] = m["freeswitch_state"]
        /\ n["freeswitch_uuid"] = m["freeswitch_uuid"]
        /\ n["answered_seen"] = m["answered_seen"] /\ n["bridged_seen"] = m["bridged_seen"]
    BY <2>3 DEF Fields
  <2>5. n \in HashOf(S)
    BY <2>3, <2>4, HashFields, HashIntro
  <2>6. QED
    BY <2>1, <2>5
<1>4. QED
  BY <1>1, <1>2, <1>3 DEF Merged

\* The flags upsert_mapping writes back are those of the hash or of its states.
LEMMA SeenAccepted ==
    ASSUME NEW S \in SUBSET States, \A s \in S : s \in Accepted => Accepted \subseteq S,
           NEW h \in HashOf(S)
    PROVE  /\ Seen(h, Accepted, "answered_seen") \in {"0", "1"}
           /\ Seen(h, {"BRIDGED"}, "bridged_seen") \in {"0", "1"}
           /\ Seen(h, Accepted, "answered_seen") = "1" => Accepted \subseteq S
           /\ Seen(h, {"BRIDGED"}, "bridged_seen") = "1" => Accepted \subseteq S
<1>1. "BRIDGED" \in Accepted
  BY DEF Accepted
<1>2. h["mango_state"] \in S /\ h["freeswitch_state"] \in S
  BY HashFields
<1>3. /\ h["answered_seen"] = "1" => Accepted \subseteq S
      /\ h["bridged_seen"] = "1" => Accepted \subseteq S
  BY HashFields
<1>4. QED
  BY <1>1, <1>2, <1>3 DEF Seen

\* What upsert_mapping and the two setters are about to write.
LEMMA UpsertOp ==
    ASSUME NEW S \in SUBSET States, "none" \in S, NEW u \in Ids
    PROVE  upsert_mapping(u) \in OpOf(S)
<1>1. NoFields \in HashOf(S)
  BY NoFieldsHash
<1>2. [NoFields EXCEPT !["freeswitch_uuid"] = u] \in HashOf(S)
  BY HashIntro DEF NoFields, Fields, States
<1>3. QED
  BY <1>1, <1>2 DEF upsert_mapping, OpOf

\* set_mango_state and set_freeswitch_state of a state of S speak of S only.
LEMMA StateOps ==
    ASSUME NEW S \in SUBSET States, "none" \in S,
           \A s \in S : s \in Accepted => Accepted \subseteq S,
           NEW s \in S, NEW u \in Ids
    PROVE  set_mango_state(s) \in OpOf(S) /\ set_freeswitch_state(s, u) \in OpOf(S)
<1>1. NoFields \in HashOf(S)
  BY NoFieldsHash
<1>2. PICK a \in {"none", "1"}, b \in {"none", "1"} :
          /\ a = "1" => s \in Accepted
          /\ b = "1" => s \in Accepted
          /\ Flags(s) = [NoFields EXCEPT !["answered_seen"] = a, !["bridged_seen"] = b]
  BY DEF Flags, Accepted
<1>3. /\ a = "1" => Accepted \subseteq S
      /\ b = "1" => Accepted \subseteq S
  BY <1>2
<1>4. [Flags(s) EXCEPT !["mango_state"] = s] \in HashOf(S)
  BY <1>2, <1>3, HashIntro DEF NoFields, Fields, States
<1>5. [Flags(s) EXCEPT !["freeswitch_state"] = s, !["freeswitch_uuid"] = u] \in HashOf(S)
  BY <1>2, <1>3, HashIntro DEF NoFields, Fields, States
<1>6. QED
  BY <1>1, <1>4, <1>5 DEF set_mango_state, set_freeswitch_state, OpOf

\* The state that wait_for_leg_state takes from the hash is in it, or its flags are.
LEMMA CorrelationStates ==
    ASSUME NEW S \in SUBSET States, NEW h \in HashOf(S)
    PROVE  /\ observed_via_correlation(h) \in (Accepted \cap S) \cup {"none"}
           /\ CorrelationState(h) \in ((Accepted \cup EndStates) \cap S) \cup {"none"}
<1>1. observed_via_correlation(h) \in (Accepted \cap S) \cup {"none"}
  BY HashFields DEF observed_via_correlation, Accepted
<1>2. QED
  BY <1>1, HashFields DEF CorrelationState


-----------------------------------------------------------------------------
(* The phone and the places                                                *)

\* Every step keeps LineInv.
LEMMA DialLineStep ==
    ASSUME DialIInv, [DialNext]_dialVars
    PROVE  LineInv'
<1>0. /\ pc \in [Actors -> Places] /\ {"dial", "esl", "hook"} \subseteq Actors
      /\ answered \in BOOLEAN /\ line \in {"idle", "trying", "ringing", "up", "gone"}
  BY DEF DialIInv, DialTypeOK, Actors
<1>a. LineInv
  BY DEF DialIInv
<1>1. CASE Rings
  BY <1>0, <1>a, <1>1 DEF Rings, LineMoves, Reported, Event, LineInv
<1>2. CASE Answers
  BY <1>0, <1>a, <1>2 DEF Answers, LineMoves, Reported, Event, LineInv
<1>3. CASE Bridges
  BY <1>0, <1>a, <1>3 DEF Bridges, LineMoves, Reported, LineInv
<1>4. CASE HangsUp
  BY <1>0, <1>a, <1>4 DEF HangsUp, LineMoves, Reported, Event, LineInv
<1>5. CASE ChildEvent
  BY <1>0, <1>a, <1>5 DEF ChildEvent, LineInv
<1>6. CASE originate_call
  BY <1>0, <1>a, <1>6 DEF originate_call, At, LineInv
<1>7. CASE OriginateRaises
  BY <1>0, <1>a, <1>7 DEF OriginateRaises, At, DialRest, LineInv
<1>8. CASE OriginateRefused
  BY <1>0, <1>a, <1>8 DEF OriginateRefused, At, LineInv
<1>9. CASE OriginateReplied
  BY <1>0, <1>a, <1>9 DEF OriginateReplied, At, DialRest, LineInv
<1>10. CASE LegInitialised
  BY <1>0, <1>a, <1>10 DEF LegInitialised, At, DialRest, LineInv
<1>11. CASE CallbackReplied
  BY <1>0, <1>a, <1>11 DEF CallbackReplied, At, DialRest, LineInv
<1>12. CASE wait_for_leg_state
  BY <1>0, <1>a, <1>12 DEF wait_for_leg_state, At, DialRest, LineInv, AfterState
<1>13. CASE wait_via_correlation
  BY <1>0, <1>a, <1>13 DEF wait_via_correlation, At, DialRest, LineInv
<1>14. CASE PolledSaved
  BY <1>0, <1>a, <1>14 DEF PolledSaved, At, DialRest, LineInv, AfterState
<1>15. CASE wait_via_freeswitch
  BY <1>0, <1>a, <1>15 DEF wait_via_freeswitch, At, DialRest, LineInv
<1>16. CASE wait_for_answered
  BY <1>0, <1>a, <1>16 DEF wait_for_answered, At, DialRest, LineInv
<1>17. CASE resolve_provider_leg_id
  BY <1>0, <1>a, <1>17 DEF resolve_provider_leg_id, At, DialRest, LineInv
<1>18. CASE ConnectExisting
  BY <1>0, <1>a, <1>18 DEF ConnectExisting, At, LineInv
<1>19. CASE ExistingMapped
  BY <1>0, <1>a, <1>19 DEF ExistingMapped, At, DialRest, LineInv
<1>20. CASE AnswerTimeout
  BY <1>0, <1>a, <1>20 DEF AnswerTimeout, At, DialRest, LineInv
<1>21. CASE TerminateSkipped
  BY <1>0, <1>a, <1>21 DEF TerminateSkipped, DialRest, LineInv
<1>22. CASE terminate_leg
  BY <1>0, <1>a, <1>22 DEF terminate_leg, LineInv
<1>23. CASE TerminateRaises
  BY <1>0, <1>a, <1>23 DEF TerminateRaises, LineInv
<1>24. CASE ReadEvent
  BY <1>0, <1>a, <1>24 DEF ReadEvent, At, LineInv
<1>25. CASE EventState
  BY <1>0, <1>a, <1>25 DEF EventState, At, LineInv
<1>26. CASE HookTaken
  BY <1>0, <1>a, <1>26 DEF HookTaken, At, HookRest, LineInv
<1>27. CASE HookAliased
  BY <1>0, <1>a, <1>27 DEF HookAliased, At, HookRest, LineInv
<1>28. ASSUME NEW a \in Actors, OpRead(a) PROVE LineInv'
  BY <1>0, <1>a, <1>28 DEF OpRead, LineInv
<1>29. ASSUME NEW a \in Actors, OpWrite(a) PROVE LineInv'
  BY <1>0, <1>a, <1>29 DEF OpWrite, LineInv
<1>30. CASE UNCHANGED dialVars
  BY <1>0, <1>a, <1>30 DEF dialVars, LineInv
<1>31. QED
  BY <1>1, <1>2, <1>3, <1>4, <1>5, <1>6, <1>7, <1>8, <1>9, <1>10, <1>11, <1>12, <1>13,
     <1>14, <1>15, <1>16, <1>17, <1>18, <1>19, <1>20, <1>21, <1>22, <1>23, <1>24, <1>25,
     <1>26, <1>27, <1>28, <1>29, <1>30 DEF DialNext, Connects, Terminates

\* What could be believed can be believed from then on: an answer stays an answer,
\* and nothing brings the line back up.
LEMMA BeliefGrows ==
    ASSUME DialIInv, [DialNext]_dialVars
    PROVE  Believable \subseteq Believable'
<1>0. /\ pc \in [Actors -> Places] /\ {"dial", "esl", "hook"} \subseteq Actors
      /\ answered \in BOOLEAN /\ misled \in BOOLEAN /\ early \in BOOLEAN
      /\ line \in {"idle", "trying", "ringing", "up", "gone"}
  BY DEF DialIInv, DialTypeOK, Actors
<1>a. LineInv
  BY DEF DialIInv
<1>b. SUFFICES (PickedUp => PickedUp') /\ (Down => Down')
  BY DEF Believable
<1>1. CASE Rings
  BY <1>0, <1>a, <1>1 DEF Rings, LineMoves, Reported, Event, LineInv, PickedUp, Down
<1>2. CASE Answers
  BY <1>0, <1>a, <1>2 DEF Answers, LineMoves, Reported, Event, LineInv, PickedUp, Down
<1>3. CASE Bridges
  BY <1>0, <1>a, <1>3 DEF Bridges, LineMoves, Reported, LineInv, PickedUp, Down
<1>4. CASE HangsUp
  BY <1>0, <1>a, <1>4 DEF HangsUp, LineMoves, Reported, Event, LineInv, PickedUp, Down
<1>5. CASE ChildEvent
  BY <1>0, <1>a, <1>5 DEF ChildEvent, LineInv, PickedUp, Down
<1>6. CASE originate_call
  BY <1>0, <1>a, <1>6 DEF originate_call, At, LineInv, PickedUp, Down
<1>7. CASE OriginateRaises
  BY <1>0, <1>a, <1>7 DEF OriginateRaises, At, DialRest, LineInv, PickedUp, Down
<1>8. CASE OriginateRefused
  BY <1>0, <1>a, <1>8 DEF OriginateRefused, At, LineInv, PickedUp, Down
<1>9. CASE OriginateReplied
  BY <1>0, <1>a, <1>9 DEF OriginateReplied, At, DialRest, LineInv, PickedUp, Down
<1>10. CASE LegInitialised
  BY <1>0, <1>a, <1>10 DEF LegInitialised, At, DialRest, LineInv, PickedUp, Down
<1>11. CASE CallbackReplied
  BY <1>0, <1>a, <1>11 DEF CallbackReplied, At, DialRest, LineInv, PickedUp, Down
<1>12. CASE wait_for_leg_state
  BY <1>0, <1>a, <1>12 DEF wait_for_leg_state, At, DialRest, LineInv, PickedUp, Down,
     AfterState
<1>13. CASE wait_via_correlation
  BY <1>0, <1>a, <1>13 DEF wait_via_correlation, At, DialRest, LineInv, PickedUp, Down
<1>14. CASE PolledSaved
  BY <1>0, <1>a, <1>14 DEF PolledSaved, At, DialRest, LineInv, PickedUp, Down, AfterState
<1>15. CASE wait_via_freeswitch
  BY <1>0, <1>a, <1>15 DEF wait_via_freeswitch, At, DialRest, LineInv, PickedUp, Down
<1>16. CASE wait_for_answered
  BY <1>0, <1>a, <1>16 DEF wait_for_answered, At, DialRest, LineInv, PickedUp, Down
<1>17. CASE resolve_provider_leg_id
  BY <1>0, <1>a, <1>17 DEF resolve_provider_leg_id, At, DialRest, LineInv, PickedUp, Down
<1>18. CASE ConnectExisting
  BY <1>0, <1>a, <1>18 DEF ConnectExisting, At, LineInv, PickedUp, Down
<1>19. CASE ExistingMapped
  BY <1>0, <1>a, <1>19 DEF ExistingMapped, At, DialRest, LineInv, PickedUp, Down
<1>20. CASE AnswerTimeout
  BY <1>0, <1>a, <1>20 DEF AnswerTimeout, At, DialRest, LineInv, PickedUp, Down
<1>21. CASE TerminateSkipped
  BY <1>0, <1>a, <1>21 DEF TerminateSkipped, DialRest, LineInv, PickedUp, Down
<1>22. CASE terminate_leg
  BY <1>0, <1>a, <1>22 DEF terminate_leg, LineInv, PickedUp, Down
<1>23. CASE TerminateRaises
  BY <1>0, <1>a, <1>23 DEF TerminateRaises, LineInv, PickedUp, Down
<1>24. CASE ReadEvent
  BY <1>0, <1>a, <1>24 DEF ReadEvent, At, LineInv, PickedUp, Down
<1>25. CASE EventState
  BY <1>0, <1>a, <1>25 DEF EventState, At, LineInv, PickedUp, Down
<1>26. CASE HookTaken
  BY <1>0, <1>a, <1>26 DEF HookTaken, At, HookRest, LineInv, PickedUp, Down
<1>27. CASE HookAliased
  BY <1>0, <1>a, <1>27 DEF HookAliased, At, HookRest, LineInv, PickedUp, Down
<1>28. ASSUME NEW a \in Actors, OpRead(a) PROVE (PickedUp => PickedUp') /\ (Down => Down')
  BY <1>0, <1>a, <1>28 DEF OpRead, LineInv, PickedUp, Down
<1>29. ASSUME NEW a \in Actors, OpWrite(a) PROVE (PickedUp => PickedUp') /\ (Down => Down')
  BY <1>0, <1>a, <1>29 DEF OpWrite, LineInv, PickedUp, Down
<1>30. CASE UNCHANGED dialVars
  BY <1>0, <1>a, <1>30 DEF dialVars, LineInv, PickedUp, Down
<1>31. QED
  BY <1>1, <1>2, <1>3, <1>4, <1>5, <1>6, <1>7, <1>8, <1>9, <1>10, <1>11, <1>12, <1>13,
     <1>14, <1>15, <1>16, <1>17, <1>18, <1>19, <1>20, <1>21, <1>22, <1>23, <1>24, <1>25,
     <1>26, <1>27, <1>28, <1>29, <1>30 DEF DialNext, Connects, Terminates

\* What can be believed at all: the states that say nothing, and the two that an
\* answer allows together.
LEMMA Beliefs ==
    /\ Believable \in SUBSET States /\ {"none", "INITIATING", "RINGING"} \subseteq Believable
    /\ \A s \in Believable : s \in Accepted => Accepted \subseteq Believable /\ PickedUp
    /\ \A s \in Believable : s \in EndStates => Down
    /\ PickedUp => Accepted \subseteq Believable
    /\ Down => EndStates \subseteq Believable
BY DEF Believable, States, TelephonyLegState, Accepted, EndStates

\* The same of the states that are believable after a step.
LEMMA BeliefsNext ==
    /\ Believable' \in SUBSET States /\ {"none", "INITIATING", "RINGING"} \subseteq Believable'
    /\ \A s \in Believable' : s \in Accepted => Accepted \subseteq Believable'
    /\ PickedUp' => Accepted \subseteq Believable'
    /\ Down' => EndStates \subseteq Believable'
BY DEF Believable, States, TelephonyLegState, Accepted, EndStates

-----------------------------------------------------------------------------
(* The stores                                                              *)

\* Whoever writes to a store, or over the hash with a copy it has read before,
\* writes what could be believed then and can be believed now.
LEMMA DialStoreStep ==
    ASSUME DialIInv, [DialNext]_dialVars
    PROVE  StoreInv'
<1>0. /\ pc \in [Actors -> Places] /\ {"dial", "esl", "hook"} \subseteq Actors
      /\ wire \in Seq(WireEvents) /\ channel \in Ids \cup {"none"}
      /\ misled \in BOOLEAN /\ early \in BOOLEAN /\ answered \in BOOLEAN /\ LineInv /\ PlaceInv
  BY DEF DialIInv, DialTypeOK, Actors
<1>a. PICK T : T = Believable' /\ Believable \subseteq T
  BY BeliefGrows
<1>b. /\ pc["dial"] \in {"mapped", "polled"} => val \in T
      /\ \A h \in hooks : h.state \in T
      /\ pc["hook"] = "alias" => cur.hook.state \in T
      /\ pc["esl"] = "state" => cur.esl.state \in T
  BY <1>a DEF DialIInv, DialInv, ReportInv
<1>1. store \in [Ids -> T] /\ corr \in HashOf(T) /\ op \in [Actors -> OpOf(T)]
  BY <1>a, HashGrows DEF DialIInv, StoreInv
<1>2. \A i \in Ids, s \in T : [store EXCEPT ![i] = s] \in [Ids -> T]
  BY <1>1
<1>3. \A x \in Actors, o \in OpOf(T) : [op EXCEPT ![x] = o] \in [Actors -> OpOf(T)]
  BY <1>1
<1>5. /\ T \in SUBSET States /\ {"none", "INITIATING", "RINGING"} \subseteq T
      /\ \A s \in T : s \in Accepted => Accepted \subseteq T
      /\ PickedUp' => Accepted \subseteq T
      /\ Down' => EndStates \subseteq T
  BY <1>a, BeliefsNext
<1>4. \A u \in Ids : upsert_mapping(u) \in OpOf(T)
  BY <1>5, UpsertOp
<1>6. SUFFICES store' \in [Ids -> T] /\ corr' \in HashOf(T) /\ op' \in [Actors -> OpOf(T)]
  BY <1>a DEF StoreInv
<1>7. CASE Rings
  BY <1>1, <1>7 DEF Rings, LineMoves, Reported, Event
<1>8. CASE Answers
  BY <1>1, <1>8 DEF Answers, LineMoves, Reported, Event
<1>9. CASE Bridges
  BY <1>1, <1>9 DEF Bridges, LineMoves, Reported
<1>10. CASE HangsUp
  BY <1>1, <1>10 DEF HangsUp, LineMoves, Reported, Event
<1>11. CASE ChildEvent
  BY <1>1, <1>11 DEF ChildEvent
<1>12. CASE originate_call
  BY <1>1, <1>12 DEF originate_call, At
<1>13. CASE OriginateRaises
  BY <1>1, <1>13 DEF OriginateRaises, At, DialRest
<1>14. CASE OriginateRefused
  <2>1. "FAILED" \in T
    BY <1>0, <1>5, <1>14 DEF OriginateRefused, Down, EndStates
  <2>2. set_freeswitch_state("FAILED", "leg") \in OpOf(T)
    BY <1>5, <2>1, StateOps DEF Ids
  <2>3. QED
    BY <1>1, <1>2, <1>3, <2>1, <2>2, <1>14 DEF OriginateRefused, Actors, Ids
<1>15. CASE OriginateReplied
  BY <1>1, <1>3, <1>4, <1>15 DEF OriginateReplied, DialRest, Actors, Ids
<1>16. CASE LegInitialised
  <2>1. val \in T
    BY <1>b, <1>16 DEF LegInitialised, At
  <2>2. val = "ANSWERED" => set_freeswitch_state("ANSWERED", "leg") \in OpOf(T)
    BY <1>5, <2>1, StateOps DEF Ids
  <2>3. QED
    BY <1>1, <1>2, <1>3, <2>1, <2>2, <1>16 DEF LegInitialised, DialRest, Actors, Ids
<1>17. CASE CallbackReplied
  BY <1>1, <1>2, <1>3, <1>4, <1>5, <1>17 DEF CallbackReplied, DialRest, Actors, Ids
<1>18. CASE wait_for_leg_state
  BY <1>1, <1>18 DEF wait_for_leg_state, At, DialRest
<1>19. CASE wait_via_correlation
  BY <1>1, <1>19 DEF wait_via_correlation, At, DialRest
<1>20. CASE PolledSaved
  <2>1. val \in T
    BY <1>b, <1>20 DEF PolledSaved, At
  <2>2. QED
    BY <1>1, <1>2, <2>1, <1>20 DEF PolledSaved, DialRest, Ids
<1>21. CASE wait_via_freeswitch
  <2>1. corr' = corr
    BY <1>21 DEF wait_via_freeswitch, DialRest
  <2>2. CASE /\ val \in Channels /\ ProbeConfirms(val)
             /\ store' = [store EXCEPT !["leg"] = "ANSWERED"]
             /\ op' = [op EXCEPT !["dial"] = set_freeswitch_state("ANSWERED", val)]
    <3>1. "ANSWERED" \in T
      <4>1. PickedUp
        BY <1>0, <2>2 DEF ProbeConfirms, answer_state, LineInv, PickedUp
      <4>2. QED
        BY <1>a, <4>1, Beliefs DEF Accepted
    <3>2. set_freeswitch_state("ANSWERED", val) \in OpOf(T)
      BY <1>5, <2>2, <3>1, StateOps DEF Ids, Channels
    <3>3. QED
      BY <1>1, <1>2, <1>3, <2>1, <2>2, <3>1, <3>2 DEF Actors, Ids
  <2>3. CASE store' = [store EXCEPT !["leg"] = "RINGING"] /\ op' = op
    BY <1>1, <1>2, <1>5, <2>1, <2>3 DEF Ids
  <2>4. CASE UNCHANGED <<store, op>>
    BY <1>1, <2>1, <2>4
  <2>5. QED
    BY <2>2, <2>3, <2>4, <1>21 DEF wait_via_freeswitch
<1>22. CASE wait_for_answered
  <2>1. PICK s : s = observed_via_correlation(corr)
    OBVIOUS
  <2>2. s = "none" \/ s \in T
    BY <1>1, <1>5, <2>1, CorrelationStates
  <2>3. /\ op' = op /\ corr' = corr
        /\ s # "none" => store' = [store EXCEPT !["leg"] = s]
        /\ s = "none" => store' = store
    BY <2>1, <1>22 DEF wait_for_answered, DialRest
  <2>4. QED
    BY <1>1, <1>2, <2>2, <2>3 DEF Ids
<1>23. CASE resolve_provider_leg_id
  BY <1>1, <1>23 DEF resolve_provider_leg_id, At, DialRest
<1>24. CASE ConnectExisting
  <2>1. "ANSWERED" \in T
    BY <1>0, <1>5, <1>24 DEF ConnectExisting, PickedUp, Accepted
  <2>2. QED
    BY <1>1, <1>2, <1>3, <1>4, <2>1, <1>24 DEF ConnectExisting, Actors, Ids
<1>25. CASE ExistingMapped
  <2>1. "ANSWERED" \in T
    BY <1>0, <1>5, <1>25 DEF ExistingMapped, PickedUp, Accepted
  <2>2. set_freeswitch_state("ANSWERED", "leg") \in OpOf(T)
    BY <1>5, <2>1, StateOps DEF Ids
  <2>3. QED
    BY <1>1, <1>3, <2>2, <1>25 DEF ExistingMapped, DialRest, Actors
<1>26. CASE AnswerTimeout
  BY <1>1, <1>26 DEF AnswerTimeout, At, DialRest
<1>27. CASE TerminateSkipped
  BY <1>1, <1>27 DEF TerminateSkipped, DialRest
<1>28. CASE terminate_leg
  <2>1. "TERMINATED" \in T
    BY <1>0, <1>5, <1>28 DEF terminate_leg, Down, EndStates
  <2>2. Target \in Ids
    BY <1>0 DEF Target, Ids
  <2>3. QED
    BY <1>1, <1>2, <2>1, <2>2, <1>28 DEF terminate_leg
<1>29. CASE TerminateRaises
  BY <1>1, <1>29 DEF TerminateRaises
<1>30. CASE ReadEvent
  <2>1. store' = store /\ corr' = corr
    BY <1>30 DEF ReadEvent
  <2>2. Head(wire) \in WireEvents
    BY <1>0, <1>30, HeadTailProperties DEF ReadEvent
  <2>3. Head(wire).id \in Ids
    BY <2>2 DEF WireEvents, Channels, Ids
  <2>4. op' = op \/ op' = [op EXCEPT !["esl"] = upsert_mapping(Head(wire).id)]
    BY <1>30 DEF ReadEvent
  <2>5. QED
    BY <1>1, <1>3, <1>4, <2>1, <2>3, <2>4 DEF Actors
<1>31. CASE EventState
  <2>1. cur.esl \in WireEvents /\ cur.esl.state \in T
    BY <1>0, <1>b, <1>31 DEF EventState, At, PlaceInv, ReportInv
  <2>2. cur.esl.id \in Ids
    BY <2>1 DEF WireEvents, Channels, Ids
  <2>3. set_freeswitch_state(cur.esl.state, cur.esl.id) \in OpOf(T)
    BY <1>5, <2>1, <2>2, StateOps
  <2>4. QED
    BY <1>1, <1>3, <2>3, <1>31 DEF EventState, Actors
<1>32. CASE HookTaken
  <2>1. PICK h \in hooks :
            /\ store' = [store EXCEPT ![IF h.id = "own" THEN "leg" ELSE "mango"] = h.state]
            /\ op' = IF h.id = "own" THEN [op EXCEPT !["hook"] = set_mango_state(h.state)] ELSE op
    BY <1>32 DEF HookTaken
  <2>2. h.state \in T
    BY <1>b DEF ReportInv
  <2>3. set_mango_state(h.state) \in OpOf(T)
    BY <1>5, <2>2, StateOps DEF Ids
  <2>4. corr' = corr
    BY <1>32 DEF HookTaken, HookRest
  <2>5. QED
    BY <1>1, <1>2, <1>3, <2>1, <2>2, <2>3, <2>4 DEF Actors, Ids
<1>33. CASE HookAliased
  <2>1. cur.hook.state \in T
    BY <1>b, <1>33 DEF HookAliased, At, ReportInv
  <2>2. QED
    BY <1>1, <1>2, <1>3, <1>4, <2>1, <1>33 DEF HookAliased, HookRest, Actors, Ids
<1>34. ASSUME NEW a \in Actors, OpRead(a) PROVE store' \in [Ids -> T] /\ corr' \in HashOf(T) /\ op' \in [Actors -> OpOf(T)]
  <2>1. op[a] \in OpOf(T) /\ op[a].patch \in HashOf(T)
    BY <1>1, <1>34 DEF OpOf
  <2>2. PICK x \in {"0", "1"}, y \in {"0", "1"} :
            /\ x = Seen(corr, Accepted, "answered_seen")
            /\ y = Seen(corr, {"BRIDGED"}, "bridged_seen")
            /\ x = "1" \/ y = "1" => Accepted \subseteq T
    BY <1>1, <1>5, SeenAccepted
  <2>3. [op[a].patch EXCEPT !["answered_seen"] = x, !["bridged_seen"] = y] \in HashOf(T)
    BY <1>5, <2>1, <2>2, HashFields, HashIntro DEF Fields
  <2>4. \E p \in HashOf(T) : op' = [op EXCEPT ![a] = [at |-> "write", patch |-> p, copy |-> corr]]
    BY <2>1, <2>2, <2>3, <1>34 DEF OpRead
  <2>5. QED
    BY <1>1, <1>3, <2>4, <1>34 DEF OpRead, OpOf
<1>35. ASSUME NEW a \in Actors, OpWrite(a) PROVE store' \in [Ids -> T] /\ corr' \in HashOf(T) /\ op' \in [Actors -> OpOf(T)]
  <2>1. op[a].patch \in HashOf(T) /\ op[a].copy \in HashOf(T)
    BY <1>1, <1>35 DEF OpOf
  <2>2. corr' \in HashOf(T)
    BY <1>1, <1>5, <2>1, MergedHash, OverHash, <1>35 DEF OpWrite
  <2>3. NoOp \in OpOf(T)
    BY <1>5, NoFieldsHash
  <2>4. QED
    BY <1>1, <1>3, <2>2, <2>3, <1>35 DEF OpWrite
<1>36. CASE UNCHANGED dialVars
  BY <1>1, <1>36 DEF dialVars
<1>37. QED
  BY <1>7, <1>8, <1>9, <1>10, <1>11, <1>12, <1>13, <1>14, <1>15, <1>16, <1>17, <1>18, <1>19,
     <1>20, <1>21, <1>22, <1>23, <1>24, <1>25, <1>26, <1>27, <1>28, <1>29, <1>30, <1>31,
     <1>32, <1>33, <1>34, <1>35, <1>36 DEF DialNext, Connects, Terminates

-----------------------------------------------------------------------------
(* The reports                                                             *)

\* A longer wire: everything on it was on it, or is the new event.
LEMMA WireLonger ==
    ASSUME NEW S, NEW q \in Seq(S), NEW e \in S
    PROVE  /\ Append(q, e) \in Seq(S)
           /\ \A i \in 1..Len(Append(q, e)) :
                  (i \in 1..Len(q) /\ Append(q, e)[i] = q[i]) \/ Append(q, e)[i] = e
<1>1. /\ Append(q, e) \in Seq(S) /\ Len(Append(q, e)) = Len(q) + 1 /\ Len(q) \in Nat
      /\ \A i \in 1..Len(q) : Append(q, e)[i] = q[i]
      /\ Append(q, e)[Len(q) + 1] = e
  BY AppendProperties, LenProperties
<1>2. QED
  BY <1>1

\* What the phone's change puts on the wire and into the web.
LEMMA ReportedSteps ==
    ASSUME wire \in Seq(WireEvents), hooks \subseteq Webhooks, sent \in [hooks : Nat, child : Nat],
           NEW events \in SUBSET WireEvents, NEW state \in TelephonyLegState \ {"INITIATING"},
           Reported(events, state)
    PROVE  /\ wire' \in Seq(WireEvents) /\ hooks' \subseteq Webhooks
           /\ sent' \in [hooks : Nat, child : Nat]
           /\ \A i \in 1..Len(wire') : (i \in 1..Len(wire) /\ wire'[i] = wire[i]) \/ wire'[i] \in events
           /\ \A h \in hooks' : h \in hooks \/ h.state = state
<1>1. wire' = wire \/ \E e \in events : wire' = Append(wire, e)
  BY DEF Reported
<1>2. /\ wire' \in Seq(WireEvents)
      /\ \A i \in 1..Len(wire') : (i \in 1..Len(wire) /\ wire'[i] = wire[i]) \/ wire'[i] \in events
  BY <1>1, WireLonger
<1>3. \/ hooks' = hooks /\ sent' = sent
      \/ /\ \E k \in HookKinds : hooks' = hooks \cup {[state |-> state, id |-> k]}
         /\ sent' = [sent EXCEPT !.hooks = @ + 1]
  BY DEF Reported
<1>4. hooks' \subseteq Webhooks /\ sent' \in [hooks : Nat, child : Nat]
  BY <1>3 DEF Webhooks
<1>5. \A h \in hooks' : h \in hooks \/ h.state = state
  BY <1>3
<1>6. QED
  BY <1>2, <1>4, <1>5

\* Each change of the phone reports what it is.
LEMMA LineReports ==
    ASSUME DialTypeOK, Rings \/ Answers \/ Bridges \/ HangsUp
    PROVE  \E events \in SUBSET WireEvents, state \in TelephonyLegState \ {"INITIATING"} :
              /\ Reported(events, state)
              /\ state \in Accepted \/ (\E e \in events : e.state \in Accepted) => line' = "up"
              /\ state \in EndStates \/ (\E e \in events : e.state \in EndStates) => line' = "gone"
              /\ answered' = (answered \/ line' = "up")
<1>1. CASE Rings
  <2>1. Event("INITIATING", {"leg"}) \in SUBSET WireEvents
    BY DEF Event, WireEvents, Channels
  <2>2. /\ Reported(Event("INITIATING", {"leg"}), "RINGING") /\ line' = "ringing"
        /\ answered' = (answered \/ line' = "up")
    BY <1>1 DEF Rings, LineMoves
  <2>3. \A e \in Event("INITIATING", {"leg"}) : e.state = "INITIATING"
    BY DEF Event
  <2>4. QED
    BY <2>1, <2>2, <2>3 DEF Accepted, EndStates, TelephonyLegState
<1>2. CASE Answers
  <2>1. Event("ANSWERED", {"leg", "real"}) \in SUBSET WireEvents
    BY DEF Event, WireEvents, Channels
  <2>2. /\ Reported(Event("ANSWERED", {"leg", "real"}), "ANSWERED") /\ line' = "up"
        /\ answered' = (answered \/ line' = "up")
    BY <1>2 DEF Answers, LineMoves
  <2>3. \A e \in Event("ANSWERED", {"leg", "real"}) : e.state = "ANSWERED"
    BY DEF Event
  <2>4. QED
    BY <2>1, <2>2, <2>3 DEF Accepted, EndStates, TelephonyLegState
<1>3. CASE Bridges
  <2>1. Reported({}, "BRIDGED") /\ line' = "up" /\ answered' = (answered \/ line' = "up")
    BY <1>3 DEF Bridges, LineMoves
  <2>2. QED
    BY <2>1 DEF Accepted, EndStates, TelephonyLegState
<1>4. CASE HangsUp
  <2>1. Event("TERMINATED", {"leg", "real"}) \in SUBSET WireEvents
    BY DEF Event, WireEvents, Channels
  <2>2. PICK s \in EndStates : /\ Reported(Event("TERMINATED", {"leg", "real"}), s) /\ line' = "gone"
                           /\ answered' = (answered \/ line' = "up")
    BY <1>4 DEF HangsUp, LineMoves, EndStates
  <2>3. \A e \in Event("TERMINATED", {"leg", "real"}) : e.state = "TERMINATED"
    BY DEF Event
  <2>4. s \in TelephonyLegState \ {"INITIATING"} /\ s \notin Accepted /\ "TERMINATED" \notin Accepted
    BY DEF Accepted, EndStates, TelephonyLegState
  <2>5. QED
    BY <2>1, <2>2, <2>3, <2>4
<1>5. QED
  BY <1>1, <1>2, <1>3, <1>4

\* No report is of what has not happened; the channels that are not the leg's are
\* the exception, and whoever takes one for the leg is misled.
LEMMA DialReportStep ==
    ASSUME DialIInv, [DialNext]_dialVars
    PROVE  ReportInv'
<1>0. /\ pc \in [Actors -> Places] /\ {"dial", "esl", "hook"} \subseteq Actors
      /\ wire \in Seq(WireEvents) /\ hooks \subseteq Webhooks /\ sent \in [hooks : Nat, child : Nat]
      /\ cur \in [esl : WireEvents \cup {NoReport}, hook : Webhooks \cup {NoReport}]
      /\ misled \in BOOLEAN /\ early \in BOOLEAN /\ answered \in BOOLEAN /\ LineInv /\ PlaceInv
  BY DEF DialIInv, DialTypeOK, Actors
<1>a. PICK T : T = Believable' /\ Believable \subseteq T
  BY BeliefGrows
<1>1. /\ \A i \in 1..Len(wire) : wire[i].id # "child" => wire[i].state \in T
      /\ \A h \in hooks : h.state \in T
      /\ pc["hook"] = "alias" => cur.hook.state \in T
      /\ pc["esl"] = "state" => cur.esl.state \in T
  BY <1>a DEF DialIInv, ReportInv
<1>5. /\ T \in SUBSET States /\ {"none", "INITIATING", "RINGING"} \subseteq T
      /\ \A s \in T : s \in Accepted => Accepted \subseteq T
      /\ PickedUp' => Accepted \subseteq T
      /\ Down' => EndStates \subseteq T
  BY <1>a, BeliefsNext
<1> DEFINE Reports ==
               /\ \A i \in 1..Len(wire') : wire'[i].id # "child" => wire'[i].state \in T
               /\ \A h \in hooks' : h.state \in T
               /\ pc'["hook"] = "alias" => cur'.hook.state \in T
               /\ pc'["esl"] = "state" => cur'.esl.state \in T
<1>g. SUFFICES Reports
  BY <1>a DEF ReportInv
<1>6. ASSUME Rings \/ Answers \/ Bridges \/ HangsUp
      PROVE  Reports
  <2>1. PICK events \in SUBSET WireEvents, state \in TelephonyLegState \ {"INITIATING"} :
              /\ Reported(events, state)
              /\ state \in Accepted \/ (\E e \in events : e.state \in Accepted) => line' = "up"
              /\ state \in EndStates \/ (\E e \in events : e.state \in EndStates) => line' = "gone"
              /\ answered' = (answered \/ line' = "up")
    BY <1>6, LineReports DEF DialIInv
  <2>2. state \in T
    BY <1>5, <2>1 DEF TelephonyLegState, Accepted, EndStates, PickedUp, Down
  <2>3. \A e \in events : e.state \in T
    BY <1>5, <2>1 DEF WireEvents, Accepted, EndStates, PickedUp, Down
  <2>4. UNCHANGED <<pc, cur>>
    BY <1>6 DEF Rings, Answers, Bridges, HangsUp, LineMoves
  <2>5. /\ \A i \in 1..Len(wire') : (i \in 1..Len(wire) /\ wire'[i] = wire[i]) \/ wire'[i] \in events
        /\ \A h \in hooks' : h \in hooks \/ h.state = state
    BY <1>0, <2>1, ReportedSteps
  <2>6. QED
    BY <1>1, <2>2, <2>3, <2>4, <2>5
<1>7. CASE Rings
  BY <1>6, <1>7
<1>8. CASE Answers
  BY <1>6, <1>8
<1>9. CASE Bridges
  BY <1>6, <1>9
<1>10. CASE HangsUp
  BY <1>6, <1>10
<1>11. CASE ChildEvent
  <2>1. PICK s \in ChildStates : wire' = Append(wire, [state |-> s, id |-> "child"])
    BY <1>11 DEF ChildEvent
  <2>2. [state |-> s, id |-> "child"] \in WireEvents
    BY ChildStatesAssumption DEF WireEvents, Channels
  <2>3. \A i \in 1..Len(wire') : \/ i \in 1..Len(wire) /\ wire'[i] = wire[i]
                                 \/ wire'[i] = [state |-> s, id |-> "child"]
    BY <1>0, <2>1, <2>2, WireLonger
  <2>4. \A i \in 1..Len(wire') : wire'[i].id # "child" => wire'[i].state \in T
    BY <1>1, <2>3
  <2>5. UNCHANGED <<hooks, pc, cur>>
    BY <1>11 DEF ChildEvent
  <2>6. QED
    BY <1>1, <2>4, <2>5
<1>12. CASE originate_call
  BY <1>0, <1>1, <1>12 DEF originate_call, At
<1>13. CASE OriginateRaises
  BY <1>0, <1>1, <1>13 DEF OriginateRaises, At, DialRest
<1>14. CASE OriginateRefused
  BY <1>0, <1>1, <1>14 DEF OriginateRefused, At
<1>15. CASE OriginateReplied
  BY <1>0, <1>1, <1>15 DEF OriginateReplied, At, DialRest
<1>16. CASE LegInitialised
  BY <1>0, <1>1, <1>16 DEF LegInitialised, At, DialRest
<1>17. CASE CallbackReplied
  BY <1>0, <1>1, <1>17 DEF CallbackReplied, At, DialRest
<1>18. CASE wait_for_leg_state
  BY <1>0, <1>1, <1>18 DEF wait_for_leg_state, At, DialRest
<1>19. CASE wait_via_correlation
  BY <1>0, <1>1, <1>19 DEF wait_via_correlation, At, DialRest
<1>20. CASE PolledSaved
  BY <1>0, <1>1, <1>20 DEF PolledSaved, At, DialRest
<1>21. CASE wait_via_freeswitch
  BY <1>0, <1>1, <1>21 DEF wait_via_freeswitch, At, DialRest
<1>22. CASE wait_for_answered
  BY <1>0, <1>1, <1>22 DEF wait_for_answered, At, DialRest
<1>23. CASE resolve_provider_leg_id
  BY <1>0, <1>1, <1>23 DEF resolve_provider_leg_id, At, DialRest
<1>24. CASE ConnectExisting
  BY <1>0, <1>1, <1>24 DEF ConnectExisting, At
<1>25. CASE ExistingMapped
  BY <1>0, <1>1, <1>25 DEF ExistingMapped, At, DialRest
<1>26. CASE AnswerTimeout
  BY <1>0, <1>1, <1>26 DEF AnswerTimeout, At, DialRest
<1>27. CASE TerminateSkipped
  BY <1>0, <1>1, <1>27 DEF TerminateSkipped, DialRest
<1>28. CASE terminate_leg
  BY <1>0, <1>1, <1>28 DEF terminate_leg
<1>29. CASE TerminateRaises
  BY <1>0, <1>1, <1>29 DEF TerminateRaises
<1>30. CASE ReadEvent
  <2>1. /\ Head(wire) = wire[1] /\ 1 \in 1..Len(wire) /\ Tail(wire) \in Seq(WireEvents)
        /\ Head(wire) \in WireEvents
        /\ \A i \in 1..Len(Tail(wire)) : i + 1 \in 1..Len(wire) /\ Tail(wire)[i] = wire[i + 1]
    <3>1. wire # <<>>
      BY <1>30 DEF ReadEvent
    <3>2. Len(wire) \in Nat /\ Len(wire) # 0 /\ Len(Tail(wire)) = Len(wire) - 1
      BY <1>0, <3>1, HeadTailProperties, LenProperties, EmptySeq
    <3>3. QED
      BY <1>0, <3>1, <3>2, HeadTailProperties, ElementOfSeq
  <2>2. \A i \in 1..Len(wire') : wire'[i].id # "child" => wire'[i].state \in T
    BY <1>1, <2>1, <1>30 DEF ReadEvent
  <2>3. UNCHANGED hooks
    BY <1>30 DEF ReadEvent
  <2>4. CASE UNCHANGED <<pc, cur>>
    BY <1>1, <2>2, <2>3, <2>4
  <2>5. CASE /\ cur' = [cur EXCEPT !.esl = Head(wire)]
             /\ pc' = [pc EXCEPT !["esl"] = "state"]
             /\ misled' = (misled \/ Head(wire).id = "child")
    <3>1. Head(wire).state \in T
      <4>1. CASE Head(wire).id = "child"
        BY <1>5, <2>1, <2>5, <4>1 DEF PickedUp, Down, WireEvents, Accepted, EndStates
      <4>2. CASE Head(wire).id # "child"
        BY <1>1, <2>1, <4>2
      <4>3. QED
        BY <4>1, <4>2
    <3>2. cur'.esl = Head(wire) /\ cur'.hook = cur.hook /\ pc'["hook"] = pc["hook"]
      BY <1>0, <2>5
    <3>3. QED
      BY <1>1, <2>2, <2>3, <3>1, <3>2
  <2>6. QED
    BY <2>4, <2>5, <1>30 DEF ReadEvent
<1>31. CASE EventState
  BY <1>0, <1>1, <1>31 DEF EventState
<1>32. CASE HookTaken
  <2>1. PICK h \in hooks :
            /\ hooks' = hooks \ {h}
            /\ \/ UNCHANGED <<cur, pc>>
               \/ cur' = [cur EXCEPT !.hook = h] /\ pc' = [pc EXCEPT !["hook"] = "alias"]
    BY <1>32 DEF HookTaken
  <2>2. UNCHANGED wire
    BY <1>32 DEF HookTaken, HookRest
  <2>3. CASE UNCHANGED <<cur, pc>>
    BY <1>1, <2>1, <2>2, <2>3
  <2>4. CASE cur' = [cur EXCEPT !.hook = h] /\ pc' = [pc EXCEPT !["hook"] = "alias"]
    <3>1. cur'.hook = h /\ cur'.esl = cur.esl /\ pc'["esl"] = pc["esl"] /\ h.state \in T
      BY <1>0, <1>1, <2>4
    <3>2. QED
      BY <1>1, <2>1, <2>2, <3>1
  <2>5. QED
    BY <2>1, <2>3, <2>4
<1>33. CASE HookAliased
  BY <1>0, <1>1, <1>33 DEF HookAliased, HookRest
<1>34. ASSUME NEW a \in Actors, OpRead(a) PROVE Reports
  BY <1>0, <1>1, <1>34 DEF OpRead
<1>35. ASSUME NEW a \in Actors, OpWrite(a) PROVE Reports
  BY <1>0, <1>1, <1>35 DEF OpWrite
<1>36. CASE UNCHANGED dialVars
  BY <1>1, <1>36 DEF dialVars
<1> HIDE DEF Reports
<1>37. QED
  BY <1>7, <1>8, <1>9, <1>10, <1>11, <1>12, <1>13, <1>14, <1>15, <1>16, <1>17, <1>18, <1>19,
     <1>20, <1>21, <1>22, <1>23, <1>24, <1>25, <1>26, <1>27, <1>28, <1>29, <1>30, <1>31,
     <1>32, <1>33, <1>34, <1>35, <1>36 DEF DialNext, Connects, Terminates

-----------------------------------------------------------------------------
(* The dialler                                                             *)

\* Every step keeps PlaceInv.
LEMMA DialPlaceStep ==
    ASSUME DialIInv, [DialNext]_dialVars
    PROVE  PlaceInv'
<1>0. /\ pc \in [Actors -> Places] /\ {"dial", "esl", "hook"} \subseteq Actors
      /\ wire \in Seq(WireEvents) /\ hooks \subseteq Webhooks
      /\ store \in [Ids -> States] /\ val \in States \cup Ids
      /\ cur \in [esl : WireEvents \cup {NoReport}, hook : Webhooks \cup {NoReport}]
      /\ misled \in BOOLEAN /\ early \in BOOLEAN /\ answered \in BOOLEAN
      /\ line \in {"idle", "trying", "ringing", "up", "gone"} /\ LineInv /\ PlaceInv
  BY DEF DialIInv, DialTypeOK, Actors
<1>1. CASE Rings
  BY <1>0, <1>1 DEF Rings, LineMoves, Reported, Event, PlaceInv
<1>2. CASE Answers
  BY <1>0, <1>2 DEF Answers, LineMoves, Reported, Event, PlaceInv
<1>3. CASE Bridges
  BY <1>0, <1>3 DEF Bridges, LineMoves, Reported, PlaceInv
<1>4. CASE HangsUp
  BY <1>0, <1>4 DEF HangsUp, LineMoves, Reported, Event, PlaceInv
<1>5. CASE ChildEvent
  BY <1>0, <1>5 DEF ChildEvent, PlaceInv
<1>6. CASE originate_call
  BY <1>0, <1>6 DEF originate_call, At, PlaceInv
<1>7. CASE OriginateRaises
  BY <1>0, <1>7 DEF OriginateRaises, At, DialRest, PlaceInv
<1>8. CASE OriginateRefused
  BY <1>0, <1>8 DEF OriginateRefused, At, PlaceInv
<1>9. CASE OriginateReplied
  BY <1>0, <1>9 DEF OriginateReplied, At, DialRest, PlaceInv
<1>10. CASE LegInitialised
  BY <1>0, <1>10 DEF LegInitialised, At, DialRest, PlaceInv
<1>11. CASE CallbackReplied
  BY <1>0, <1>11 DEF CallbackReplied, At, DialRest, PlaceInv
<1>12. CASE wait_for_leg_state
  BY <1>0, <1>12 DEF wait_for_leg_state, At, DialRest, PlaceInv, AfterState
<1>13. CASE wait_via_correlation
  <2>1. CorrelationState(corr) \in TelephonyLegState \cup {"none"} /\ corr["freeswitch_uuid"] \in Ids \cup {"none"}
    BY Beliefs, CorrelationStates, HashFields DEF DialIInv, StoreInv, States
  <2>2. QED
    BY <1>0, <2>1, <1>13 DEF wait_via_correlation, At, DialRest, PlaceInv, Ids
<1>14. CASE PolledSaved
  BY <1>0, <1>14 DEF PolledSaved, At, DialRest, PlaceInv, AfterState, TelephonyLegState
<1>15. CASE wait_via_freeswitch
  BY <1>0, <1>15 DEF wait_via_freeswitch, At, DialRest, PlaceInv, TelephonyLegState
<1>16. CASE wait_for_answered
  BY <1>0, <1>16 DEF wait_for_answered, At, DialRest, PlaceInv
<1>17. CASE resolve_provider_leg_id
  BY <1>0, <1>17 DEF resolve_provider_leg_id, At, DialRest, PlaceInv
<1>18. CASE ConnectExisting
  BY <1>0, <1>18 DEF ConnectExisting, At, PlaceInv
<1>19. CASE ExistingMapped
  BY <1>0, <1>19 DEF ExistingMapped, At, DialRest, PlaceInv
<1>20. CASE AnswerTimeout
  BY <1>0, <1>20 DEF AnswerTimeout, At, DialRest, PlaceInv
<1>21. CASE TerminateSkipped
  BY <1>0, <1>21 DEF TerminateSkipped, DialRest, PlaceInv
<1>22. CASE terminate_leg
  BY <1>0, <1>22 DEF terminate_leg, PlaceInv
<1>23. CASE TerminateRaises
  BY <1>0, <1>23 DEF TerminateRaises, PlaceInv
<1>24. CASE ReadEvent
  <2>1. Head(wire) \in WireEvents
    BY <1>0, <1>24, HeadTailProperties DEF ReadEvent
  <2>2. UNCHANGED val
    BY <1>24 DEF ReadEvent
  <2>3. CASE UNCHANGED <<pc, cur>>
    BY <1>0, <2>2, <2>3 DEF PlaceInv
  <2>4. CASE cur' = [cur EXCEPT !.esl = Head(wire)] /\ pc' = [pc EXCEPT !["esl"] = "state"]
    BY <1>0, <2>1, <2>2, <2>4 DEF PlaceInv
  <2>5. QED
    BY <2>3, <2>4, <1>24 DEF ReadEvent
<1>25. CASE EventState
  BY <1>0, <1>25 DEF EventState, At, PlaceInv
<1>26. CASE HookTaken
  <2>1. PICK h \in hooks :
            \/ UNCHANGED <<cur, pc>>
            \/ cur' = [cur EXCEPT !.hook = h] /\ pc' = [pc EXCEPT !["hook"] = "alias"]
    BY <1>26 DEF HookTaken
  <2>2. UNCHANGED val
    BY <1>26 DEF HookTaken, HookRest
  <2>3. CASE UNCHANGED <<pc, cur>>
    BY <1>0, <2>2, <2>3 DEF PlaceInv
  <2>4. CASE cur' = [cur EXCEPT !.hook = h] /\ pc' = [pc EXCEPT !["hook"] = "alias"]
    BY <1>0, <2>2, <2>4 DEF PlaceInv
  <2>5. QED
    BY <2>1, <2>3, <2>4
<1>27. CASE HookAliased
  BY <1>0, <1>27 DEF HookAliased, At, HookRest, PlaceInv
<1>28. ASSUME NEW a \in Actors, OpRead(a) PROVE PlaceInv'
  BY <1>0, <1>28 DEF OpRead, PlaceInv
<1>29. ASSUME NEW a \in Actors, OpWrite(a) PROVE PlaceInv'
  BY <1>0, <1>29 DEF OpWrite, PlaceInv
<1>30. CASE UNCHANGED dialVars
  BY <1>0, <1>30 DEF dialVars, PlaceInv
<1>31. QED
  BY <1>1, <1>2, <1>3, <1>4, <1>5, <1>6, <1>7, <1>8, <1>9, <1>10, <1>11, <1>12, <1>13,
     <1>14, <1>15, <1>16, <1>17, <1>18, <1>19, <1>20, <1>21, <1>22, <1>23, <1>24, <1>25,
     <1>26, <1>27, <1>28, <1>29, <1>30 DEF DialNext, Connects, Terminates

\* What the dialler concludes follows from what it has read, and stays so.
LEMMA DialVerdictStep ==
    ASSUME DialIInv, [DialNext]_dialVars
    PROVE  DialInv'
<1>0. /\ pc \in [Actors -> Places] /\ {"dial", "esl", "hook"} \subseteq Actors
      /\ wire \in Seq(WireEvents) /\ hooks \subseteq Webhooks
      /\ store \in [Ids -> States] /\ val \in States \cup Ids
      /\ cur \in [esl : WireEvents \cup {NoReport}, hook : Webhooks \cup {NoReport}]
      /\ misled \in BOOLEAN /\ early \in BOOLEAN /\ answered \in BOOLEAN
      /\ line \in {"idle", "trying", "ringing", "up", "gone"} /\ LineInv /\ PlaceInv
  BY DEF DialIInv, DialTypeOK, Actors
<1>a. PICK T : T = Believable' /\ Believable \subseteq T
  BY BeliefGrows
<1>5. {"none", "INITIATING", "RINGING"} \subseteq T /\ (PickedUp' => Accepted \subseteq T)
  BY <1>a, BeliefsNext
<1>1. /\ pc["dial"] \in {"mapped", "polled"} => val \in T
      /\ pc["dial"] \in {"resolve", "talking"} => answered \/ misled \/ early
      /\ pc["dial"] \in {"ended", "over"} => line = "gone" \/ misled
  BY <1>a DEF DialIInv, DialInv
<1>2. pc["dial"] \in {"mapped", "polled"} => val \in Believable
  BY DEF DialIInv, DialInv
<1> DEFINE Concluded ==
               /\ pc'["dial"] \in {"mapped", "polled"} => val' \in T
               /\ pc'["dial"] \in {"resolve", "talking"} => answered' \/ misled' \/ early'
               /\ pc'["dial"] \in {"ended", "over"} => line' = "gone" \/ misled'
<1>g. SUFFICES Concluded
  BY <1>a DEF DialInv
<1>6. CASE Rings
  BY <1>0, <1>1, <1>6 DEF Rings, LineMoves, Reported, Event
<1>7. CASE Answers
  BY <1>0, <1>1, <1>7 DEF Answers, LineMoves, Reported, Event
<1>8. CASE Bridges
  BY <1>0, <1>1, <1>8 DEF Bridges, LineMoves, Reported
<1>9. CASE HangsUp
  BY <1>0, <1>1, <1>9 DEF HangsUp, LineMoves, Reported, Event
<1>10. CASE ChildEvent
  BY <1>0, <1>1, <1>10 DEF ChildEvent
<1>11. CASE originate_call
  BY <1>0, <1>1, <1>11 DEF originate_call, At
<1>12. CASE OriginateRaises
  BY <1>0, <1>1, <1>12 DEF OriginateRaises, At, DialRest
<1>13. CASE OriginateRefused
  BY <1>0, <1>1, <1>13 DEF OriginateRefused, At
<1>14. CASE OriginateReplied
  <2>1. val' = "ANSWERED" => "ANSWERED" \in T
    BY <1>0, <1>5, <1>14 DEF OriginateReplied, PickedUp, Accepted
  <2>2. QED
    BY <1>0, <1>1, <1>5, <2>1, <1>14 DEF OriginateReplied, At, DialRest
<1>15. CASE LegInitialised
  <2>1. val = "ANSWERED" => answered \/ misled \/ early
    BY <1>0, <1>2, <1>15, Beliefs DEF LegInitialised, At, DialIInv, DialInv, PickedUp,
       Accepted
  <2>2. QED
    BY <1>0, <1>1, <2>1, <1>15 DEF LegInitialised, At, DialRest
<1>16. CASE CallbackReplied
  BY <1>0, <1>1, <1>16 DEF CallbackReplied, At, DialRest
<1>17. CASE wait_for_leg_state
  <2>1. store["leg"] \in Believable
    BY DEF DialIInv, StoreInv, Ids
  <2>2. /\ store["leg"] \in Accepted => answered \/ misled \/ early
        /\ store["leg"] \in EndStates => line = "gone" \/ misled
    BY <1>0, <2>1, <1>17, Beliefs DEF wait_for_leg_state, At, PickedUp, Down
  <2>3. QED
    BY <1>0, <1>1, <2>2, <1>17 DEF wait_for_leg_state, At, DialRest, AfterState
<1>18. CASE wait_via_correlation
  <2>1. CorrelationState(corr) \in T \cup {"none"}
    BY <1>a, Beliefs, CorrelationStates DEF DialIInv, StoreInv
  <2>2. QED
    BY <1>0, <1>1, <2>1, <1>18 DEF wait_via_correlation, At, DialRest
<1>19. CASE PolledSaved
  <2>1. val \in Believable
    BY <1>19 DEF PolledSaved, At, DialIInv, DialInv
  <2>2. /\ val \in Accepted => answered \/ misled \/ early
        /\ val \in EndStates => line = "gone" \/ misled
    BY <1>0, <2>1, <1>19, Beliefs DEF PolledSaved, At, PickedUp, Down
  <2>3. QED
    BY <1>0, <1>1, <2>2, <1>19 DEF PolledSaved, At, DialRest, AfterState
<1>20. CASE wait_via_freeswitch
  <2>1. val \in Channels /\ ProbeConfirms(val) => "ANSWERED" \in T
    BY <1>0, <1>a, Beliefs DEF ProbeConfirms, answer_state, LineInv, PickedUp, Accepted
  <2>2. QED
    BY <1>0, <1>1, <2>1, <1>20 DEF wait_via_freeswitch, At, DialRest
<1>21. CASE wait_for_answered
  <2>1. observed_via_correlation(corr) # "none" => PickedUp
    BY Beliefs, CorrelationStates DEF DialIInv, StoreInv
  <2>2. observed_via_correlation(corr) # "none" => answered \/ misled \/ early
    BY <1>0, <2>1, <1>21 DEF wait_for_answered, At, PickedUp
  <2>3. QED
    BY <1>0, <1>1, <2>2, <1>21 DEF wait_for_answered, At, DialRest
<1>22. CASE resolve_provider_leg_id
  BY <1>0, <1>1, <1>22 DEF resolve_provider_leg_id, At, DialRest
<1>23. CASE ConnectExisting
  BY <1>0, <1>1, <1>23 DEF ConnectExisting, At
<1>24. CASE ExistingMapped
  BY <1>0, <1>1, <1>24 DEF ExistingMapped, At, DialRest
<1>25. CASE AnswerTimeout
  BY <1>0, <1>1, <1>25 DEF AnswerTimeout, At, DialRest
<1>26. CASE TerminateSkipped
  BY <1>0, <1>1, <1>26 DEF TerminateSkipped, DialRest
<1>27. CASE terminate_leg
  BY <1>0, <1>1, <1>27 DEF terminate_leg
<1>28. CASE TerminateRaises
  BY <1>0, <1>1, <1>28 DEF TerminateRaises
<1>29. CASE ReadEvent
  BY <1>0, <1>1, <1>29 DEF ReadEvent, At
<1>30. CASE EventState
  BY <1>0, <1>1, <1>30 DEF EventState, At
<1>31. CASE HookTaken
  BY <1>0, <1>1, <1>31 DEF HookTaken, At, HookRest
<1>32. CASE HookAliased
  BY <1>0, <1>1, <1>32 DEF HookAliased, At, HookRest
<1>33. ASSUME NEW a \in Actors, OpRead(a) PROVE Concluded
  BY <1>0, <1>1, <1>33 DEF OpRead
<1>34. ASSUME NEW a \in Actors, OpWrite(a) PROVE Concluded
  BY <1>0, <1>1, <1>34 DEF OpWrite
<1>35. CASE UNCHANGED dialVars
  BY <1>0, <1>1, <1>35 DEF dialVars
<1> HIDE DEF Concluded
<1>36. QED
  BY <1>6, <1>7, <1>8, <1>9, <1>10, <1>11, <1>12, <1>13, <1>14, <1>15, <1>16, <1>17, <1>18,
     <1>19, <1>20, <1>21, <1>22, <1>23, <1>24, <1>25, <1>26, <1>27, <1>28, <1>29, <1>30,
     <1>31, <1>32, <1>33, <1>34, <1>35 DEF DialNext, Connects, Terminates

\* A leg is released once it is down, or with the command that takes it down.
LEMMA DialReleasedStep ==
    ASSUME DialIInv, [DialNext]_dialVars
    PROVE  ReleasedIsDown'
<1>0. /\ pc \in [Actors -> Places] /\ {"dial", "esl", "hook"} \subseteq Actors
      /\ wire \in Seq(WireEvents) /\ hooks \subseteq Webhooks
      /\ store \in [Ids -> States] /\ val \in States \cup Ids
      /\ cur \in [esl : WireEvents \cup {NoReport}, hook : Webhooks \cup {NoReport}]
      /\ misled \in BOOLEAN /\ early \in BOOLEAN /\ answered \in BOOLEAN
      /\ line \in {"idle", "trying", "ringing", "up", "gone"} /\ LineInv /\ PlaceInv
  BY DEF DialIInv, DialTypeOK, Actors
<1>1. ReleasedIsDown /\ killLost \in BOOLEAN
  BY DEF DialIInv, DialTypeOK
<1>2. CASE Rings
  BY <1>0, <1>1, <1>2 DEF Rings, LineMoves, Reported, Event, ReleasedIsDown, LineInv
<1>3. CASE Answers
  BY <1>0, <1>1, <1>3 DEF Answers, LineMoves, Reported, Event, ReleasedIsDown, LineInv
<1>4. CASE Bridges
  BY <1>0, <1>1, <1>4 DEF Bridges, LineMoves, Reported, ReleasedIsDown, LineInv
<1>5. CASE HangsUp
  BY <1>0, <1>1, <1>5 DEF HangsUp, LineMoves, Reported, Event, ReleasedIsDown, LineInv
<1>6. CASE ChildEvent
  BY <1>0, <1>1, <1>6 DEF ChildEvent, ReleasedIsDown, LineInv
<1>7. CASE originate_call
  BY <1>0, <1>1, <1>7 DEF originate_call, At, ReleasedIsDown, LineInv
<1>8. CASE OriginateRaises
  BY <1>0, <1>1, <1>8 DEF OriginateRaises, At, DialRest, ReleasedIsDown, LineInv
<1>9. CASE OriginateRefused
  BY <1>0, <1>1, <1>9 DEF OriginateRefused, At, ReleasedIsDown, LineInv
<1>10. CASE OriginateReplied
  BY <1>0, <1>1, <1>10 DEF OriginateReplied, At, DialRest, ReleasedIsDown, LineInv
<1>11. CASE LegInitialised
  BY <1>0, <1>1, <1>11 DEF LegInitialised, At, DialRest, ReleasedIsDown, LineInv
<1>12. CASE CallbackReplied
  BY <1>0, <1>1, <1>12 DEF CallbackReplied, At, DialRest, ReleasedIsDown, LineInv
<1>13. CASE wait_for_leg_state
  BY <1>0, <1>1, <1>13 DEF wait_for_leg_state, At, DialRest, ReleasedIsDown, LineInv,
     AfterState
<1>14. CASE wait_via_correlation
  BY <1>0, <1>1, <1>14 DEF wait_via_correlation, At, DialRest, ReleasedIsDown, LineInv
<1>15. CASE PolledSaved
  BY <1>0, <1>1, <1>15 DEF PolledSaved, At, DialRest, ReleasedIsDown, LineInv, AfterState
<1>16. CASE wait_via_freeswitch
  BY <1>0, <1>1, <1>16 DEF wait_via_freeswitch, At, DialRest, ReleasedIsDown, LineInv
<1>17. CASE wait_for_answered
  BY <1>0, <1>1, <1>17 DEF wait_for_answered, At, DialRest, ReleasedIsDown, LineInv
<1>18. CASE resolve_provider_leg_id
  BY <1>0, <1>1, <1>18 DEF resolve_provider_leg_id, At, DialRest, ReleasedIsDown, LineInv
<1>19. CASE ConnectExisting
  BY <1>0, <1>1, <1>19 DEF ConnectExisting, At, ReleasedIsDown, LineInv
<1>20. CASE ExistingMapped
  BY <1>0, <1>1, <1>20 DEF ExistingMapped, At, DialRest, ReleasedIsDown, LineInv
<1>21. CASE AnswerTimeout
  BY <1>0, <1>1, <1>21 DEF AnswerTimeout, At, DialRest, ReleasedIsDown, LineInv
<1>22. CASE TerminateSkipped
  <2>1. store[Target] \in Believable /\ store[Target] = "TERMINATED"
    BY <1>22 DEF DialIInv, StoreInv, DialTypeOK, TerminateSkipped, Target, Ids
  <2>2. Down
    BY <2>1, Beliefs DEF EndStates
  <2>3. QED
    BY <1>0, <2>2, <1>22 DEF TerminateSkipped, DialRest, Down, ReleasedIsDown
<1>23. CASE terminate_leg
  BY <1>0, <1>1, <1>23 DEF terminate_leg, ReleasedIsDown, LineInv
<1>24. CASE TerminateRaises
  BY <1>0, <1>1, <1>24 DEF TerminateRaises, ReleasedIsDown, LineInv
<1>25. CASE ReadEvent
  BY <1>0, <1>1, <1>25 DEF ReadEvent, At, ReleasedIsDown, LineInv
<1>26. CASE EventState
  BY <1>0, <1>1, <1>26 DEF EventState, At, ReleasedIsDown, LineInv
<1>27. CASE HookTaken
  BY <1>0, <1>1, <1>27 DEF HookTaken, At, HookRest, ReleasedIsDown, LineInv
<1>28. CASE HookAliased
  BY <1>0, <1>1, <1>28 DEF HookAliased, At, HookRest, ReleasedIsDown, LineInv
<1>29. ASSUME NEW a \in Actors, OpRead(a) PROVE ReleasedIsDown'
  BY <1>0, <1>1, <1>29 DEF OpRead, ReleasedIsDown, LineInv
<1>30. ASSUME NEW a \in Actors, OpWrite(a) PROVE ReleasedIsDown'
  BY <1>0, <1>1, <1>30 DEF OpWrite, ReleasedIsDown, LineInv
<1>31. CASE UNCHANGED dialVars
  BY <1>0, <1>1, <1>31 DEF dialVars, ReleasedIsDown, LineInv
<1>32. QED
  BY <1>2, <1>3, <1>4, <1>5, <1>6, <1>7, <1>8, <1>9, <1>10, <1>11, <1>12, <1>13, <1>14,
     <1>15, <1>16, <1>17, <1>18, <1>19, <1>20, <1>21, <1>22, <1>23, <1>24, <1>25, <1>26,
     <1>27, <1>28, <1>29, <1>30, <1>31 DEF DialNext, Connects, Terminates

-----------------------------------------------------------------------------
(* Types                                                                   *)

\* Every step keeps the types.
LEMMA DialTypeStep ==
    ASSUME DialIInv, [DialNext]_dialVars
    PROVE  DialTypeOK'
<1>0. /\ pc \in [Actors -> Places] /\ {"dial", "esl", "hook"} \subseteq Actors
      /\ wire \in Seq(WireEvents) /\ hooks \subseteq Webhooks /\ sent \in [hooks : Nat, child : Nat]
      /\ val \in States \cup Ids /\ channel \in Ids \cup {"none"}
      /\ cur \in [esl : WireEvents \cup {NoReport}, hook : Webhooks \cup {NoReport}]
      /\ sip \in BOOLEAN /\ misled \in BOOLEAN /\ early \in BOOLEAN
      /\ answered \in BOOLEAN /\ killLost \in BOOLEAN
      /\ line \in {"idle", "trying", "ringing", "up", "gone"}
  BY DEF DialIInv, DialTypeOK, Actors
<1> DEFINE Typed ==
      /\ pc' \in [Actors -> Places]
      /\ wire' \in Seq(WireEvents) /\ hooks' \subseteq Webhooks /\ sent' \in [hooks : Nat, child : Nat]
      /\ val' \in States \cup Ids /\ channel' \in Ids \cup {"none"}
      /\ cur' \in [esl : WireEvents \cup {NoReport}, hook : Webhooks \cup {NoReport}]
      /\ sip' \in BOOLEAN /\ misled' \in BOOLEAN /\ early' \in BOOLEAN
      /\ answered' \in BOOLEAN /\ killLost' \in BOOLEAN
      /\ line' \in {"idle", "trying", "ringing", "up", "gone"}
<1>1. SUFFICES Typed
  <2>1. PICK T : T = Believable' /\ T \in SUBSET States
    BY BeliefsNext
  <2>2. store' \in [Ids -> T] /\ corr' \in HashOf(T) /\ op' \in [Actors -> OpOf(T)]
    BY <2>1, DialStoreStep DEF StoreInv
  <2>3. HashOf(T) \subseteq Hashes
    BY DEF HashOf
  <2>4. /\ store' \in [Ids -> States] /\ corr' \in Hashes
        /\ op' \in [Actors -> [at : {"none", "get", "read", "write"}, patch : Hashes, copy : Hashes]]
    BY <2>1, <2>2, <2>3 DEF OpOf
  <2>5. QED
    BY <2>4 DEF DialTypeOK
<1>2. ASSUME Rings \/ Answers \/ Bridges \/ HangsUp PROVE Typed
  <2>1. PICK events \in SUBSET WireEvents, state \in TelephonyLegState \ {"INITIATING"} :
              Reported(events, state) /\ answered' = (answered \/ line' = "up")
    BY <1>2, LineReports DEF DialIInv
  <2>2. wire' \in Seq(WireEvents) /\ hooks' \subseteq Webhooks /\ sent' \in [hooks : Nat, child : Nat]
    BY <1>0, <2>1, ReportedSteps
  <2>3. UNCHANGED <<sip, pc, val, cur, channel, misled, early, killLost>>
    BY <1>2 DEF Rings, Answers, Bridges, HangsUp, LineMoves
  <2>4. line' \in {"ringing", "up", "gone"}
    BY <1>2 DEF Rings, Answers, Bridges, HangsUp, LineMoves
  <2>5. QED
    BY <1>0, <2>1, <2>2, <2>3, <2>4
<1>3. CASE Rings
  BY <1>2, <1>3
<1>4. CASE Answers
  BY <1>2, <1>4
<1>5. CASE Bridges
  BY <1>2, <1>5
<1>6. CASE HangsUp
  BY <1>2, <1>6
<1>7. CASE ChildEvent
  <2>1. PICK s \in ChildStates : wire' = Append(wire, [state |-> s, id |-> "child"])
    BY <1>7 DEF ChildEvent
  <2>2. [state |-> s, id |-> "child"] \in WireEvents
    BY ChildStatesAssumption DEF WireEvents, Channels
  <2>3. wire' \in Seq(WireEvents)
    BY <1>0, <2>1, <2>2, WireLonger
  <2>4. QED
    BY <1>0, <2>3, <1>7 DEF ChildEvent
<1>8. CASE originate_call
  BY <1>0, <1>8 DEF originate_call, At, Places
<1>9. CASE OriginateRaises
  BY <1>0, <1>9 DEF OriginateRaises, At, DialRest, Places
<1>10. CASE OriginateRefused
  BY <1>0, <1>10 DEF OriginateRefused, At, Places
<1>11. CASE OriginateReplied
  BY <1>0, <1>11 DEF OriginateReplied, At, DialRest, Places, States, TelephonyLegState
<1>12. CASE LegInitialised
  BY <1>0, <1>12 DEF LegInitialised, At, DialRest, Places, States
<1>13. CASE CallbackReplied
  BY <1>0, <1>13 DEF CallbackReplied, At, DialRest, Places
<1>14. CASE wait_for_leg_state
  BY <1>0, <1>14 DEF wait_for_leg_state, At, DialRest, Places, AfterState
<1>15. CASE wait_via_correlation
  <2>1. CorrelationState(corr) \in States /\ corr["freeswitch_uuid"] \in Ids \cup {"none"}
    BY Beliefs, CorrelationStates, HashFields DEF DialIInv, StoreInv, States
  <2>2. QED
    BY <1>0, <2>1, <1>15 DEF wait_via_correlation, At, DialRest, Ids, Places
<1>16. CASE PolledSaved
  BY <1>0, <1>16 DEF PolledSaved, At, DialRest, Places, AfterState, States
<1>17. CASE wait_via_freeswitch
  BY <1>0, <1>17 DEF wait_via_freeswitch, At, DialRest, Places, States, TelephonyLegState
<1>18. CASE wait_for_answered
  BY <1>0, <1>18 DEF wait_for_answered, At, DialRest, Places
<1>19. CASE resolve_provider_leg_id
  <2>1. corr["freeswitch_uuid"] \in Ids \cup {"none"}
    BY HashFields DEF DialIInv, StoreInv
  <2>2. QED
    BY <1>0, <2>1, <1>19 DEF resolve_provider_leg_id, At, DialRest, Ids, Places
<1>20. CASE ConnectExisting
  BY <1>0, <1>20 DEF ConnectExisting, At, Places
<1>21. CASE ExistingMapped
  BY <1>0, <1>21 DEF ExistingMapped, At, DialRest, Places, Ids
<1>22. CASE AnswerTimeout
  BY <1>0, <1>22 DEF AnswerTimeout, At, DialRest, Places
<1>23. CASE TerminateSkipped
  BY <1>0, <1>23 DEF TerminateSkipped, DialRest, Places
<1>24. CASE terminate_leg
  BY <1>0, <1>24 DEF terminate_leg, Places
<1>25. CASE TerminateRaises
  BY <1>0, <1>25 DEF TerminateRaises, Places
<1>26. CASE ReadEvent
  <2>1. Head(wire) \in WireEvents /\ wire' \in Seq(WireEvents)
    BY <1>0, <1>26, HeadTailProperties DEF ReadEvent
  <2>2. UNCHANGED <<sip, line, answered, hooks, sent, val, channel, early, killLost>>
    BY <1>26 DEF ReadEvent
  <2>3. CASE UNCHANGED <<pc, cur, misled>>
    BY <1>0, <2>1, <2>2, <2>3
  <2>4. CASE /\ cur' = [cur EXCEPT !.esl = Head(wire)] /\ pc' = [pc EXCEPT !["esl"] = "state"]
             /\ misled' = (misled \/ Head(wire).id = "child")
    BY <1>0, <2>1, <2>2, <2>4 DEF Places
  <2>5. QED
    BY <2>3, <2>4, <1>26 DEF ReadEvent
<1>27. CASE EventState
  BY <1>0, <1>27 DEF EventState, At, Places
<1>28. CASE HookTaken
  <2>1. PICK h \in hooks :
            /\ hooks' = hooks \ {h}
            /\ \/ UNCHANGED <<cur, pc>>
               \/ cur' = [cur EXCEPT !.hook = h] /\ pc' = [pc EXCEPT !["hook"] = "alias"]
    BY <1>28 DEF HookTaken
  <2>2. UNCHANGED <<sip, line, answered, wire, sent, val, channel, misled, early, killLost>>
    BY <1>28 DEF HookTaken, HookRest
  <2>3. CASE UNCHANGED <<pc, cur>>
    BY <1>0, <2>1, <2>2, <2>3
  <2>4. CASE cur' = [cur EXCEPT !.hook = h] /\ pc' = [pc EXCEPT !["hook"] = "alias"]
    BY <1>0, <2>1, <2>2, <2>4 DEF Places
  <2>5. QED
    BY <2>1, <2>3, <2>4
<1>29. CASE HookAliased
  BY <1>0, <1>29 DEF HookAliased, At, HookRest, Places
<1>30. ASSUME NEW a \in Actors, OpRead(a) PROVE Typed
  BY <1>0, <1>30 DEF OpRead, Places
<1>31. ASSUME NEW a \in Actors, OpWrite(a) PROVE Typed
  BY <1>0, <1>31 DEF OpWrite, Places
<1>32. CASE UNCHANGED dialVars
  BY <1>0, <1>32 DEF dialVars, Places
<1> HIDE DEF Typed
<1>33. QED
  BY <1>3, <1>4, <1>5, <1>6, <1>7, <1>8, <1>9, <1>10, <1>11, <1>12, <1>13, <1>14, <1>15,
     <1>16, <1>17, <1>18, <1>19, <1>20, <1>21, <1>22, <1>23, <1>24, <1>25, <1>26, <1>27,
     <1>28, <1>29, <1>30, <1>31, <1>32 DEF DialNext, Connects, Terminates

\* The invariant holds before the leg is dialled.
LEMMA DialInitially == DialInit => DialIInv
<1>1. SUFFICES ASSUME DialInit PROVE DialIInv
  OBVIOUS
<1>2. "none" \in Believable /\ Believable \in SUBSET States
  BY Beliefs
<1>3. NoFields \in HashOf(Believable) /\ NoOp \in OpOf(Believable)
  BY <1>2, NoFieldsHash
<1>4. StoreInv
  BY <1>1, <1>2, <1>3 DEF DialInit, StoreInv
<1>5. store \in [Ids -> States] /\ corr \in Hashes
      /\ op \in [Actors -> [at : {"none", "get", "read", "write"}, patch : Hashes, copy : Hashes]]
  BY <1>2, <1>4 DEF StoreInv, OpOf, HashOf
<1>6. wire \in Seq(WireEvents) /\ Len(wire) = 0
  BY <1>1 DEF DialInit
<1>7. DialTypeOK
  BY <1>1, <1>5, <1>6 DEF DialInit, DialTypeOK, Places, States
<1>8. PlaceInv /\ LineInv /\ DialInv /\ ReleasedIsDown
  BY <1>1 DEF DialInit, PlaceInv, LineInv, DialInv, ReleasedIsDown, Actors
<1>9. ReportInv
  BY <1>1, <1>6 DEF DialInit, ReportInv, Actors
<1>10. QED
  BY <1>4, <1>7, <1>8, <1>9 DEF DialIInv

-----------------------------------------------------------------------------
\* The invariant holds in every reachable state of MangoDial: whatever the order in
\* which the dialler, the ESL reader and the webhook read and write the two stores.
THEOREM DialInvariance == DialSpec => []DialIInv
<1>1. DialInit => DialIInv
  BY DialInitially
<1>2. DialIInv /\ [DialNext]_dialVars => DialIInv'
  BY DialTypeStep, DialPlaceStep, DialLineStep, DialReportStep, DialStoreStep,
     DialVerdictStep, DialReleasedStep DEF DialIInv
<1>3. QED
  BY <1>1, <1>2, PTL DEF DialSpec

\* The hash, the stores and the events in flight keep their types.
THEOREM DialTypeCorrect == DialSpec => []DialTypeOK
<1>1. DialIInv => DialTypeOK
  BY DEF DialIInv
<1>2. QED
  BY <1>1, DialInvariance, PTL

\* connect reports an answer only of a customer who has picked up, and an end only
\* of a phone that is down, unless an auxiliary channel's event was taken for the leg's
\* or, for an answer, the disposition in the reply to originate.
THEOREM DialVerdictIsReal == DialSpec => []VerdictIsReal
<1>1. DialIInv => VerdictIsReal
  BY DEF DialIInv, DialInv, VerdictIsReal
<1>2. QED
  BY <1>1, DialInvariance, PTL

\* When terminate_leg has returned the leg is down, unless its command was lost or
\* an auxiliary channel's event was taken for the leg's.
THEOREM DialReleasedIsDown == DialSpec => []ReleasedIsDown
<1>1. DialIInv => ReleasedIsDown
  BY DEF DialIInv
<1>2. QED
  BY <1>1, DialInvariance, PTL
=============================================================================
