----------------------------- MODULE MediaGateway -----------------------------
(***************************************************************************)
(* The media plane of a telephone call: FreeSwitchAudioBridge over         *)
(* FreeSwitchMediaGateway in mode esl_rtp.                                 *)
(*                                                                         *)
(* open() of a bridge attaches a session: it makes sure of the one ESL     *)
(* connection of the process, enters the session in the gateway's tables,  *)
(* binds a UDP port and sends FreeSWITCH the command that points the       *)
(* channel's audio there.  While the session lasts, one reader task takes  *)
(* channel events off the ESL connection, datagrams arrive on the port, a  *)
(* watchdog looks for silence, a probe asks for the far end's address, the *)
(* bridge takes media events from the session's queue and sends audio.     *)
(* close() detaches the session again.                                     *)
(*                                                                         *)
(* A session stands for its call leg: a leg is attached once.  The uuids   *)
(* of FreeSWITCH channels are the leg's own provisional one ("direct-..."),*)
(* written as the session itself, and the real ones of Origin.  One action *)
(* is one await together with the code up to the next one.  What the       *)
(* gateway writes to the correlation store is in MangoDial.                *)
(***************************************************************************)
EXTENDS Integers, Sequences, FiniteSets

CONSTANTS
    Sessions,   \* media sessions, one per leg
    Origin,     \* real channel uuid -> the leg it was originated for
    Ports,      \* rtp_port_start..rtp_port_end, every second one
    NoPort,     \* no port, below every port
    NoUuid,     \* no correlation
    QueueMax,   \* event_queue_max
    BufferMax,  \* rtp_outbound_buffer_max_frames
    Frames,     \* frames the agent speaks in a session, at most
    Attempts,   \* esl_reconnect_max_attempts, 0 for no limit
    MaxFaults   \* failures of the ESL connection and of commands, at most

Uuids == DOMAIN Origin
Reader == "reader"
Nobody == "nobody"

ASSUME OriginAssumption == Origin \in [Uuids -> Sessions] /\ NoUuid \notin Sessions \cup Uuids
ASSUME PortsAssumption == Ports \subseteq Nat /\ NoPort \in Int /\ NoPort \notin Ports
ASSUME BoundsAssumption ==
    /\ QueueMax \in Nat \ {0} /\ BufferMax \in Nat \ {0}
    /\ Attempts \in Nat /\ MaxFaults \in Nat
    /\ Frames \in Nat
ASSUME TasksAssumption == Reader \notin Sessions /\ Nobody \notin Sessions

VARIABLES
    \* the ESL connection of the process
    esl,        \* _esl and its socket
    connecting, \* the task that holds _esl_connect_lock
    attempts,   \* failed attempts of that task
    reader,     \* _esl_reader_task
    evt,        \* the channel event the reader is in the middle of
    faults,     \* failures so far
    \* tables of the gateway
    handles,    \* sessions in _handles, _queues, _lifecycle, _media_stats
    uuids,      \* keys of _uuid_to_session: each leads to its leg's session
    corr,       \* session -> freeswitch_uuid of _correlation
    port,       \* session -> local_port of _rtp
    watchdog,   \* session -> its _rtp_watchdog_tasks entry
    queue,      \* session -> its queue of media events
    \* the runtime of a session
    remote,     \* session -> is remote_addr known
    heard,      \* session -> is last_rtp_at set
    stale,      \* session -> longer than the timeout since last_rtp_at/created_at
    pending,    \* session -> pending_outbound
    sent,       \* session -> the last frame given to the socket
    probe,      \* session -> is a remote-address probe running
    \* the bridge
    at,         \* session -> where open() or close() stands
    provider,   \* session -> provider_leg_id of the handle
    picked,     \* session -> the port open() found free
    isOpen,     \* session -> _is_open
    spoken,     \* session -> frames the agent has produced
    \* FreeSWITCH
    channel,    \* session -> is the leg's channel up
    telling,    \* session -> its hang-up event is on the ESL connection
    others,     \* ports that FreeSWITCH and other workers have bound
    lost        \* history: sessions whose only hang-up a full queue threw out

eslVars   == <<esl, connecting, attempts, reader, evt, faults>>
tableVars == <<handles, uuids, corr, port, watchdog, queue, lost>>
mediaVars == <<remote, heard, stale, pending, sent, probe>>
openVars  == <<at, provider, picked, isOpen, spoken>>
farVars   == <<channel, telling, others>>
vars      == <<eslVars, tableVars, mediaVars, openVars, farVars>>

Channels(s) == {s} \cup {u \in Uuids : Origin[u] = s}
Leg(u) == IF u \in Uuids THEN Origin[u] ELSE u

\* Where open() may stand after attach_session has entered the session.
Attaching == {"mapping", "probing", "binding", "checking", "commanding"}
\* open() raised: before the session was entered, and after.
Failed == {"refused", "leaked"}
Closing == {"watchdog", "hangup"}

NoEvent == [step |-> "none", uuid |-> NoUuid, name |-> "none"]

TypeOK ==
    /\ esl \in {"none", "up", "broken"}
    /\ connecting \in Sessions \cup {Reader, Nobody}
    /\ attempts \in 0..Attempts
    /\ reader \in {"none", "ensuring", "reading", "handling", "closing", "spinning"}
    /\ evt \in [step : {"none", "mapping", "attaching", "storing"},
                uuid : Sessions \cup Uuids \cup {NoUuid},
                name : {"none", "progress", "hangup", "barge"}]
    /\ faults \in 0..MaxFaults
    /\ handles \subseteq Sessions
    /\ uuids \subseteq Sessions \cup Uuids
    /\ corr \in [Sessions -> Sessions \cup Uuids \cup {NoUuid}]
    /\ port \in [Sessions -> Ports \cup {NoPort}]
    /\ watchdog \in [Sessions -> {"none", "running", "returned"}]
    /\ queue \in [Sessions -> Seq({"audio", "barge", "hangup"})]
    /\ \A s \in Sessions : Len(queue[s]) <= QueueMax
    /\ remote \in [Sessions -> BOOLEAN]
    /\ heard \in [Sessions -> BOOLEAN]
    /\ stale \in [Sessions -> BOOLEAN]
    /\ pending \in [Sessions -> Seq(Nat)]
    /\ \A s \in Sessions : Len(pending[s]) <= BufferMax
    /\ sent \in [Sessions -> Nat]
    /\ probe \in [Sessions -> BOOLEAN]
    /\ at \in [Sessions -> {"idle", "ensuring", "open", "over", "closed"}
                             \cup Attaching \cup Failed \cup Closing]
    /\ provider \in [Sessions -> Sessions \cup Uuids]
    /\ picked \in [Sessions -> Ports \cup {NoPort}]
    /\ isOpen \in [Sessions -> BOOLEAN]
    /\ spoken \in [Sessions -> Nat]
    /\ channel \in [Sessions -> BOOLEAN]
    /\ telling \in [Sessions -> BOOLEAN]
    /\ others \subseteq Ports
    /\ lost \subseteq Sessions

Init ==
    /\ esl = "none" /\ connecting = Nobody /\ attempts = 0
    /\ reader = "none" /\ evt = NoEvent /\ faults = 0
    /\ handles = {} /\ uuids = {}
    /\ corr = [s \in Sessions |-> NoUuid]
    /\ port = [s \in Sessions |-> NoPort]
    /\ watchdog = [s \in Sessions |-> "none"]
    /\ queue = [s \in Sessions |-> <<>>]
    /\ remote = [s \in Sessions |-> FALSE]
    /\ heard = [s \in Sessions |-> FALSE]
    /\ stale = [s \in Sessions |-> FALSE]
    /\ pending = [s \in Sessions |-> <<>>]
    /\ sent = [s \in Sessions |-> 0]
    /\ probe = [s \in Sessions |-> FALSE]
    /\ at = [s \in Sessions |-> "idle"]
    /\ provider = [s \in Sessions |-> s]
    /\ picked = [s \in Sessions |-> NoPort]
    /\ isOpen = [s \in Sessions |-> FALSE]
    /\ spoken = [s \in Sessions |-> 0]
    /\ channel = [s \in Sessions |-> TRUE]
    /\ telling = [s \in Sessions |-> FALSE]
    /\ others = {}
    /\ lost = {}

-----------------------------------------------------------------------------
(* Helpers                                                                 *)

Goto(s, where) == at' = [at EXCEPT ![s] = where]
Fault == faults < MaxFaults /\ faults' = faults + 1

Has(q, e) == \E i \in 1..Len(q) : q[i] = e

\* A full queue loses its oldest event, whatever it is.
Queued(q, e) == Append(IF Len(q) >= QueueMax THEN Tail(q) ELSE q, e)

\* Mutant of queue_event: the queue of a session that is gone is used.
QueueEventToAnyone(s, e) ==
    /\ queue' = [queue EXCEPT ![s] = Queued(@, e)]
    /\ UNCHANGED lost

\* A media event for the bridge; a session that is gone has no queue.
queue_event(s, e) ==
    LET q == Queued(queue[s], e) IN
    IF s \in handles
    THEN /\ queue' = [queue EXCEPT ![s] = q]
         /\ lost' = IF Has(queue[s], "hangup") /\ ~Has(q, "hangup")
                    THEN lost \cup {s} ELSE lost
    ELSE UNCHANGED <<queue, lost>>

\* A frame waits in pending_outbound; a full buffer loses its oldest frame.
Buffered(b, f) == Append(IF Len(b) >= BufferMax THEN Tail(b) ELSE b, f)

\* Mutant of flush_pending_audio: the address is set and nothing is flushed.
PrimeKeepsBuffer(s) ==
    /\ remote' = [remote EXCEPT ![s] = TRUE]
    /\ UNCHANGED <<sent, pending>>

\* Frames go out in packets, without suspending; the last one is remembered.
send_rtp_audio(s, frames) ==
    sent' = [sent EXCEPT ![s] = IF frames = <<>> THEN @ ELSE frames[Len(frames)]]

\* The remote address is set and what waited for it is sent.
flush_pending_audio(s) ==
    /\ remote' = [remote EXCEPT ![s] = TRUE]
    /\ send_rtp_audio(s, pending[s])
    /\ pending' = [pending EXCEPT ![s] = <<>>]

\* An event, the metadata of the call or a probe may name the address.
MayPrime(s) ==
    \/ ~remote[s] /\ flush_pending_audio(s)
    \/ UNCHANGED <<remote, sent, pending>>

\* A command on the ESL connection: written (to a socket that may be dead), or
\* the socket says it is gone.
Sends == esl # "none" /\ UNCHANGED faults
SendFails == \/ esl \in {"none", "broken"} /\ UNCHANGED faults
             \/ esl = "up" /\ Fault

\* The attach command raises when it cannot be sent, the hang-up command does not.
run_attach_command(ok) == IF ok THEN Sends ELSE SendFails
run_hangup_command(ok) == IF ok THEN Sends ELSE SendFails

-----------------------------------------------------------------------------
(* The ESL connection                                                      *)

\* Who waits in _ensure_esl_connected.
Wants(t) == IF t = Reader THEN reader = "ensuring" ELSE at[t] = "ensuring"

\* The connection is there: attach_session goes on and enters the session
\* without suspending, the reader waits for a frame.
Register(s) ==
    /\ Goto(s, "mapping")
    /\ handles' = handles \cup {s}
    /\ queue' = [queue EXCEPT ![s] = <<>>]
    /\ uuids' = uuids \cup {provider[s]}
    /\ corr' = [corr EXCEPT ![s] = provider[s]]
    /\ UNCHANGED <<port, watchdog, lost>>

\* _ensure_esl_connected finds the connection up, at once or after the lock.
Ensured(s) ==
    /\ at[s] = "ensuring" /\ esl # "none" /\ connecting # s
    /\ Register(s)
    /\ UNCHANGED <<eslVars, mediaVars, provider, picked, isOpen, spoken,
                   farVars>>

ReaderEnsured ==
    /\ reader = "ensuring" /\ esl # "none" /\ connecting # Reader
    /\ reader' = "reading"
    /\ UNCHANGED <<esl, connecting, attempts, evt, faults, tableVars, mediaVars,
                   openVars, farVars>>

TakeConnectLock(t) ==
    /\ Wants(t) /\ esl = "none" /\ connecting = Nobody
    /\ connecting' = t
    /\ attempts' = 0
    /\ UNCHANGED <<esl, reader, evt, faults, tableVars, mediaVars, openVars, farVars>>

\* connect(), with the greeting and the password, and subscribe_events(): all of
\* it succeeds, or something raises.
connect(ok) == IF ok THEN UNCHANGED faults ELSE Fault

\* The attempt succeeds: the reader is started if there is
\* none, and the lock is free.
Connected(t) ==
    /\ connecting = t /\ connect(TRUE)
    /\ esl' = "up"
    /\ connecting' = Nobody
    /\ attempts' = 0
    /\ reader' = CASE t = Reader -> "reading"
                   [] reader = "none" -> "ensuring"
                   [] OTHER -> reader
    /\ IF t = Reader THEN UNCHANGED <<tableVars, at>>
                     ELSE Register(t)
    /\ UNCHANGED <<evt, mediaVars, provider, picked, isOpen, spoken,
                   farVars>>

\* An attempt fails: the task sleeps and tries again with the lock held, or
\* gives up after the last attempt.  A reader that gives up is replaced.
ConnectFails(t) ==
    /\ connecting = t /\ connect(FALSE)
    /\ IF Attempts > 0 /\ attempts + 1 >= Attempts
       THEN /\ connecting' = Nobody
            /\ attempts' = 0
            /\ IF t = Reader THEN reader' = "closing" /\ UNCHANGED at
                             ELSE Goto(t, "refused") /\ UNCHANGED reader
       ELSE /\ attempts' = IF Attempts > 0 THEN attempts + 1 ELSE 0
            /\ UNCHANGED <<connecting, reader, at>>
    /\ UNCHANGED <<esl, evt, tableVars, mediaVars, provider, picked, isOpen,
                   spoken, farVars>>

\* The connection is lost: events on it are lost too.  The client notices when
\* it reads or writes.
EslBreaks ==
    /\ esl = "up" /\ Fault
    /\ esl' = "broken"
    /\ telling' = [s \in Sessions |-> FALSE]
    /\ UNCHANGED <<connecting, attempts, reader, evt, tableVars, mediaVars,
                   openVars, channel, others>>

\* read_frame of a lost connection: it raises, or, at the end of the stream,
\* returns an empty frame without suspending.
read_frame == {"raises", "empty"}

\* The loop closes a connection that raises.  An empty frame is none that it
\* knows: it goes round for ever, and the process runs nothing else.
ReaderFails ==
    /\ reader = "reading" /\ esl = "broken"
    /\ \E frame \in read_frame :
          IF frame = "raises" THEN reader' = "closing" /\ esl' = "none"
                              ELSE reader' = "spinning" /\ UNCHANGED esl
    /\ UNCHANGED <<connecting, attempts, evt, faults, tableVars, mediaVars,
                   openVars, farVars>>

\* _handle_esl_disconnect has closed the client: a new reader task.
ReaderRestarts ==
    /\ reader = "closing"
    /\ reader' = "ensuring"
    /\ UNCHANGED <<esl, connecting, attempts, evt, faults, tableVars, mediaVars,
                   openVars, farVars>>

-----------------------------------------------------------------------------
(* The reader: _process_plain_event and what it calls                      *)

\* _apply_normalized_event up to its first await: the session is still there,
\* the address may be in the event.  A hang-up is written to the correlation
\* store before it is queued.
Apply(u, name) ==
    LET s == Leg(u) IN
    /\ IF s \in handles /\ port[s] # NoPort
       THEN MayPrime(s) ELSE UNCHANGED <<remote, sent, pending>>
    /\ IF s \in handles /\ name = "hangup"
       THEN /\ reader' = "handling"
            /\ evt' = [step |-> "storing", uuid |-> u, name |-> name]
            /\ UNCHANGED <<queue, lost>>
       ELSE /\ reader' = "ensuring"
            /\ evt' = NoEvent
            /\ IF name = "barge" THEN queue_event(s, "barge") ELSE UNCHANGED <<queue, lost>>

update_correlation(u) ==
    LET s == Leg(u) IN
    /\ uuids' = uuids \cup {u}
    /\ corr' = IF corr[s] = NoUuid THEN corr ELSE [corr EXCEPT ![s] = u]

\* What a frame may be: the hang-up of the leg's own channel when it is on the
\* wire, anything from a channel that is up, and the hang-up of another channel
\* that carries the leg's origination uuid.
OnWire(u, name) ==
    \/ name = "hangup" /\ telling[Leg(u)]
    \/ name # "hangup" /\ channel[Leg(u)]
    \/ name = "hangup" /\ channel[Leg(u)] /\ u \in Uuids

\* A frame about a known uuid.
ReadKnown(u, name) ==
    /\ reader = "reading" /\ esl = "up" /\ OnWire(u, name)
    /\ u \in uuids
    /\ telling' = [telling EXCEPT ![Leg(u)] = @ /\ name # "hangup"]
    /\ update_correlation(u)
    /\ Apply(u, name)
    /\ UNCHANGED <<esl, connecting, attempts, faults, handles, port, watchdog,
                   heard, stale, probe, openVars, channel, others>>

\* A frame about an unknown uuid of an attached leg: _promote_session_uuid.
ReadPromote(u, name) ==
    LET s == Leg(u) IN
    /\ reader = "reading" /\ esl = "up" /\ OnWire(u, name)
    /\ u \notin uuids /\ s \in handles
    /\ telling' = [telling EXCEPT ![s] = @ /\ name # "hangup"]
    /\ reader' = "handling"
    /\ evt' = [step |-> "mapping", uuid |-> u, name |-> name]
    /\ update_correlation(u)
    /\ UNCHANGED <<esl, connecting, attempts, faults, handles, port, watchdog,
                   queue, lost, mediaVars, openVars, channel, others>>

\* A frame about a leg without a session goes to the correlation store only.
ReadOther(u, name) ==
    /\ reader = "reading" /\ esl = "up" /\ OnWire(u, name)
    /\ u \notin uuids /\ Leg(u) \notin handles
    /\ telling' = [telling EXCEPT ![Leg(u)] = @ /\ name # "hangup"]
    /\ reader' = "ensuring"
    /\ UNCHANGED <<esl, connecting, attempts, evt, faults, tableVars, mediaVars,
                   openVars, channel, others>>

\* The mapping is stored; without a runtime there is nothing to attach.
Promoted ==
    LET s == Leg(evt.uuid) IN
    /\ evt.step = "mapping"
    /\ IF port[s] # NoPort
       THEN /\ evt' = [evt EXCEPT !.step = "attaching"]
            /\ UNCHANGED <<reader, queue, lost, remote, sent, pending>>
       ELSE Apply(evt.uuid, evt.name)
    /\ UNCHANGED <<esl, connecting, attempts, faults, handles, uuids, corr, port,
                   watchdog, heard, stale, probe, openVars, farVars>>

\* The attach command for the promoted uuid; its failure is only logged.
PromoteAttached ==
    LET s == Leg(evt.uuid) IN
    /\ evt.step = "attaching"
    /\ \/ run_attach_command(TRUE) /\ probe' = [probe EXCEPT ![s] = TRUE]
       \/ run_attach_command(FALSE) /\ UNCHANGED probe
    /\ Apply(evt.uuid, evt.name)
    /\ UNCHANGED <<esl, connecting, attempts, handles, uuids, corr, port, watchdog,
                   heard, stale, openVars, farVars>>

\* The store has the hang-up: it is queued for the bridge.
HangupStored ==
    /\ evt.step = "storing"
    /\ queue_event(Leg(evt.uuid), "hangup")
    /\ reader' = "ensuring"
    /\ evt' = NoEvent
    /\ UNCHANGED <<esl, connecting, attempts, faults, handles, uuids, corr, port,
                   watchdog, mediaVars, openVars, farVars>>

-----------------------------------------------------------------------------
(* FreeSwitchAudioBridge.open and attach_session                           *)

\* open() reads the correlation store: the handle's leg is the real uuid if the
\* store knows one.
Open(s, u) ==
    /\ at[s] = "idle"
    /\ provider' = [provider EXCEPT ![s] = u]
    /\ Goto(s, "ensuring")
    /\ UNCHANGED <<eslVars, tableVars, mediaVars, picked, isOpen, spoken,
                   farVars>>

\* The mapping is in the store.
Mapped(s) ==
    /\ at[s] = "mapping"
    /\ Goto(s, "probing")
    /\ UNCHANGED <<eslVars, tableVars, mediaVars, provider, picked, isOpen,
                   spoken, farVars>>

Free(p) == p \notin others /\ \A t \in Sessions : port[t] # p

\* _find_free_udp_port binds a socket to the first free port, and closes it.
find_free_udp_port(s) ==
    /\ at[s] = "probing"
    /\ IF \E p \in Ports : Free(p)
       THEN /\ picked' = [picked EXCEPT ![s] =
                  CHOOSE p \in Ports : Free(p) /\ \A q \in Ports : Free(q) => p <= q]
            /\ Goto(s, "binding")
       ELSE Goto(s, "leaked") /\ UNCHANGED picked
    /\ UNCHANGED <<eslVars, tableVars, mediaVars, provider, isOpen, spoken,
                   farVars>>

\* The endpoint of the session.
bind_port(s) ==
    /\ port' = [port EXCEPT ![s] = picked[s]]
    /\ picked' = [picked EXCEPT ![s] = NoPort]

\* create_datagram_endpoint: another session, or another process, may have bound
\* the port since, and the bind then fails.
open_rtp_runtime(s) ==
    /\ at[s] = "binding"
    /\ IF Free(picked[s])
       THEN /\ bind_port(s)
            /\ watchdog' = [watchdog EXCEPT ![s] = "running"]
            /\ MayPrime(s)
            /\ Goto(s, IF provider[s] = s THEN "checking" ELSE "commanding")
       ELSE /\ Goto(s, "leaked")
            /\ UNCHANGED <<port, picked, watchdog, remote, sent, pending>>
    /\ UNCHANGED <<eslVars, handles, uuids, corr, queue, lost, heard, stale, probe,
                   provider, isOpen, spoken, farVars>>

\* A provisional uuid is attached now if the channel was answered or exists;
\* otherwise the session waits for the real uuid.
direct_uuid_exists(s) ==
    /\ at[s] = "checking"
    /\ \/ Goto(s, "commanding") /\ UNCHANGED isOpen
       \/ Goto(s, "open") /\ isOpen' = [isOpen EXCEPT ![s] = TRUE]
    /\ UNCHANGED <<eslVars, tableVars, mediaVars, provider, picked, spoken,
                   farVars>>

\* The attach command; when it fails open() raises, and the bridge never learns
\* the session's id.
AttachSent(s) ==
    /\ at[s] = "commanding"
    /\ \/ /\ run_attach_command(TRUE)
          /\ probe' = [probe EXCEPT ![s] = TRUE]
          /\ Goto(s, "open")
          /\ isOpen' = [isOpen EXCEPT ![s] = TRUE]
       \/ /\ run_attach_command(FALSE)
          /\ Goto(s, "leaked")
          /\ UNCHANGED <<probe, isOpen>>
    /\ UNCHANGED <<esl, connecting, attempts, reader, evt, tableVars, remote, heard,
                   stale, pending, sent, provider, picked, spoken, farVars>>

-----------------------------------------------------------------------------
(* The session in use                                                      *)

\* audio_out: the frame is sent, or waits for the address.
send_audio(s) ==
    /\ isOpen[s] /\ s \in handles /\ port[s] # NoPort
    /\ spoken[s] < Frames
    /\ spoken' = [spoken EXCEPT ![s] = @ + 1]
    /\ IF remote[s]
       THEN /\ send_rtp_audio(s, <<spoken[s] + 1>>)
            /\ UNCHANGED pending
       ELSE /\ pending' = [pending EXCEPT ![s] = Buffered(@, spoken[s] + 1)]
            /\ UNCHANGED sent
    /\ UNCHANGED <<eslVars, tableVars, remote, heard, stale, probe, at, provider,
                   picked, isOpen, farVars>>

\* The next event of the queue.
events(s) ==
    /\ queue[s] # <<>>
    /\ queue' = [queue EXCEPT ![s] = Tail(@)]

\* The bridge's audio_in takes an event; a hang-up ends it.
audio_in(s) ==
    /\ isOpen[s] /\ events(s)
    /\ IF Head(queue[s]) = "hangup"
       THEN isOpen' = [isOpen EXCEPT ![s] = FALSE] /\ Goto(s, "over")
       ELSE UNCHANGED <<isOpen, at>>
    /\ UNCHANGED <<eslVars, handles, uuids, corr, port, watchdog, lost, mediaVars,
                   provider, picked, spoken, farVars>>

\* A datagram: the sender's address is the far end's from now on.  A packet
\* without a payload is no sign of life.
on_rtp_datagram(s) ==
    /\ channel[s] /\ port[s] # NoPort
    /\ flush_pending_audio(s)
    /\ \/ /\ heard' = [heard EXCEPT ![s] = TRUE]
          /\ stale' = [stale EXCEPT ![s] = FALSE]
          /\ queue_event(s, "audio")
       \/ UNCHANGED <<heard, stale, queue, lost>>
    /\ UNCHANGED <<eslVars, handles, uuids, corr, port, watchdog, probe, openVars,
                   channel, telling, others>>

\* The probe has asked eight variables over a connection of its own; it sets the
\* address it was told although another may have been learnt since.
Probed(s) ==
    /\ probe[s]
    /\ probe' = [probe EXCEPT ![s] = FALSE]
    /\ \/ port[s] # NoPort /\ flush_pending_audio(s)
       \/ UNCHANGED <<remote, sent, pending>>
    /\ UNCHANGED <<eslVars, tableVars, heard, stale, openVars, farVars>>

\* Mutant of rtp_watchdog_loop: only the wait for the first packet is timed.
WatchdogFirstPacketOnly(s) ==
    /\ watchdog[s] = "running" /\ s \in handles /\ port[s] # NoPort
    /\ stale[s] /\ ~heard[s] /\ ~remote[s]
    /\ watchdog' = [watchdog EXCEPT ![s] = "returned"]
    /\ queue_event(s, "hangup")
    /\ UNCHANGED <<eslVars, handles, uuids, corr, port, mediaVars, openVars, farVars>>

\* A round of the watchdog that ends the session.  A session whose far end is
\* known and was never heard is left alone.
rtp_watchdog_loop(s) ==
    /\ watchdog[s] = "running" /\ s \in handles /\ port[s] # NoPort
    /\ stale[s] /\ (heard[s] \/ ~remote[s])
    /\ watchdog' = [watchdog EXCEPT ![s] = "returned"]
    /\ queue_event(s, "hangup")
    /\ UNCHANGED <<eslVars, handles, uuids, corr, port, mediaVars, openVars, farVars>>

\* rtp_inbound_timeout_seconds pass.
TimePasses(s) ==
    /\ port[s] # NoPort /\ ~stale[s]
    /\ stale' = [stale EXCEPT ![s] = TRUE]
    /\ UNCHANGED <<eslVars, tableVars, remote, heard, pending, sent, probe, openVars,
                   farVars>>

-----------------------------------------------------------------------------
(* close and detach_session                                                *)

\* close() of a bridge that is open: the watchdog is cancelled and awaited.  A
\* bridge that a hang-up ended is not open: close() returns and nobody detaches.
Close(s) ==
    /\ isOpen[s]
    /\ isOpen' = [isOpen EXCEPT ![s] = FALSE]
    /\ Goto(s, "watchdog")
    /\ watchdog' = [watchdog EXCEPT ![s] = "returned"]
    /\ UNCHANGED <<eslVars, handles, uuids, corr, port, queue, lost, mediaVars, provider,
                   picked, spoken, farVars>>

\* Mutant of HangupSent: its failure is not caught.
HangupCommandRaises(s) ==
    /\ at[s] = "watchdog"
    /\ \/ /\ run_hangup_command(TRUE)
          /\ Goto(s, "hangup")
          /\ IF esl = "up" /\ channel[s]
             THEN /\ channel' = [channel EXCEPT ![s] = FALSE]
                  /\ telling' = [telling EXCEPT ![s] = TRUE]
             ELSE UNCHANGED <<channel, telling>>
       \/ run_hangup_command(FALSE) /\ Goto(s, "over") /\ UNCHANGED <<channel, telling>>
    /\ UNCHANGED <<esl, connecting, attempts, reader, evt, tableVars, mediaVars,
                   provider, picked, isOpen, spoken, others>>

\* The hang-up command for the provider leg; its failure is only logged.
HangupSent(s) ==
    /\ at[s] = "watchdog"
    /\ Goto(s, "hangup")
    /\ \/ /\ run_hangup_command(TRUE)
          /\ IF esl = "up" /\ channel[s]
             THEN /\ channel' = [channel EXCEPT ![s] = FALSE]
                  /\ telling' = [telling EXCEPT ![s] = TRUE]
             ELSE UNCHANGED <<channel, telling>>
       \/ run_hangup_command(FALSE) /\ UNCHANGED <<channel, telling>>
    /\ UNCHANGED <<esl, connecting, attempts, reader, evt, tableVars, mediaVars,
                   provider, picked, isOpen, spoken, others>>

\* The socket is closed and the session leaves every table.  A uuid that was
\* promoted and replaced again stays in _uuid_to_session.
Detached(s) ==
    /\ at[s] = "hangup"
    /\ Goto(s, "closed")
    /\ port' = [port EXCEPT ![s] = NoPort]
    /\ handles' = handles \ {s}
    /\ queue' = [queue EXCEPT ![s] = <<>>]
    /\ uuids' = uuids \ {provider[s], corr[s]}
    /\ corr' = [corr EXCEPT ![s] = NoUuid]
    /\ remote' = [remote EXCEPT ![s] = FALSE]
    /\ heard' = [heard EXCEPT ![s] = FALSE]
    /\ stale' = [stale EXCEPT ![s] = FALSE]
    /\ pending' = [pending EXCEPT ![s] = <<>>]
    /\ UNCHANGED <<eslVars, watchdog, lost, sent, probe, provider, picked, isOpen, spoken,
                   farVars>>

-----------------------------------------------------------------------------
(* FreeSWITCH                                                              *)

\* The customer hangs up: the event is on the connection, if there is one.
CustomerHangsUp(s) ==
    /\ channel[s]
    /\ channel' = [channel EXCEPT ![s] = FALSE]
    /\ telling' = [telling EXCEPT ![s] = esl = "up"]
    /\ UNCHANGED <<eslVars, tableVars, mediaVars, openVars, others>>

\* The port range is FreeSWITCH's own by default, and every worker's.
OthersBind(p) ==
    /\ others' = IF p \in others THEN others \ {p}
                ELSE IF Free(p) THEN others \cup {p} ELSE others
    /\ UNCHANGED <<eslVars, tableVars, mediaVars, openVars, channel, telling>>

-----------------------------------------------------------------------------
(* The system                                                              *)

ReadStep ==
    \/ \E s \in Sessions : \E u \in Channels(s), name \in {"progress", "hangup", "barge"} :
          ReadKnown(u, name) \/ ReadPromote(u, name) \/ ReadOther(u, name)
    \/ Promoted \/ PromoteAttached \/ HangupStored

ConnectStep ==
    \E t \in Sessions \cup {Reader} : TakeConnectLock(t) \/ Connected(t) \/ ConnectFails(t)

OpenStep(s) ==
    \/ Ensured(s) \/ Mapped(s) \/ find_free_udp_port(s) \/ open_rtp_runtime(s)
    \/ direct_uuid_exists(s) \/ AttachSent(s)

CloseStep(s) == HangupSent(s) \/ Detached(s)

SessionStep(s) ==
    \/ \E u \in Channels(s) : Open(s, u)
    \/ OpenStep(s) \/ CloseStep(s) \/ Close(s)
    \/ send_audio(s) \/ audio_in(s)
    \/ on_rtp_datagram(s) \/ Probed(s) \/ rtp_watchdog_loop(s) \/ TimePasses(s)
    \/ CustomerHangsUp(s)

Next ==
    /\ reader # "spinning"
    /\ \/ ConnectStep \/ ReadStep
       \/ ReaderEnsured \/ EslBreaks \/ ReaderFails \/ ReaderRestarts
       \/ \E s \in Sessions : SessionStep(s)
       \/ \E p \in Ports : OthersBind(p)

\* The event loop runs every task that is ready, and time passes.
Running(A) == reader # "spinning" /\ A

Fairness ==
    /\ \A s \in Sessions :
          /\ WF_vars(Running(CloseStep(s)))
          /\ WF_vars(Running(audio_in(s)))
          /\ WF_vars(Running(TimePasses(s)))
          /\ WF_vars(Running(rtp_watchdog_loop(s)))

Spec == Init /\ [][Next]_vars /\ Fairness

-----------------------------------------------------------------------------
(* Properties                                                              *)

\* The customer hears the agent's frames in the order they were spoken: what
\* waited in pending_outbound goes out before anything sent later, whoever
\* learns the far end's address (an event, the call's metadata, a probe, a
\* datagram).  Frames may be dropped from a full buffer.
FramesInOrder ==
    \A s \in Sessions :
        LET frames == <<sent[s]>> \o pending[s] IN
        \A i, j \in 1..Len(frames) : i < j => frames[i] < frames[j]

\* A detached session is gone from the tables for good, whatever the reader, the
\* watchdog, a probe and late datagrams were in the middle of.
DetachedIsGone ==
    \A s \in Sessions : at[s] = "closed" =>
        /\ s \notin handles /\ corr[s] = NoUuid /\ port[s] = NoPort
        /\ queue[s] = <<>> /\ watchdog[s] # "running" /\ ~isOpen[s]

\* A bridge whose channel is gone learns of it even if the ESL event is lost
\* with the connection: the watchdog tells it.  It does not where the watchdog
\* is blind (the far end is known and was never heard), where a full queue threw
\* the hang-up out, and where nothing runs because the reader spins.
Blind(s) == remote[s] /\ ~heard[s]

HangupNoticed ==
    \A s \in Sessions :
        isOpen[s] /\ ~channel[s] ~> ~isOpen[s] \/ Blind(s) \/ s \in lost \/ reader = "spinning"

\* A bridge that is closed gives its port back, also when the hang-up command
\* cannot be sent.
CloseReleases ==
    \A s \in Sessions : at[s] \in Closing ~> port[s] = NoPort \/ reader = "spinning"

=============================================================================
