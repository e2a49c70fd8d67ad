---------------------------- MODULE BrowserCall ----------------------------
(***************************************************************************)
(* A test call from a browser.  POST /v1/browser-calls starts a Direct     *)
(* session over an in-memory bridge and hands out a token; a browser opens *)
(* a websocket with it.  The websocket handler runs three tasks and waits  *)
(* for ALL of them: _receiver (microphone to the bridge), _sender (bridge  *)
(* to the speaker) and _control_sender.  The session's reader takes the    *)
(* microphone frames out of the bridge and ends the session when the       *)
(* bridge is closed.                                                       *)
(*                                                                         *)
(* Every request builds an adapter of its own and the registry is keyed by *)
(* the call, so calls do not meet: the module follows one call and several *)
(* browsers that hold its token.  With Proxied the websocket is relayed by *)
(* the edge process, which also waits for both of its directions.          *)
(***************************************************************************)
EXTENDS Naturals, Sequences

CONSTANTS
    Clients,      \* websockets opened for the call
    AudioMax,     \* room of the two audio queues (128 in the code)
    ControlMax,   \* room of the control queue (16)
    ToneChunks,   \* frames of the test tone, put in one burst
    MaxIn,        \* bound: microphone frames
    MaxOut,       \* bound: frames for the speaker
    MaxNotes,     \* bound: control messages before the last one
    Proxied       \* the websocket goes through the edge process

\* A frame is known by who made it: a browser, the agent, a debug request.
End == "end"            \* the None that close() puts in a queue

ASSUME BrowserAssumption ==
    /\ AudioMax \in Nat \ {0}
    /\ ControlMax \in Nat \ {0}
    /\ ToneChunks \in Nat \ {0}
    /\ MaxIn \in Nat
    /\ MaxOut \in Nat
    /\ MaxNotes \in Nat
    /\ Proxied \in BOOLEAN
    /\ End \notin Clients

VARIABLES
    call,       \* the creating request: "none", "creating", "live", "failed"
    registry,   \* the registry holds the bridge
    bridgeOpen,     \* _is_open; the close event is set once it is lowered
    connected,  \* _client_connected
    inq,        \* _inbound_queue
    outq,       \* _outbound_queue
    control,    \* _control_queue
    session,    \* "none", "up", "ending", "told", "over"
    micReader,     \* _bridge_audio_reader: "none", "on", "done"
    tts,        \* the debug synthesis request: "idle", "on", "done"
    phase,      \* handler of each websocket
    task,       \* its three tasks
    browser,    \* the other end: "away", "here", "gone"
    link,       \* what the server's socket knows of it: "none", "up", "down"
    pipe,       \* something was sent that has not arrived
    voices,      \* history: the browsers whose frames the session took
    nIn, nOut, nNotes

bridge == <<registry, bridgeOpen, connected>>
queues == <<inq, outq, control>>
sockets == <<phase, task, browser, link, pipe>>
counts == <<nIn, nOut, nNotes>>
browserVars == <<call, bridge, queues, session, micReader, tts, sockets, voices, counts>>

CallEnded == "call_ended"
Tasks == {"receiver", "sender", "control"}

BrowserInit ==
    /\ call = "none"
    /\ registry = FALSE
    /\ bridgeOpen = FALSE
    /\ connected = FALSE
    /\ inq = <<>>
    /\ outq = <<>>
    /\ control = <<>>
    /\ session = "none"
    /\ micReader = "none"
    /\ tts = "idle"
    /\ phase = [c \in Clients |-> "away"]
    /\ task = [c \in Clients |-> [t \in Tasks |-> "off"]]
    /\ browser = [c \in Clients |-> "away"]
    /\ link = [c \in Clients |-> "none"]
    /\ pipe = [c \in Clients |-> FALSE]
    /\ voices = {}
    /\ nIn = 0
    /\ nOut = 0
    /\ nNotes = 0

(***************************************************************************)
(* The bridge.                                                             *)
(***************************************************************************)

\* A bounded queue that gives up its oldest item for each one there is no room
\* for.
PutDroppingOldest(q, items) ==
    LET all == q \o items
    IN  IF Len(all) <= AudioMax THEN all
        ELSE SubSeq(all, Len(all) - AudioMax + 1, Len(all))

\* A bounded queue that gives up the new item.
PutIfRoom(q, x, room) == IF Len(q) < room THEN Append(q, x) ELSE q

\* close(): nothing happens to a bridge that is not open; a full queue gets no
\* end mark.
CloseBridge ==
    /\ bridgeOpen' = FALSE
    /\ inq' = IF bridgeOpen THEN PutIfRoom(inq, End, AudioMax) ELSE inq
    /\ outq' = IF bridgeOpen THEN PutIfRoom(outq, End, AudioMax) ELSE outq

\* detach_client(): the flag is lowered and the bridge closed.
DetachClient == connected' = FALSE /\ CloseBridge

\* audio_out(): frames for the speaker, oldest given up.
AudioOut(frames) ==
    outq' = IF bridgeOpen THEN PutDroppingOldest(outq, frames) ELSE outq

\* push_audio() that only asks whether a browser is attached.
PushAudioToClosed(f) ==
    inq' = IF connected THEN PutDroppingOldest(inq, <<f>>) ELSE inq

\* push_audio(): a frame of the microphone.
PushAudio(f) ==
    inq' = IF bridgeOpen /\ connected THEN PutDroppingOldest(inq, <<f>>) ELSE inq

\* send_control()
SendControl(m) == control' = PutIfRoom(control, m, ControlMax)

\* A loop that waits for the end mark alone.
DrainedOnlyByMark(q) == FALSE

\* A loop that leaves as soon as the bridge is closed.
DrainedAtOnce(q) == ~bridgeOpen

\* The condition on which audio_in() and outbound_audio() leave without an end
\* mark: the bridge is closed and the queue is empty.
Drained(q) == ~bridgeOpen /\ q = <<>>

(***************************************************************************)
(* Creation of the call.                                                   *)
(***************************************************************************)

\* connect() makes the bridge of the call the adapter was told of;
\* attach_audio_bridge finds it again and opens it.
Connect == registry' = TRUE
AttachAudioBridge == bridgeOpen' = TRUE

\* initiate_call of the browser engine, up to the registration of the session.
Create ==
    /\ call = "none"
    /\ call' = "creating"
    /\ Connect
    /\ AttachAudioBridge
    /\ session' = "up"
    /\ UNCHANGED <<connected, queues, micReader, tts, sockets, voices, counts>>

\* The capabilities do not allow audio: the bridge is closed, disconnect()
\* detaches and removes it (with its queues), no session is registered.
CreateRefused ==
    /\ call = "none"
    /\ call' = "failed"
    /\ UNCHANGED <<bridge, queues, session, micReader, tts, sockets, voices, counts>>

\* Gemini answers: the audio loop starts its reader, the request returns the
\* token.
GeminiReady ==
    /\ call = "creating"
    /\ call' = "live"
    /\ micReader' = "on"
    /\ UNCHANGED <<bridge, queues, session, tts, sockets, voices, counts>>

\* Gemini does not answer: the request fails and nothing it made is undone.
GeminiFails ==
    /\ call = "creating"
    /\ call' = "failed"
    /\ UNCHANGED <<bridge, queues, session, micReader, tts, sockets, voices, counts>>

(***************************************************************************)
(* The websocket.                                                          *)
(***************************************************************************)

\* get_bridge_by_token
FoundByToken(rightToken) == registry /\ rightToken

\* The token finds the bridge and attach_client succeeds.
Attach(c) ==
    /\ call = "live"
    /\ phase[c] = "away"
    /\ FoundByToken(TRUE)
    /\ ~connected
    /\ connected' = TRUE
    /\ phase' = [phase EXCEPT ![c] = "attached"]
    /\ browser' = [browser EXCEPT ![c] = "here"]
    /\ link' = [link EXCEPT ![c] = "up"]
    /\ UNCHANGED <<call, registry, bridgeOpen, queues, session, micReader, tts, task,
                   pipe, voices, counts>>

\* The token is wrong (4404) or a browser is attached already (4409).
Refuse(c, rightToken) ==
    /\ call = "live"
    /\ phase[c] = "away"
    /\ FoundByToken(rightToken) => connected
    /\ phase' = [phase EXCEPT ![c] = "refused"]
    /\ UNCHANGED <<call, bridge, queues, session, micReader, tts, task, browser,
                   link, pipe, voices, counts>>

\* accept, the "ready" message, and the three tasks.
Accept(c) ==
    /\ phase[c] = "attached"
    /\ link[c] = "up"
    /\ phase' = [phase EXCEPT ![c] = "talking"]
    /\ task' = [task EXCEPT ![c] = [t \in Tasks |-> "on"]]
    /\ UNCHANGED <<call, bridge, queues, session, micReader, tts, browser, link,
                   pipe, voices, counts>>

\* _receiver: a frame from the microphone.
Receive(c) ==
    /\ task[c]["receiver"] = "on"
    /\ browser[c] = "here"
    /\ nIn < MaxIn
    /\ nIn' = nIn + 1
    /\ PushAudio(c)
    /\ UNCHANGED <<call, bridge, outq, control, session, micReader, tts, sockets,
                   voices, nOut, nNotes>>

\* _receiver leaves on "websocket.disconnect".
ReceiverEnds(c) ==
    /\ task[c]["receiver"] = "on"
    /\ link[c] = "down"
    /\ task' = [task EXCEPT ![c]["receiver"] = "off"]
    /\ UNCHANGED <<call, bridge, queues, session, micReader, tts, phase, browser,
                   link, pipe, voices, counts>>

\* _sender takes the next item: the end mark ends it, a frame is sent, and a
\* send to a socket that is down raises out of the gather.
Send(c) ==
    /\ task[c]["sender"] = "on"
    /\ outq # <<>>
    /\ outq' = Tail(outq)
    /\ LET up == Head(outq) # End /\ link[c] = "up" IN
       /\ task' = [task EXCEPT ![c]["sender"] =
                     IF Head(outq) = End THEN "off" ELSE IF up THEN "on" ELSE "failed"]
       /\ pipe' = [pipe EXCEPT ![c] = @ \/ up]
    /\ UNCHANGED <<call, bridge, inq, control, session, micReader, tts, phase,
                   browser, link, voices, counts>>

\* _sender finds the bridge closed and nothing left to send.
SenderEnds(c) ==
    /\ task[c]["sender"] = "on"
    /\ Drained(outq)
    /\ task' = [task EXCEPT ![c]["sender"] = "off"]
    /\ UNCHANGED <<call, bridge, queues, session, micReader, tts, phase, browser,
                   link, pipe, voices, counts>>

\* _control_sender gets a message, also one that came just before the close,
\* and sends it; a failed send ends the task and nothing else.
SendNote(c) ==
    /\ task[c]["control"] = "on"
    /\ control # <<>>
    /\ control' = Tail(control)
    /\ IF link[c] = "up"
       THEN /\ pipe' = [pipe EXCEPT ![c] = TRUE]
            /\ task' = [task EXCEPT ![c]["control"] = "sent"]
       ELSE /\ task' = [task EXCEPT ![c]["control"] = "off"]
            /\ UNCHANGED pipe
    /\ UNCHANGED <<call, bridge, inq, outq, session, micReader, tts, phase,
                   browser, link, voices, counts>>

\* After a message, or a wait without one, the loop asks whether the bridge is
\* open: what is in the queue when it is not is never sent.
ControlLoops(c) ==
    /\ \/ task[c]["control"] = "sent"
       \/ task[c]["control"] = "on" /\ ~bridgeOpen /\ control = <<>>
    /\ task' = [task EXCEPT ![c]["control"] = IF bridgeOpen THEN "on" ELSE "off"]
    /\ UNCHANGED <<call, bridge, queues, session, micReader, tts, phase, browser,
                   link, pipe, voices, counts>>

\* The handler waits for its three tasks; only a raise cuts the wait short,
\* and it leaves the other tasks running.
GatherReturns(c) ==
    \/ phase[c] = "attached" /\ link[c] = "down"
    \/ phase[c] = "talking" /\ task[c]["sender"] = "failed"
    \/ phase[c] = "talking" /\ \A t \in Tasks : task[c][t] = "off"

\* The finally clause: detach_client lowers the flag and closes the bridge.
Leave(c) ==
    /\ GatherReturns(c)
    /\ DetachClient
    /\ phase' = [phase EXCEPT ![c] = "closed"]
    /\ UNCHANGED <<call, registry, control, session, micReader, tts, task,
                   browser, link, pipe, voices, counts>>

\* The network and the browser: something arrives, the tab is closed.
Arrive(c) ==
    /\ pipe[c]
    /\ browser[c] = "here"
    /\ pipe' = [pipe EXCEPT ![c] = FALSE]
    /\ UNCHANGED <<call, bridge, queues, session, micReader, tts, phase, task,
                   browser, link, voices, counts>>

BrowserLeaves(c) ==
    /\ browser[c] = "here"
    /\ browser' = [browser EXCEPT ![c] = "gone"]
    /\ UNCHANGED <<call, bridge, queues, session, micReader, tts, phase, task,
                   link, pipe, voices, counts>>

\* The server's socket learns that the tab is closed: at once over a direct
\* connection; through the edge only once something has to be relayed to it,
\* because the edge waits for both directions before it hangs up.
LinkDrops(c) ==
    /\ browser[c] = "gone"
    /\ link[c] = "up"
    /\ Proxied => pipe[c]
    /\ link' = [link EXCEPT ![c] = "down"]
    /\ pipe' = [pipe EXCEPT ![c] = FALSE]
    /\ UNCHANGED <<call, bridge, queues, session, micReader, tts, phase, task,
                   browser, voices, counts>>

(***************************************************************************)
(* The session (its own steps are those of DirectSession and DirectAudio). *)
(***************************************************************************)

\* The agent says something, or has a message for the page.
AgentSpeaks ==
    /\ session = "up"
    /\ call = "live"
    /\ nOut < MaxOut
    /\ nOut' = nOut + 1
    /\ AudioOut(<<"agent">>)
    /\ UNCHANGED <<call, bridge, inq, control, session, micReader, tts, sockets,
                   voices, nIn, nNotes>>

AgentNotes ==
    /\ session = "up"
    /\ call = "live"
    /\ nNotes < MaxNotes
    /\ nNotes' = nNotes + 1
    /\ SendControl("note")
    /\ UNCHANGED <<call, bridge, inq, outq, session, micReader, tts, sockets,
                   voices, nIn, nOut>>

\* The debug requests: a burst of tone, and a synthesis that goes on writing to
\* the bridge it looked up when it began.
TestTone ==
    /\ registry
    /\ session = "up"
    /\ call = "live"
    /\ nOut + ToneChunks <= MaxOut
    /\ nOut' = nOut + ToneChunks
    /\ AudioOut([i \in 1..ToneChunks |-> "debug"])
    /\ UNCHANGED <<call, bridge, inq, control, session, micReader, tts, sockets,
                   voices, nIn, nNotes>>

TestTtsStarts ==
    /\ tts = "idle"
    /\ registry
    /\ session = "up"
    /\ call = "live"
    /\ tts' = "on"
    /\ UNCHANGED <<call, bridge, queues, session, micReader, sockets, voices, counts>>

TestTtsChunk ==
    /\ tts = "on"
    /\ nOut < MaxOut
    /\ nOut' = nOut + 1
    /\ AudioOut(<<"debug">>)
    /\ UNCHANGED <<call, bridge, inq, control, session, micReader, tts, sockets,
                   voices, nIn, nNotes>>

TestTtsEnds ==
    /\ tts = "on"
    /\ tts' = "done"
    /\ UNCHANGED <<call, bridge, queues, session, micReader, sockets, voices, counts>>

\* _bridge_audio_reader takes a frame; the end mark, or the stop event, ends it.
Hear ==
    /\ micReader = "on"
    /\ inq # <<>>
    /\ inq' = Tail(inq)
    /\ LET heeded == Head(inq) # End /\ session = "up" IN
       /\ micReader' = IF heeded THEN "on" ELSE "done"
       /\ voices' = IF heeded THEN voices \cup {Head(inq)} ELSE voices
    /\ UNCHANGED <<call, bridge, outq, control, session, tts, sockets, counts>>

HearEnds ==
    /\ micReader = "on"
    /\ Drained(inq)
    /\ micReader' = "done"
    /\ UNCHANGED <<call, bridge, queues, session, tts, sockets, voices, counts>>

\* terminate_session begins because the reader came to the end ...
BridgeEndsSession ==
    /\ session = "up"
    /\ micReader = "done"
    /\ session' = "ending"
    /\ UNCHANGED <<call, bridge, queues, micReader, tts, sockets, voices, counts>>

\* ... or because somebody asked for it (the stop request, the agent, Gemini):
\* the reader is cancelled.
EndSession ==
    /\ session = "up"
    /\ call = "live"
    /\ session' = "ending"
    /\ micReader' = "done"
    /\ UNCHANGED <<call, bridge, queues, tts, sockets, voices, counts>>

\* terminate_session tells the browser and, after the Gemini socket is closed,
\* closes the bridge.
TellBrowser ==
    /\ session = "ending"
    /\ session' = "told"
    /\ SendControl(CallEnded)
    /\ UNCHANGED <<call, bridge, inq, outq, micReader, tts, sockets, voices, counts>>

\* A terminate_session that leaves the bridge to the adapter's disconnect,
\* which nobody calls.
ShutWithoutBridge ==
    /\ session = "told"
    /\ session' = "over"
    /\ UNCHANGED <<call, bridge, queues, micReader, tts, sockets, voices, counts>>

ShutBridge ==
    /\ session = "told"
    /\ session' = "over"
    /\ CloseBridge
    /\ UNCHANGED <<call, registry, connected, control, micReader, tts, sockets,
                   voices, counts>>

(***************************************************************************)
(* Specification.                                                          *)
(***************************************************************************)

BrowserNext ==
    \/ Create \/ CreateRefused \/ GeminiReady \/ GeminiFails
    \/ \E c \in Clients :
          \/ Attach(c)
          \/ \E rightToken \in BOOLEAN : Refuse(c, rightToken)
          \/ Accept(c) \/ Receive(c) \/ ReceiverEnds(c) \/ Send(c) \/ SenderEnds(c)
          \/ SendNote(c) \/ ControlLoops(c) \/ Leave(c)
          \/ Arrive(c) \/ BrowserLeaves(c) \/ LinkDrops(c)
    \/ AgentSpeaks \/ AgentNotes \/ TestTone
    \/ TestTtsStarts \/ TestTtsChunk \/ TestTtsEnds
    \/ Hear \/ HearEnds \/ BridgeEndsSession \/ EndSession
    \/ TellBrowser \/ ShutBridge

BrowserSpec == BrowserInit /\ [][BrowserNext]_browserVars

\* A task of the event loop that can run is run, and a dead connection is
\* noticed.  Nothing makes the agent speak, the browser leave or anybody stop.
HandlerStep(c) ==
    Accept(c) \/ Send(c) \/ SenderEnds(c) \/ SendNote(c) \/ ControlLoops(c)
        \/ ReceiverEnds(c) \/ Leave(c) \/ LinkDrops(c)

SessionRuns == Hear \/ HearEnds \/ BridgeEndsSession \/ TellBrowser \/ ShutBridge

BrowserFairSpec ==
    /\ BrowserSpec
    /\ \A c \in Clients : WF_browserVars(HandlerStep(c))
    /\ WF_browserVars(SessionRuns)

(***************************************************************************)
(* Properties.                                                             *)
(***************************************************************************)

BrowserTypeOK ==
    /\ call \in {"none", "creating", "live", "failed"}
    /\ registry \in BOOLEAN
    /\ bridgeOpen \in BOOLEAN
    /\ connected \in BOOLEAN
    /\ inq \in Seq(Clients \cup {End}) /\ Len(inq) <= AudioMax
    /\ outq \in Seq({"agent", "debug", End}) /\ Len(outq) <= AudioMax
    /\ control \in Seq({"note", CallEnded}) /\ Len(control) <= ControlMax
    /\ session \in {"none", "up", "ending", "told", "over"}
    /\ micReader \in {"none", "on", "done"}
    /\ tts \in {"idle", "on", "done"}
    /\ phase \in [Clients -> {"away", "refused", "attached", "talking", "closed"}]
    /\ task \in [Clients -> [Tasks -> {"off", "on", "sent", "failed"}]]
    /\ browser \in [Clients -> {"away", "here", "gone"}]
    /\ link \in [Clients -> {"none", "up", "down"}]
    /\ voices \subseteq Clients
    /\ pipe \in [Clients -> BOOLEAN]

\* The agent of a call hears one browser only: the browser that comes after
\* another is attached to the same bridge, but that bridge never carries its
\* microphone (push_audio, detach_client, attach_client; the session "is not
\* resumed automatically").
OneVoice ==
    \A c, d \in voices : c = d

\* What the caller said before hanging up is heard: when the reader has come to
\* the end of the bridge of a session nobody has stopped, no frame is left in
\* the queue (audio_in drains it after the close, with or without an end mark).
TailHeard ==
    session = "up" /\ micReader = "done" => inq = <<>>

\* When a session has ended, however it ended, the attached handler's speaker
\* and control tasks come to an end: nothing waits on the bridge of a session
\* that is over (terminate_session, close, outbound_audio, control_messages).
EndReleasesTasks ==
    (session = "over") ~>
        \A c \in Clients : task[c]["sender"] # "on" /\ task[c]["control"] = "off"

\* A send that fails ends the session: the handler leaves, its finally clause
\* closes the bridge, and the session's reader comes to the end of it, also when
\* the queue was full at the close and there is no end mark to be found.
FailedSendEnds ==
    (\E c \in Clients : task[c]["sender"] = "failed") ~> (session = "over")

\* "If the browser tab disconnects, the bridge closes" (browser_call_sandbox.md,
\* Disconnect Behavior).  It does not while nothing is said: the receiver leaves,
\* the handler goes on to wait for its other two tasks, and they wait for the
\* bridge.
DisconnectCloses ==
    \A c \in Clients : (phase[c] = "talking" /\ link[c] = "down") ~> ~bridgeOpen

=============================================================================
