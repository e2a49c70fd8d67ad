---------------------------- MODULE DirectSession ----------------------------
(***************************************************************************)
(* The life of one Direct (Gemini) session inside its worker: the          *)
(* coroutine that creates it, the tasks that serve it, everything that may *)
(* decide that it is over, and terminate_session, which takes it apart     *)
(* (DirectSessionManager).  The store side of the same session is          *)
(* SessionLease.                                                           *)
(*                                                                         *)
(* One asyncio loop runs it all: an action is what one task does between   *)
(* two awaits.  A task that waits may wake in any order with the others,   *)
(* but tasks made with create_task start in the order they were made:      *)
(* `spawned` is that queue.  A stage of terminate_session that finds       *)
(* nothing to wait for is still a step, so the model has a few more        *)
(* interleavings than the code.                                            *)
(***************************************************************************)
EXTENDS Integers, Sequences

CONSTANTS
    MaxSessions,  \* settings.direct_max_sessions
    MaxHeard,     \* bound: utterances of the model that reach on_text
    MaxTts,       \* bound: TTS tasks at one time
    MaxHangups,   \* bound: end_call tool calls of the model
    MaxTalk       \* bound: utterances and end_call tools together

ASSUME MaxSessionsAssumption == MaxSessions \in Nat \ {0}
ASSUME BoundsAssumption ==
    MaxHeard \in Nat /\ MaxTts \in Nat \ {0} /\ MaxHangups \in Nat /\ MaxTalk \in Nat

VARIABLES
    audioIn,    \* capabilities.audio_in, settled when the session is made
    pc,         \* where create_session, and the request around it, stands
    inDict,     \* is the session in _sessions
    status,     \* session.current_status
    stop,       \* session.stop_event
    failure,    \* history: _schedule_failure ran while it was in _sessions
    undone,     \* history: the leg monitor overwrote FAILED
    loop,       \* the audio loop task
    reader,     \* the bridge reader task
    monitor,    \* the leg monitor task
    tts,        \* number of TTS tasks running
    recv,       \* the receive loop of the Gemini client
    spawned,    \* tasks made and not started: terminate_session, on_close
    hangups,    \* end_call tool calls so far
    leg,        \* the customer's telephony leg
    bridge,     \* the audio bridge
    term,       \* the stage terminate_session is at
    final,      \* its resolved_final_status
    heard,      \* utterances that reached on_text
    unsaved,    \* utterances whose transcript task has not ended
    awaited,    \* the utterances flush waits for
    before,     \* history: utterances heard before terminate_session began
    callDb      \* database: committed status of the call's row

creation   == <<pc, audioIn>>
sessionVars == <<inDict, status, stop, failure, undone>>
taskVars   == <<loop, reader, monitor, tts, recv>>
media      == <<leg, bridge>>
transcript == <<heard, unsaved>>
teardown   == <<term, final, awaited, before>>
vars == <<creation, sessionVars, taskVars, spawned, hangups, media,
          transcript, teardown, callDb>>

Terminal == {"completed", "failed", "stopped"}

\* setup: the socket is open and setupComplete is awaited; ready: it came and
\* connect has not returned; committed: the request's transaction committed.
Pcs == {"none", "refused", "dialing", "attaching", "undo", "connecting",
        "setup", "ready", "registering", "created", "committed", "failed"}

\* cancelled: task.cancel() was called and terminate_session waits for it
Loops == {"none", "ready", "running", "cancelled", "done"}

Readers == {"none", "running", "done"}

\* check: at the head of its loop; poll: in get_leg_state
Monitors == {"none", "check", "poll", "done"}

\* over: the far end hung up; ended: we told the provider to hang up (what it
\* raises is logged and changes nothing here)
Legs == {"none", "ringing", "answered", "over", "ended"}

\* ended: its stream is over (hang-up, browser gone); closed: close() ran
Bridges == {"none", "open", "ended", "closed"}

\* close: _on_gemini_close; default, failed: terminate_session without a
\* final_status and with FAILED
Spawnable == {"close", "default", "failed"}

Stages == {"none", "loop", "reader", "monitor", "tts", "flush", "gemini",
           "bridge", "leg", "finalize", "release", "done"}

TypeOK ==
    /\ audioIn \in BOOLEAN
    /\ pc \in Pcs
    /\ inDict \in BOOLEAN
    /\ status \in Terminal \cup {"in_progress"}
    /\ stop \in BOOLEAN
    /\ failure \in BOOLEAN
    /\ undone \in BOOLEAN
    /\ loop \in Loops
    /\ reader \in Readers
    /\ monitor \in Monitors
    /\ tts \in 0..MaxTts
    /\ recv \in Readers
    /\ spawned \in Seq(Spawnable)
    /\ hangups \in 0..MaxHangups
    /\ leg \in Legs
    /\ bridge \in Bridges
    /\ term \in Stages
    /\ final \in Terminal \cup {"none"}
    /\ heard \in 0..MaxHeard
    /\ unsaved \in SUBSET (1..MaxHeard)
    /\ awaited \in SUBSET (1..MaxHeard)
    /\ before \in 0..MaxHeard
    /\ callDb \in Terminal \cup {"none", "in_progress"}

Init ==
    /\ audioIn \in BOOLEAN
    /\ pc = "none"
    /\ inDict = FALSE
    /\ status = "in_progress"
    /\ stop = FALSE
    /\ failure = FALSE
    /\ undone = FALSE
    /\ loop = "none"
    /\ reader = "none"
    /\ monitor = "none"
    /\ tts = 0
    /\ recv = "none"
    /\ spawned = <<>>
    /\ hangups = 0
    /\ leg = "none"
    /\ bridge = "none"
    /\ term = "none"
    /\ final = "none"
    /\ heard = 0
    /\ unsaved = {}
    /\ awaited = {}
    /\ before = 0
    /\ callDb = "none"

-----------------------------------------------------------------------------
(* create_session and the request around it                                *)

\* The limit is compared with the number of other sessions in _sessions at
\* this moment, and the voice strategy is validated; nothing is reserved.
Admit ==
    /\ pc = "none"
    /\ \/ \E others \in 0..MaxSessions :
            pc' = IF others >= MaxSessions THEN "refused" ELSE "dialing"
       \/ pc' = "refused"
    /\ UNCHANGED <<audioIn, sessionVars, taskVars, spawned, hangups, media,
                   transcript, teardown, callDb>>

\* telephony.connect returned a channel, or raised.
Dial ==
    /\ pc = "dialing"
    /\ \/ /\ pc' = "attaching"
          /\ leg' \in {"ringing", "answered"}
       \/ /\ pc' = "failed"
          /\ UNCHANGED leg
    /\ UNCHANGED <<audioIn, sessionVars, taskVars, spawned, hangups, bridge,
                   transcript, teardown, callDb>>

\* attach_audio_bridge returned an open bridge: the session enters _sessions
\* and the Gemini client is made.
Attach ==
    /\ pc = "attaching"
    /\ pc' = "connecting"
    /\ bridge' = "open"
    /\ inDict' = TRUE
    /\ UNCHANGED <<audioIn, status, stop, failure, undone, taskVars, spawned,
                   hangups, leg, transcript, teardown, callDb>>

\* attach_audio_bridge raised, or the bridge is not usable and was closed.
AttachFails ==
    /\ pc = "attaching"
    /\ pc' = "undo"
    /\ bridge' \in {"none", "closed"}
    /\ UNCHANGED <<audioIn, sessionVars, taskVars, spawned, hangups, leg,
                   transcript, teardown, callDb>>

\* telephony.disconnect after a failed attach; what it raises is swallowed.
Undo ==
    /\ pc = "undo"
    /\ pc' = "failed"
    /\ leg' = "ended"
    /\ UNCHANGED <<audioIn, sessionVars, taskVars, spawned, hangups, bridge,
                   transcript, teardown, callDb>>

\* websockets.connect returned, the receive loop runs; or it raised, and
\* create_session with it: nothing takes the session out of _sessions.
OpenSocket ==
    /\ pc = "connecting"
    /\ \/ /\ pc' = "setup"
          /\ recv' = "running"
       \/ /\ pc' = "failed"
          /\ UNCHANGED recv
    /\ UNCHANGED <<audioIn, sessionVars, loop, reader, monitor, tts, spawned,
                   hangups, media, transcript, teardown, callDb>>

\* setupComplete, or an API error message, which sets the same event.
SetupDone ==
    /\ pc = "setup"
    /\ recv = "running"
    /\ pc' = "ready"
    /\ UNCHANGED <<audioIn, sessionVars, taskVars, spawned, hangups, media,
                   transcript, teardown, callDb>>

\* No setupComplete in time: connect cancels the receive loop, whose finally
\* reports the close unless the client was closed already, and raises.
SetupTimesOut ==
    /\ pc = "setup"
    /\ pc' = "failed"
    /\ recv' = "done"
    /\ spawned' = IF recv = "running" THEN Append(spawned, "close")
                                      ELSE spawned
    /\ UNCHANGED <<audioIn, sessionVars, loop, reader, monitor, tts, hangups,
                   media, transcript, teardown, callDb>>

\* Sending the setup message raised, and connect and create_session with it;
\* the receive loop is left to notice for itself.
SetupRefused ==
    /\ pc = "setup"
    /\ pc' = "failed"
    /\ UNCHANGED <<audioIn, sessionVars, taskVars, spawned, hangups, media,
                   transcript, teardown, callDb>>

\* connect returned: the audio loop task is made, and the TTS task of the
\* greeting where one is configured.
StartLoop ==
    /\ pc = "ready"
    /\ pc' = "registering"
    /\ loop' = "ready"
    /\ tts' \in {tts, IF tts < MaxTts THEN tts + 1 ELSE tts}
    /\ UNCHANGED <<audioIn, sessionVars, reader, monitor, recv, spawned,
                   hangups, media, transcript, teardown, callDb>>

\* register_session returned or raised (SessionLease): either way the session
\* goes on.
Registered ==
    /\ pc = "registering"
    /\ pc' = "created"
    /\ UNCHANGED <<audioIn, sessionVars, taskVars, spawned, hangups, media,
                   transcript, teardown, callDb>>

\* create_call stores IN_PROGRESS and the request commits: from here on other
\* transactions see the row.
CommitCall ==
    /\ pc = "created"
    /\ pc' = "committed"
    /\ callDb' = "in_progress"
    /\ UNCHANGED <<audioIn, sessionVars, taskVars, spawned, hangups, media,
                   transcript, teardown>>

-----------------------------------------------------------------------------
(* The ways a session may end                                              *)

\* Mutant: the session is not marked FAILED.
ScheduleFailureUnmarked(queue) ==
    /\ stop' = TRUE
    /\ failure' = (failure \/ inDict)
    /\ spawned' = IF inDict /\ ~stop THEN Append(queue, "failed") ELSE queue
    /\ UNCHANGED status

\* Mutant: the failure is left to the end of the audio loop, which leaves a
\* FAILED session alone.
ScheduleFailureNoTask(queue) ==
    /\ status' = "failed"
    /\ stop' = TRUE
    /\ failure' = (failure \/ inDict)
    /\ spawned' = queue

\* _schedule_failure: the first caller marks the session FAILED, sets the
\* stop event and, while the session is in _sessions, makes the task that
\* terminates it.  A caller that finds FAILED does nothing.  `queue` holds the
\* tasks that are waiting to start.
ScheduleFailure(queue) ==
    IF status = "failed"
    THEN /\ spawned' = queue
         /\ UNCHANGED <<status, stop, failure>>
    ELSE /\ status' = "failed"
         /\ stop' = TRUE
         /\ failure' = (failure \/ inDict)
         /\ spawned' = IF inDict THEN Append(queue, "failed") ELSE queue

\* terminate_session up to its first await, for a session in _sessions.
TermBegin(requested) ==
    LET resolved == IF requested # "default" THEN requested
                    ELSE IF status \in Terminal THEN status ELSE "completed"
    IN /\ inDict' = FALSE
       /\ final' = resolved
       /\ status' = resolved
       /\ stop' = TRUE
       /\ loop' = IF loop \in {"ready", "running"} THEN "cancelled" ELSE loop
       /\ term' = "loop"
       /\ before' = heard

\* A task made earlier starts: terminate_session, which returns at once when
\* the session is gone, or _on_gemini_close.
RunSpawned ==
    /\ spawned # <<>>
    /\ \/ /\ inDict
          /\ \/ Head(spawned) # "close" /\ TermBegin(Head(spawned))
             \/ Head(spawned) = "close" /\ stop /\ TermBegin("default")
          /\ spawned' = Tail(spawned)
          /\ UNCHANGED failure
       \/ /\ inDict
          /\ Head(spawned) = "close"
          /\ ~stop
          /\ ScheduleFailure(Tail(spawned))
          /\ UNCHANGED <<inDict, loop, term, final, before>>
       \/ /\ ~inDict
          /\ spawned' = Tail(spawned)
          /\ UNCHANGED <<inDict, status, stop, failure, loop, term, final,
                         before>>
    /\ UNCHANGED <<creation, undone, reader, monitor, tts, recv, hangups,
                   media, transcript, awaited, callDb>>

\* DirectGeminiEngine.stop_call, for a call whose row is visible.
StopCall ==
    /\ pc = "committed"
    /\ inDict
    /\ TermBegin("stopped")
    /\ UNCHANGED <<creation, failure, undone, reader, monitor, tts, recv,
                   spawned, hangups, media, transcript, awaited, callDb>>

\* The customer answers, or hangs up.
LegMoves ==
    /\ \/ leg = "ringing" /\ leg' \in {"answered", "over"}
       \/ leg = "answered" /\ leg' = "over"
    /\ UNCHANGED <<creation, sessionVars, taskVars, spawned, hangups, bridge,
                   transcript, teardown, callDb>>

\* The stream of the bridge ends: hang-up, or the browser went away.
StreamEnds ==
    /\ bridge = "open"
    /\ bridge' = "ended"
    /\ UNCHANGED <<creation, sessionVars, taskVars, spawned, hangups, leg,
                   transcript, teardown, callDb>>

-----------------------------------------------------------------------------
(* The audio loop                                                          *)

\* Its first step makes the bridge reader and the leg monitor (every adapter
\* names its leg).
LoopStarts ==
    /\ loop = "ready"
    /\ loop' = "running"
    /\ reader' = IF audioIn THEN "running" ELSE reader
    /\ monitor' = "check"
    /\ UNCHANGED <<creation, sessionVars, tts, recv, spawned, hangups, media,
                   transcript, teardown, callDb>>

\* The stop event is set: the loop ends, and makes the task that terminates
\* the session if nobody has taken it and it did not fail.
LoopExits ==
    /\ loop = "running"
    /\ stop
    /\ loop' = "done"
    /\ status' = IF status \in Terminal THEN status ELSE "completed"
    /\ spawned' = IF inDict /\ status # "failed"
                  THEN Append(spawned, "default") ELSE spawned
    /\ UNCHANGED <<creation, inDict, stop, failure, undone, reader, monitor,
                   tts, recv, hangups, media, transcript, teardown, callDb>>

\* Sending to Gemini or to the bridge raised.
LoopFails ==
    /\ loop = "running"
    /\ loop' = "done"
    /\ ScheduleFailure(spawned)
    /\ UNCHANGED <<creation, inDict, undone, reader, monitor, tts, recv,
                   hangups, media, transcript, teardown, callDb>>

\* _check_model_response_timeout found no answer and no other voice path.
ModelTimesOut ==
    /\ loop = "running"
    /\ status # "failed"
    /\ ScheduleFailure(spawned)
    /\ UNCHANGED <<creation, inDict, undone, taskVars, hangups, media,
                   transcript, teardown, callDb>>

-----------------------------------------------------------------------------
(* The bridge reader and the leg monitor                                   *)

\* The stream is over, or a chunk came after the stop event.
ReaderEnds ==
    /\ reader = "running"
    /\ bridge \in {"ended", "closed"} \/ stop
    /\ reader' = "done"
    /\ stop' = TRUE
    /\ spawned' = IF stop THEN spawned ELSE Append(spawned, "default")
    /\ UNCHANGED <<creation, inDict, status, failure, undone, loop, monitor,
                   tts, recv, hangups, media, transcript, teardown, callDb>>

\* The iteration over the bridge raised.
ReaderFails ==
    /\ reader = "running"
    /\ reader' = "done"
    /\ ScheduleFailure(spawned)
    /\ UNCHANGED <<creation, inDict, undone, loop, monitor, tts, recv,
                   hangups, media, transcript, teardown, callDb>>

\* The head of the monitor's loop.
MonitorChecks ==
    /\ monitor = "check"
    /\ monitor' = IF stop THEN "done" ELSE "poll"
    /\ UNCHANGED <<creation, sessionVars, loop, reader, tts, recv, spawned,
                   hangups, media, transcript, teardown, callDb>>

\* get_leg_state returned.  An answered leg makes the session IN_PROGRESS
\* whatever it was; a leg that is gone ends the session, with FAILED.
MonitorObserves ==
    /\ monitor = "poll"
    /\ \/ /\ leg = "ringing"
          /\ monitor' = "check"
          /\ UNCHANGED <<status, stop, undone, spawned>>
       \/ /\ leg = "answered"
          /\ monitor' = "check"
          /\ status' = "in_progress"
          /\ undone' = (undone \/ status = "failed")
          /\ UNCHANGED <<stop, spawned>>
       \/ /\ leg \in {"over", "ended"}
          /\ monitor' = "done"
          /\ stop' = TRUE
          /\ spawned' = IF stop THEN spawned ELSE Append(spawned, "failed")
          /\ UNCHANGED <<status, undone>>
    /\ UNCHANGED <<creation, inDict, failure, loop, reader, tts, recv,
                   hangups, media, transcript, teardown, callDb>>

\* get_leg_state raised: the monitor ends, the session goes on without it.
MonitorFails ==
    /\ monitor = "poll"
    /\ monitor' = "done"
    /\ UNCHANGED <<creation, sessionVars, loop, reader, tts, recv, spawned,
                   hangups, media, transcript, teardown, callDb>>

-----------------------------------------------------------------------------
(* The receive loop of the Gemini client and the TTS tasks                 *)

\* on_text: a task is made that writes the utterance to the transcript.
Utterance ==
    /\ recv = "running"
    /\ heard < MaxHeard
    /\ heard + hangups < MaxTalk
    /\ heard' = heard + 1
    /\ unsaved' = unsaved \cup {heard + 1}
    /\ UNCHANGED <<creation, sessionVars, taskVars, spawned, hangups, media,
                   teardown, callDb>>

\* _save_transcript ended; an error is logged and the row is not retried.
Saved(u) ==
    /\ u \in unsaved
    /\ unsaved' = unsaved \ {u}
    /\ UNCHANGED <<creation, sessionVars, taskVars, spawned, hangups, media,
                   heard, teardown, callDb>>

\* _tts_dispatch: a sentence is complete.
Dispatch ==
    /\ recv = "running"
    /\ tts < MaxTts
    /\ tts' = tts + 1
    /\ UNCHANGED <<creation, sessionVars, loop, reader, monitor, recv,
                   spawned, hangups, media, transcript, teardown, callDb>>

\* on_interrupted cancels the TTS tasks.
Interrupted ==
    /\ recv = "running"
    /\ tts > 0
    /\ tts' = 0
    /\ UNCHANGED <<creation, sessionVars, loop, reader, monitor, recv,
                   spawned, hangups, media, transcript, teardown, callDb>>

\* on_tool_call("end_call"): the model hangs up.
EndCall ==
    /\ recv = "running"
    /\ hangups < MaxHangups
    /\ heard + hangups < MaxTalk
    /\ hangups' = hangups + 1
    /\ spawned' = Append(spawned, "default")
    /\ UNCHANGED <<creation, sessionVars, taskVars, media, transcript,
                   teardown, callDb>>

\* Gemini closed the socket and the client is not closed: on_close.
GeminiCloses ==
    /\ recv = "running"
    /\ recv' = "done"
    /\ spawned' = Append(spawned, "close")
    /\ UNCHANGED <<creation, sessionVars, loop, reader, monitor, tts, hangups,
                   media, transcript, teardown, callDb>>

\* A synthesis ended.
TtsEnds ==
    /\ tts > 0
    /\ tts' = tts - 1
    /\ UNCHANGED <<creation, sessionVars, loop, reader, monitor, recv,
                   spawned, hangups, media, transcript, teardown, callDb>>

\* A synthesis raised.
TtsFails ==
    /\ tts > 0
    /\ tts' = tts - 1
    /\ ScheduleFailure(spawned)
    /\ UNCHANGED <<creation, inDict, undone, loop, reader, monitor, recv,
                   hangups, media, transcript, teardown, callDb>>

-----------------------------------------------------------------------------
(* terminate_session after its first await                                 *)

\* The stage is over and the next one is entered.
Stage(from, to) ==
    /\ term = from
    /\ term' = to

\* The cancelled audio loop has ended; its finally looks at the status once
\* more, unless the task was cancelled before it ever ran.
TermLoop ==
    /\ Stage("loop", "reader")
    /\ \/ /\ loop = "cancelled"
          /\ loop' = "done"
          /\ status' = IF monitor # "none" /\ status \notin Terminal
                       THEN "completed" ELSE status
       \/ /\ loop # "cancelled"
          /\ UNCHANGED <<loop, status>>
    /\ UNCHANGED <<creation, inDict, stop, failure, undone, reader, monitor,
                   tts, recv, spawned, hangups, media, transcript, final,
                   awaited, before, callDb>>

TermReader ==
    /\ Stage("reader", "monitor")
    /\ reader' = IF reader = "running" THEN "done" ELSE reader
    /\ UNCHANGED <<creation, sessionVars, loop, monitor, tts, recv, spawned,
                   hangups, media, transcript, final, awaited, before,
                   callDb>>

TermMonitor ==
    /\ Stage("monitor", "tts")
    /\ monitor' = IF monitor \in {"check", "poll"} THEN "done" ELSE monitor
    /\ UNCHANGED <<creation, sessionVars, loop, reader, tts, recv, spawned,
                   hangups, media, transcript, final, awaited, before,
                   callDb>>

\* Mutant: flush does not wait.
TermTtsNoFlush ==
    /\ Stage("tts", "flush")
    /\ tts' = 0
    /\ awaited' = {}
    /\ UNCHANGED <<creation, sessionVars, loop, reader, monitor, recv,
                   spawned, hangups, media, transcript, final, before,
                   callDb>>

\* The TTS tasks are cancelled and awaited; flush takes the list of the
\* transcript tasks that still run.
TermTts ==
    /\ Stage("tts", "flush")
    /\ tts' = 0
    /\ awaited' = unsaved
    /\ UNCHANGED <<creation, sessionVars, loop, reader, monitor, recv,
                   spawned, hangups, media, transcript, final, before,
                   callDb>>

\* flush ends when they have ended, or after three seconds; wait_for then
\* cancels those that still run.
TermFlush ==
    /\ Stage("flush", "gemini")
    /\ unsaved' = unsaved \ awaited
    /\ awaited' = {}
    /\ UNCHANGED <<creation, sessionVars, taskVars, spawned, hangups, media,
                   heard, final, before, callDb>>

\* Mutant: the client is closed only when its set-up had completed.
TermGeminiIfReady ==
    /\ Stage("gemini", "bridge")
    /\ recv' = IF recv = "running" /\ pc # "setup" THEN "done" ELSE recv
    /\ UNCHANGED <<creation, sessionVars, loop, reader, monitor, tts, spawned,
                   hangups, media, transcript, final, awaited, before,
                   callDb>>

\* GeminiLiveClient.close: the receive loop ends and reports nothing.
TermGemini ==
    /\ Stage("gemini", "bridge")
    /\ recv' = IF recv = "running" THEN "done" ELSE recv
    /\ UNCHANGED <<creation, sessionVars, loop, reader, monitor, tts, spawned,
                   hangups, media, transcript, final, awaited, before,
                   callDb>>

TermBridge ==
    /\ Stage("bridge", "leg")
    /\ bridge' = "closed"
    /\ UNCHANGED <<creation, sessionVars, taskVars, spawned, hangups, leg,
                   transcript, final, awaited, before, callDb>>

\* terminate_leg; what it raises is logged.
TermLeg ==
    /\ Stage("leg", "finalize")
    /\ leg' = "ended"
    /\ UNCHANGED <<creation, sessionVars, taskVars, spawned, hangups, bridge,
                   transcript, final, awaited, before, callDb>>

\* finalize_call: nothing is written for a row that is not visible or that is
\* terminal, and nothing when the database fails, which is logged.
TermFinalize ==
    /\ Stage("finalize", "release")
    /\ callDb' \in {callDb, IF callDb = "in_progress" THEN final ELSE callDb}
    /\ UNCHANGED <<creation, sessionVars, taskVars, spawned, hangups, media,
                   transcript, final, awaited, before>>

\* release_session returned or raised (SessionLease).
TermRelease ==
    /\ Stage("release", "done")
    /\ UNCHANGED <<creation, sessionVars, taskVars, spawned, hangups, media,
                   transcript, final, awaited, before, callDb>>

TermStep ==
    \/ TermLoop \/ TermReader \/ TermMonitor \/ TermTts \/ TermFlush
    \/ TermGemini \/ TermBridge \/ TermLeg \/ TermFinalize \/ TermRelease

-----------------------------------------------------------------------------
CreateStep ==
    \/ Admit \/ Dial \/ Attach \/ AttachFails \/ Undo \/ OpenSocket
    \/ SetupDone \/ SetupTimesOut \/ SetupRefused \/ StartLoop
    \/ Registered \/ CommitCall

TaskStep ==
    \/ LoopStarts \/ LoopExits \/ LoopFails \/ ModelTimesOut
    \/ ReaderEnds \/ ReaderFails
    \/ MonitorChecks \/ MonitorObserves \/ MonitorFails
    \/ TtsEnds \/ TtsFails
    \/ \E u \in 1..MaxHeard : Saved(u)

Outside ==
    \/ LegMoves \/ StreamEnds \/ StopCall
    \/ Utterance \/ Dispatch \/ Interrupted \/ EndCall \/ GeminiCloses

Next == CreateStep \/ RunSpawned \/ TermStep \/ TaskStep \/ Outside

\* The event loop runs every task that can go on, in turn; each wait of the
\* creation and of a synthesis has a timeout.  Nothing makes the customer,
\* the model or the operator act, and nothing makes an error happen.
Fairness ==
    /\ WF_vars(CreateStep)
    /\ WF_vars(RunSpawned)
    /\ WF_vars(TermStep)
    /\ WF_vars(LoopStarts)
    /\ WF_vars(LoopExits)
    /\ WF_vars(ReaderEnds)
    /\ WF_vars(MonitorChecks)
    /\ WF_vars(MonitorObserves)
    /\ WF_vars(TtsEnds)

Spec == Init /\ [][Next]_vars /\ Fairness

-----------------------------------------------------------------------------
(* Properties                                                              *)

\* A session that failed while it was in _sessions is never finalised as
\* COMPLETED, whichever of the terminate_session tasks comes first, unless the
\* leg monitor, back from get_leg_state with an answered leg, had put the
\* session back to IN_PROGRESS after the failure.
FailureKept ==
    final = "completed" => ~failure \/ undone

\* When finalize_call reads the transcript for the summary, nothing that the
\* model said before terminate_session began is still on its way there: each
\* such utterance was written, could not be, or was given up by flush.
SpokenIsSettled ==
    term \in {"finalize", "release", "done"}
        => unsaved \cap (1..before) = {}

\* After terminate_session the connections of the session are gone, whatever
\* create_session went on to do meanwhile: no receive loop, no bridge, no leg
\* that was not hung up.
ConnectionsGone ==
    term = "done" => /\ recv = "done"
                     /\ bridge = "closed"
                     /\ leg = "ended"

\* terminate_session takes a session apart once: a session that was taken out
\* of _sessions does not come back, and its final status does not change.
TakenApartOnce ==
    [][final # "none" => final' = final /\ ~inDict']_vars

\* A session whose stop event is set, whose Gemini socket closed, or whose
\* audio stream ended while its audio loop is there to read it, is taken
\* apart: no order of the observers, each of which leaves the work to another
\* when it finds the stop event or FAILED set, leaves it in _sessions.
SessionEnds ==
    (inDict /\ \/ stop
               \/ recv = "done"
               \/ bridge = "ended" /\ audioIn /\ loop \in {"ready", "running"})
        ~> (term = "done")

=============================================================================
