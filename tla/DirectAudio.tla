----------------------------- MODULE DirectAudio -----------------------------
(***************************************************************************)
(* The conversation of one Direct session, from the moment Gemini is       *)
(* connected to a failure or a hang-up (DirectSession has the rest): the   *)
(* audio loop, the callbacks of the Gemini client, the speech synthesis    *)
(* tasks, the wait for the model's answer with its timeout and its voice   *)
(* fallback, the interruption by the customer and the suspension of the    *)
(* audio when a manager takes the call over.                               *)
(*                                                                         *)
(* One asyncio loop runs it all.  The audio loop goes on by itself from    *)
(* one await to the next; everybody else acts only while it awaits         *)
(* (Yielded).  Sound is abstracted to what tells chunks apart: whose voice *)
(* it is and how many interruptions came before its text.                  *)
(***************************************************************************)
EXTENDS Integers, Sequences, FiniteSets

CONSTANTS
    InMax,         \* _AUDIO_IN_QUEUE_MAX (200)
    OutMax,        \* _AUDIO_OUT_QUEUE_MAX (200)
    InBatch,       \* _AUDIO_IN_DRAIN_BATCH_MAX (40)
    OutBatch,      \* _AUDIO_OUT_DRAIN_BATCH_MAX (100)
    InstrBatch,    \* the 10 of _drain_instruction_queue
    MaxSteer,      \* bound: instructions queued at one time
    MaxTts,        \* bound: synthesis tasks of answers at one time
    MaxEpoch       \* bound: interruptions

ASSUME SizesAssumption ==
    {InMax, OutMax, InBatch, OutBatch, InstrBatch} \subseteq Nat \ {0}
ASSUME BoundsAssumption ==
    MaxSteer \in Nat /\ MaxTts \in Nat /\ MaxEpoch \in Nat

VARIABLES
    voice,      \* voice_state.definition, settled when the session is made
    path,       \* voice_state.active_path
    fell,       \* voice_state.fallback_activated
    greet,      \* is a greeting enabled and not empty
    reader,     \* was the bridge reader task started
    caps,       \* session.capabilities: "in" and "out"
    awaiting,   \* metrics.awaiting_model_response
    overdue,    \* has the timeout passed since metrics.last_model_request_at
    active,     \* metrics.model_turn_active
    steer,      \* session.instruction_queue
    inq,        \* session.audio_in_queue: number of chunks
    outq,       \* session.audio_out_queue
    tts,        \* session.tts_tasks
    buf,        \* the text tts_buffer holds
    loop,       \* where the audio loop stands
    drained,    \* what the present drain function has taken
    played,     \* metrics.outbound_chunks_played > 0
    asked,      \* Gemini: requests that it has not begun to answer
    reply,      \* Gemini: the answer it is giving
    spoken,     \* what became of that answer so far
    epoch,      \* history: number of interruptions
    heard,      \* history: the greetings that reached the bridge
    late,       \* history: chunks sent to the bridge after the suspension
    failure     \* session.last_failure_stage: the session is being taken apart

voiceVars == <<voice, path, fell, greet, reader, caps>>
turnVars  == <<awaiting, overdue, active>>
ttsVars   == <<tts, buf>>
loopVars  == <<loop, drained>>
gemini    == <<asked, reply, spoken>>
history   == <<epoch, heard, late>>
vars == <<voiceVars, turnVars, steer, inq, outq, ttsVars, loopVars, played,
          gemini, history, failure>>

TtsPaths == {"tts_primary", "tts_fallback"}
Paths == TtsPaths \cup {"gemini_native", "disabled"}

-----------------------------------------------------------------------------
(* voice_strategy: from the settings to the definition of the session       *)

Strategies == {"gemini_primary", "tts_primary", "experimental_hybrid"}

Settings == [strategy : Strategies, native : BOOLEAN, elevenlabs : BOOLEAN,
             cartesia : BOOLEAN, allow : BOOLEAN]

\* inspect_voice_strategy reports no failure
ensure_voice_strategy_valid(s) ==
    \/ s.strategy = "gemini_primary" /\ (s.native \/ (s.elevenlabs /\ s.allow))
    \/ s.strategy = "tts_primary" /\ (s.elevenlabs \/ s.cartesia)
    \/ s.strategy = "experimental_hybrid" /\ s.native /\ s.elevenlabs

Definition(strategy, primary, greeting, fallback) ==
    [strategy |-> strategy, primary_path |-> primary,
     initial_greeting_path |-> greeting, allow_tts_fallback |-> fallback]

Definitions == [strategy : Strategies, primary_path : Paths \ {"disabled"},
                initial_greeting_path : Paths \ {"disabled"},
                allow_tts_fallback : BOOLEAN]

resolve_voice_strategy_definition(s) ==
    CASE s.strategy = "gemini_primary" ->
            IF ~s.native /\ s.elevenlabs /\ s.allow
            THEN Definition(s.strategy, "tts_fallback", "tts_fallback", FALSE)
            ELSE Definition(s.strategy, "gemini_native", "gemini_native",
                            s.elevenlabs /\ s.allow)
      [] s.strategy = "tts_primary" ->
            Definition(s.strategy, "tts_primary", "tts_primary", FALSE)
      [] s.strategy = "experimental_hybrid" ->
            Definition(s.strategy, "gemini_native", "tts_primary", s.elevenlabs)

wants_gemini_audio_output == path = "gemini_native"
wants_tts_output == path \in TtsPaths
can_activate_tts_fallback == voice.allow_tts_fallback /\ path # "tts_fallback"

\* Chosen once, by the path the session begins with: is the client asked for
\* transcriptions, and are they cut into sentences by an IncrementalTTSBuffer?
Transcribes == voice.primary_path \in TtsPaths

-----------------------------------------------------------------------------
(* Types *)

Nothing == "nothing"

\* Whose voice a chunk is: the greeting by synthesis, the greeting after the
\* fallback, the greeting by Gemini; any other answer.
Greetings == {"initial", "fallback", "native_greeting"}
Chunks == [voice : Greetings \cup {"answer"}, epoch : 0..MaxEpoch]

\* Greetings have a task each, answers the tasks 1..MaxTts.
Tasks == [voice : {"initial", "fallback", "answer"}, id : 0..MaxTts,
          epoch : 0..MaxEpoch]

NoText == -1

Awaits == {"inject", "send", "play", "sleep"}
Loops == Awaits \cup {"instr", "in", "out", "check"}

Requests == {"greeting", "other"}

Failures == {"tts", "gemini_response_timeout", Nothing}

Flags ==
    /\ fell \in BOOLEAN
    /\ greet \in BOOLEAN
    /\ reader \in BOOLEAN
    /\ awaiting \in BOOLEAN
    /\ overdue \in BOOLEAN
    /\ active \in BOOLEAN
    /\ played \in BOOLEAN

TypeOK ==
    /\ Flags
    /\ voice \in Definitions
    /\ path \in Paths
    /\ caps \in SUBSET {"in", "out"}
    /\ steer \in Seq(Requests) /\ Len(steer) <= MaxSteer + 1
    /\ inq \in 0..InMax
    /\ outq \in Seq(Chunks) /\ Len(outq) <= OutMax
    /\ tts \in SUBSET Tasks
    /\ buf \in -1..MaxEpoch
    /\ loop \in Loops
    /\ drained \in 0..(InBatch + OutBatch + InstrBatch)
    /\ asked \in SUBSET Requests
    /\ reply \in {"greeting", "answer", Nothing}
    /\ spoken \in {"unvoiced", "voiced", Nothing}
    /\ epoch \in 0..MaxEpoch
    /\ heard \in SUBSET Greetings
    /\ late \in Nat
    /\ failure \in Failures

Yielded == loop \in Awaits /\ failure = Nothing

-----------------------------------------------------------------------------
(* Speech synthesis and the outbound queue *)

\* A full queue loses its oldest chunk.
Enqueue(c) == outq' = Append(IF Len(outq) < OutMax THEN outq ELSE Tail(outq), c)

FreeIds == {i \in 1..MaxTts : \A t \in tts : t.id # i}

Greeting(v) == [voice |-> v, id |-> 0, epoch |-> epoch]

\* _tts_dispatch: a task for the text, made now and run later
Dispatch(e) ==
    \E i \in FreeIds :
        /\ \A j \in FreeIds : i <= j
        /\ tts' = tts \cup {[voice |-> "answer", id |-> i, epoch |-> e]}

\* _synthesize_to_audio_queue: the next chunk, unless it was all silence.
\* It asks neither the capabilities nor the path.
TtsChunk ==
    /\ Yielded
    /\ \E t \in tts : Enqueue([voice |-> t.voice, epoch |-> t.epoch])
    /\ UNCHANGED <<voiceVars, turnVars, steer, inq, ttsVars, loopVars,
                   played, gemini, history, failure>>

TtsEnds ==
    /\ Yielded
    /\ \E t \in tts : tts' = tts \ {t}
    /\ UNCHANGED <<voiceVars, turnVars, steer, inq, outq, buf, loopVars,
                   played, gemini, history, failure>>

\* The provider raised: the whole session fails.
TtsFails ==
    /\ Yielded
    /\ \E t \in tts : tts' = tts \ {t}
    /\ failure' = "tts"
    /\ UNCHANGED <<voiceVars, turnVars, steer, inq, outq, buf, loopVars,
                   played, gemini, history>>

-----------------------------------------------------------------------------
(* Creation: create_session up to _start_initial_greeting *)

\* make_session_voice_state, of settings that pass the validation
make_session_voice_state ==
    /\ \E s \in Settings : /\ ensure_voice_strategy_valid(s)
                           /\ voice = resolve_voice_strategy_definition(s)
    /\ path = voice.primary_path
    /\ fell = FALSE

\* _start_initial_greeting: by a synthesis task or by an instruction to Gemini
start_initial_greeting ==
    LET byTts == voice.initial_greeting_path \in TtsPaths
    IN  /\ steer = IF greet /\ ~byTts THEN <<"greeting">> ELSE <<>>
        /\ tts = IF greet /\ byTts THEN {Greeting("initial")} ELSE {}

Init ==
    /\ make_session_voice_state
    /\ greet \in BOOLEAN
    /\ reader \in BOOLEAN
    /\ caps = IF reader THEN {"in", "out"} ELSE {"out"}
    /\ awaiting = FALSE /\ overdue = FALSE /\ active = FALSE
    /\ epoch = 0
    /\ start_initial_greeting
    /\ inq = 0 /\ outq = <<>>
    /\ buf = NoText
    /\ loop = "sleep" /\ drained = 0
    /\ played = FALSE
    /\ asked = {} /\ reply = Nothing /\ spoken = Nothing
    /\ heard = {} /\ late = 0
    /\ failure = Nothing

-----------------------------------------------------------------------------
(* The audio loop *)

To(stage) == loop' = stage /\ drained' = 0

Await(stage) == loop' = stage /\ UNCHANGED drained

Back(stage) == loop' = stage /\ drained' = drained + 1

\* The head of the loop
Wake ==
    /\ loop = "sleep" /\ failure = Nothing
    /\ To("instr")
    /\ UNCHANGED <<voiceVars, turnVars, steer, inq, outq, ttsVars, played,
                   gemini, history, failure>>

\* _drain_instruction_queue; the request is with Gemini before the await ends
DrainInstruction ==
    /\ loop = "instr"
    /\ IF steer # <<>> /\ drained < InstrBatch
       THEN /\ Await("inject")
            /\ steer' = Tail(steer)
            /\ asked' = asked \cup {Head(steer)}
       ELSE /\ To("in")
            /\ UNCHANGED <<steer, asked>>
    /\ UNCHANGED <<voiceVars, turnVars, inq, outq, ttsVars, played, reply,
                   spoken, history, failure>>

Injected ==
    /\ loop = "inject" /\ failure = Nothing
    /\ Back("instr")
    /\ awaiting' = TRUE
    /\ overdue' = FALSE
    /\ UNCHANGED <<voiceVars, active, steer, inq, outq, ttsVars, played,
                   gemini, history, failure>>

\* _drain_audio_in_queue.  Voice is sent to Gemini; noise is dropped, except in
\* the tail of a voice and not under our own.  What the chunk is and what the
\* clock says are open: it is dropped or it is sent.
DrainAudioIn ==
    /\ loop = "in"
    /\ \/ /\ (drained = 0 /\ "in" \notin caps) \/ inq = 0 \/ drained >= InBatch
          /\ To("out")
          /\ UNCHANGED <<inq, asked>>
       \/ /\ drained > 0 \/ "in" \in caps
          /\ inq > 0 /\ drained < InBatch
          /\ inq' = inq - 1
          /\ \/ Back("in") /\ UNCHANGED asked
             \/ Await("send") /\ asked' = asked \cup {"other"}
    /\ UNCHANGED <<voiceVars, turnVars, steer, outq, ttsVars, played, reply,
                   spoken, history, failure>>

Sent ==
    /\ loop = "send" /\ failure = Nothing
    /\ Back("in")
    /\ awaiting' = (awaiting \/ ~active)
    /\ overdue' = FALSE
    /\ UNCHANGED <<voiceVars, active, steer, inq, outq, ttsVars, played,
                   gemini, history, failure>>

\* Mutant of DrainAudioOut: the capability is not asked.
DrainAudioOutAlways ==
    /\ loop = "out"
    /\ IF outq = <<>> \/ drained >= OutBatch
       THEN To("check") /\ UNCHANGED <<outq, heard, late>>
       ELSE /\ Await("play")
            /\ outq' = Tail(outq)
            /\ heard' = heard \cup ({Head(outq).voice} \cap Greetings)
            /\ late' = IF "out" \in caps THEN late ELSE late + 1
    /\ UNCHANGED <<voiceVars, turnVars, steer, inq, ttsVars, played, gemini,
                   epoch, failure>>

\* _drain_audio_out_queue: the capability is asked once, before the loop.
DrainAudioOut ==
    /\ loop = "out"
    /\ IF (drained = 0 /\ "out" \notin caps) \/ outq = <<>> \/ drained >= OutBatch
       THEN To("check") /\ UNCHANGED <<outq, heard, late>>
       ELSE /\ Await("play")
            /\ outq' = Tail(outq)
            /\ heard' = heard \cup ({Head(outq).voice} \cap Greetings)
            /\ late' = IF "out" \in caps THEN late ELSE late + 1
    /\ UNCHANGED <<voiceVars, turnVars, steer, inq, ttsVars, played, gemini,
                   epoch, failure>>

Played ==
    /\ loop = "play" /\ failure = Nothing
    /\ Back("out")
    /\ played' = TRUE
    /\ UNCHANGED <<voiceVars, turnVars, steer, inq, outq, ttsVars,
                   gemini, history, failure>>

\* _check_model_response_timeout: nothing to do
InTime ==
    /\ loop = "check" /\ ~(awaiting /\ overdue)
    /\ To("sleep")
    /\ UNCHANGED <<voiceVars, turnVars, steer, inq, outq, ttsVars, played,
                   gemini, history, failure>>

TimedOut == loop = "check" /\ awaiting /\ overdue

\* The greeting is repeated by synthesis if the customer heard nothing yet.
FallBack ==
    /\ TimedOut /\ can_activate_tts_fallback
    /\ To("sleep")
    /\ path' = "tts_fallback"
    /\ fell' = TRUE
    /\ awaiting' = FALSE
    /\ tts' = IF greet /\ ~played
              THEN tts \cup {Greeting("fallback")} ELSE tts
    /\ UNCHANGED <<voice, greet, reader, caps, overdue, active, steer, inq, outq,
                   buf, played, gemini, history, failure>>

IgnoreTimeout ==
    /\ TimedOut /\ ~can_activate_tts_fallback /\ wants_tts_output
    /\ To("sleep")
    /\ awaiting' = FALSE
    /\ active' = FALSE
    /\ UNCHANGED <<voiceVars, overdue, steer, inq, outq, ttsVars, played,
                   gemini, history, failure>>

FailOnTimeout ==
    /\ TimedOut /\ ~can_activate_tts_fallback /\ ~wants_tts_output
    /\ To("sleep")
    /\ failure' = "gemini_response_timeout"
    /\ UNCHANGED <<voiceVars, turnVars, steer, inq, outq, ttsVars, played,
                   gemini, history>>

CheckTimeout == InTime \/ FallBack \/ IgnoreTimeout \/ FailOnTimeout

-----------------------------------------------------------------------------
(* The customer, the operator and the transfer *)

\* _enqueue_audio_in: the reader task goes on after a suspension
BridgeAudio ==
    /\ Yielded /\ reader
    /\ inq' = IF inq < InMax THEN inq + 1 ELSE inq
    /\ UNCHANGED <<voiceVars, turnVars, steer, outq, ttsVars,
                   loopVars, played, gemini, history, failure>>

\* inject_instruction, from the API or from the steering subscriber
Steer ==
    /\ Yielded
    /\ Len(steer) < MaxSteer
    /\ steer' = Append(steer, "other")
    /\ UNCHANGED <<voiceVars, turnVars, inq, outq, ttsVars, loopVars,
                   played, gemini, history, failure>>

\* suspend_audio, when a warm transfer is bridged
suspend_audio ==
    /\ Yielded
    /\ caps' = {}
    /\ path' = "disabled"
    /\ inq' = 0
    /\ outq' = <<>>
    /\ UNCHANGED <<voice, fell, greet, reader, turnVars, steer, ttsVars,
                   loopVars, played, gemini, history, failure>>

\* The response timeout passes.
Elapse ==
    /\ Yielded
    /\ awaiting
    /\ overdue' = TRUE
    /\ UNCHANGED <<voiceVars, awaiting, active, steer, inq, outq, ttsVars,
                   loopVars, played, gemini, history, failure>>

-----------------------------------------------------------------------------
(* Gemini, and what the callbacks make of its messages.  A client asked for  *)
(* transcriptions gets an answer as fragments of text (its sound is thrown   *)
(* away); any other client gets sound, perhaps with a text part beside it.   *)

ReplyBegins ==
    /\ Yielded
    /\ reply = Nothing /\ asked # {}
    /\ reply' = IF "greeting" \in asked THEN "greeting" ELSE "answer"
    /\ asked' = {}
    /\ UNCHANGED <<voiceVars, turnVars, steer, inq, outq, ttsVars, loopVars,
                   played, spoken, history, failure>>

\* The first sign of an answer ends the wait.
Answered == awaiting' = FALSE /\ active' = (active \/ awaiting)

\* on_text_fragment: the sentences that are complete are sent to synthesis
\* (IncrementalTTSBuffer.push), the rest waits for more.
on_text_fragment ==
    /\ Yielded /\ reply # Nothing /\ Transcribes
    /\ Answered
    /\ \E sentence, rest \in BOOLEAN :
          /\ sentence \/ rest
          /\ IF sentence
             THEN /\ Dispatch(IF buf = NoText THEN epoch ELSE buf)
                  /\ buf' = IF rest THEN epoch ELSE NoText
                  /\ spoken' = "voiced"
             ELSE /\ buf' = IF buf = NoText THEN epoch ELSE buf
                  /\ spoken' = IF spoken = Nothing THEN "unvoiced" ELSE spoken
                  /\ UNCHANGED tts
    /\ UNCHANGED <<voiceVars, overdue, steer, inq, outq, loopVars, played,
                   asked, reply, history, failure>>

\* on_audio
on_audio ==
    /\ Yielded /\ reply # Nothing /\ ~Transcribes
    /\ IF "out" \in caps /\ wants_gemini_audio_output
       THEN /\ Answered
            /\ LET v == IF reply = "greeting" THEN "native_greeting" ELSE "answer"
               IN  Enqueue([voice |-> v, epoch |-> epoch])
            /\ spoken' = "voiced"
       ELSE /\ spoken' = IF spoken = Nothing THEN "unvoiced" ELSE spoken
            /\ UNCHANGED <<awaiting, active, outq>>
    /\ UNCHANGED <<voiceVars, overdue, steer, inq, ttsVars, loopVars,
                   played, asked, reply, history, failure>>

\* on_text for a text part beside the sound: only after the fallback does it
\* go to synthesis.
on_text ==
    /\ Yielded /\ reply # Nothing /\ ~Transcribes
    /\ Answered
    /\ IF "out" \in caps /\ wants_tts_output
       THEN Dispatch(epoch) /\ spoken' = "voiced"
       ELSE UNCHANGED <<tts, spoken>>
    /\ UNCHANGED <<voiceVars, overdue, steer, inq, outq, buf, loopVars,
                   played, asked, reply, history, failure>>

\* Mutant of TurnComplete: the rest of the text is dropped.
TurnCompleteDropsRest ==
    /\ Yielded /\ reply # Nothing /\ spoken # Nothing
    /\ buf' = NoText
    /\ awaiting' = (awaiting /\ ~Transcribes)
    /\ active' = FALSE
    /\ reply' = Nothing
    /\ spoken' = Nothing
    /\ UNCHANGED <<voiceVars, overdue, steer, inq, outq, tts, loopVars, played,
                   asked, history, failure>>

\* turn_complete: the rest of the text goes to synthesis, then on_text gets the
\* whole transcription, then on_turn_complete.
TurnComplete ==
    /\ Yielded /\ reply # Nothing /\ spoken # Nothing
    /\ IF buf = NoText THEN UNCHANGED tts ELSE Dispatch(buf)
    /\ buf' = NoText
    /\ awaiting' = (awaiting /\ ~Transcribes)
    /\ active' = FALSE
    /\ reply' = Nothing
    /\ spoken' = Nothing
    /\ UNCHANGED <<voiceVars, overdue, steer, inq, outq, loopVars, played,
                   asked, history, failure>>

\* Mutant of on_interrupted: the synthesis tasks are not cancelled.
InterruptedKeepsTasks ==
    /\ Yielded /\ reply # Nothing
    /\ epoch < MaxEpoch
    /\ epoch' = epoch + 1
    /\ active' = FALSE
    /\ buf' = NoText
    /\ outq' = <<>>
    /\ reply' = Nothing
    /\ spoken' = Nothing
    /\ UNCHANGED <<voiceVars, awaiting, overdue, steer, inq, tts, loopVars,
                   played, asked, heard, late, failure>>

\* on_interrupted: the customer spoke while Gemini was answering
on_interrupted ==
    /\ Yielded /\ reply # Nothing
    /\ epoch < MaxEpoch
    /\ epoch' = epoch + 1
    /\ active' = FALSE
    /\ tts' = {}
    /\ buf' = NoText
    /\ outq' = <<>>
    /\ reply' = Nothing
    /\ spoken' = Nothing
    /\ UNCHANGED <<voiceVars, awaiting, overdue, steer, inq, loopVars,
                   played, asked, heard, late, failure>>

-----------------------------------------------------------------------------

Loop == \/ Wake \/ DrainInstruction \/ Injected \/ DrainAudioIn \/ Sent
        \/ DrainAudioOut \/ Played \/ CheckTimeout

Synthesis == TtsChunk \/ TtsEnds \/ TtsFails

Outside == BridgeAudio \/ Steer \/ suspend_audio \/ Elapse

Model == \/ ReplyBegins \/ on_text_fragment \/ on_audio \/ on_text
         \/ TurnComplete \/ on_interrupted

Next == Loop \/ Synthesis \/ Outside \/ Model

\* The event loop runs the audio loop, and what it awaits returns.
Spec == Init /\ [][Next]_vars /\ WF_vars(Loop)

-----------------------------------------------------------------------------
(* Properties *)

\* What waits to be played was said after the last interruption: nothing of
\* an answer the customer cut short comes out of a synthesis task, of the
\* sentence buffer or of the queue behind on_interrupted.
NoStaleSpeech == \A i \in 1..Len(outq) : outq[i].epoch = epoch

\* The customer is greeted by one voice.  The fallback repeats the greeting
\* only when nothing was played, and the outbound queue is drained before the
\* timeout is looked at, so a greeting by Gemini is not repeated, however late
\* it comes.  Only the experimental strategy may greet twice.
GreetingOnce ==
    voice.strategy # "experimental_hybrid" => Cardinality(heard) <= 1

\* The end of an answer: turn_complete, not an interruption.
AnswerEnds == reply # Nothing /\ reply' = Nothing /\ epoch' = epoch

Voiced == spoken = "voiced" \/ tts' # tts

\* An answer that Gemini completes was voiced, by its own sound or by
\* synthesis, unless the customer is with a manager or the session has fallen
\* back from Gemini's voice.
VoicedUnlessFellBack ==
    [][AnswerEnds /\ "out" \in caps /\ ~fell => Voiced]_vars

\* After suspend_audio the audio loop at most finishes the batch it is at.
QuietAfterHandover == late < OutBatch

=============================================================================
