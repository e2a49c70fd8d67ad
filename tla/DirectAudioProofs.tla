-------------------------- MODULE DirectAudioProofs --------------------------
(***************************************************************************)
(* Proofs of the safety properties of DirectAudio for every value of its   *)
(* constants.                                                              *)
(***************************************************************************)
EXTENDS DirectAudio, FiniteSetTheorems, TLAPS

-----------------------------------------------------------------------------
(* The inductive invariant                                                 *)

\* The types of the variables that are not Boolean.
Values ==
    /\ voice \in Definitions
    /\ path \in Paths
    /\ caps \in SUBSET {"in", "out"}
    /\ steer \in Seq(Requests) /\ Len(steer) <= MaxSteer + 1
    /\ inq \in 0..InMax
    /\ outq \in Seq(Chunks) /\ Len(outq) <= OutMax
    /\ tts \in SUBSET Tasks
    /\ buf \in -1..MaxEpoch
    /\ loop \in Loops
    /\ drained \in Nat
    /\ asked \in SUBSET Requests
    /\ reply \in {"greeting", "answer", Nothing}
    /\ spoken \in {"unvoiced", "voiced", Nothing}
    /\ epoch \in 0..MaxEpoch
    /\ heard \in SUBSET Greetings
    /\ late \in Nat
    /\ failure \in Failures

\* What a drain function has taken, at its await and at its head.
CountInv ==
    /\ loop = "instr" => drained <= InstrBatch
    /\ loop = "inject" => drained < InstrBatch
    /\ loop = "in" => drained <= InBatch
    /\ loop = "send" => drained < InBatch
    /\ loop = "out" => drained <= OutBatch
    /\ loop = "play" => drained < OutBatch
    /\ loop \in {"check", "sleep"} => drained = 0

\* Wherever speech waits - queue, task or sentence buffer - its text came after
\* the last interruption.
StaleInv ==
    /\ \A i \in 1..Len(outq) : outq[i].epoch = epoch
    /\ \A t \in tts : t.epoch = epoch
    /\ buf \in {NoText, epoch}

\* The chunks sent after the suspension are not the first of their batch.
LateInv ==
    /\ late < OutBatch
    /\ "out" \in caps => late = 0
    /\ "out" \notin caps /\ loop = "play" => late <= drained
    /\ "out" \notin caps /\ loop = "out" /\ drained > 0 => late < drained

\* Until the session falls back or is suspended it speaks by the path it began
\* with, and an answer that is not voiced yet is in the sentence buffer.
VoiceInv ==
    ~fell /\ "out" \in caps =>
        /\ path = voice.primary_path
        /\ spoken = "unvoiced" => Transcribes /\ buf # NoText

\* What resolve_voice_strategy_definition returns for the strategies that are
\* not experimental.
ShapeInv ==
    voice.strategy # "experimental_hybrid" =>
        IF voice.initial_greeting_path \in TtsPaths
        THEN Transcribes /\ ~voice.allow_tts_fallback
        ELSE ~Transcribes

\* The queue may still be played: the capability is there, or a batch is on.
CanPlay == \/ "out" \in caps
           \/ loop = "play"
           \/ loop = "out" /\ drained > 0

Waiting(v) == \/ \E t \in tts : t.voice = v
              \/ \E i \in 1..Len(outq) : outq[i].voice = v

\* Playback is counted before the timeout is looked at.
PlayedInv ==
    /\ heard # {} => played \/ loop = "play"
    /\ loop = "out" /\ drained > 0 => played
    /\ loop = "check" /\ ~played /\ "out" \in caps => outq = <<>>

\* A session that greets by synthesis has only that greeting; one that greets by
\* Gemini has the one of the fallback only if Gemini's was not and will not be
\* heard.
GreetInv ==
    voice.strategy # "experimental_hybrid" =>
      IF voice.initial_greeting_path \in TtsPaths
      THEN /\ heard \subseteq {"initial"}
           /\ ~Waiting("fallback") /\ ~Waiting("native_greeting")
      ELSE /\ "initial" \notin heard /\ ~Waiting("initial")
           /\ \/ ~fell /\ "fallback" \notin heard /\ ~Waiting("fallback")
              \/ fell /\ "fallback" \notin heard /\ ~Waiting("fallback")
                      /\ path # "gemini_native"
              \/ /\ fell /\ path # "gemini_native"
                 /\ "native_greeting" \notin heard
                 /\ CanPlay => ~Waiting("native_greeting")

IInv == /\ TypeOK /\ CountInv /\ StaleInv /\ LateInv /\ VoiceInv /\ ShapeInv
        /\ PlayedInv /\ GreetInv

-----------------------------------------------------------------------------
(* The outbound queue                                                      *)

\* A queue that gained c holds c and what it held.
LEMMA EnqueueElements ==
    ASSUME outq \in Seq(Chunks), Len(outq) <= OutMax, NEW c \in Chunks, Enqueue(c)
    PROVE  /\ outq' \in Seq(Chunks)
           /\ Len(outq') <= OutMax
           /\ \A i \in 1..Len(outq') :
                 outq'[i] = c \/ \E j \in 1..Len(outq) : outq'[i] = outq[j]
<1>1. OutMax \in Nat \ {0}
  BY SizesAssumption
<1>2. CASE Len(outq) < OutMax
  BY <1>1, <1>2 DEF Enqueue
<1>3. CASE ~(Len(outq) < OutMax)
  <2>1. /\ outq # <<>> /\ Tail(outq) \in Seq(Chunks)
        /\ Len(Tail(outq)) = Len(outq) - 1
        /\ \A i \in 1..Len(Tail(outq)) : Tail(outq)[i] = outq[i + 1]
    BY <1>1, <1>3
  <2>2. outq' = Append(Tail(outq), c)
    BY <1>3 DEF Enqueue
  <2> DEFINE u == Tail(outq)
  <2>3. /\ u \in Seq(Chunks)
        /\ Len(u) = Len(outq) - 1
        /\ \A i \in 1..Len(u) : u[i] = outq[i + 1] /\ i + 1 \in 1..Len(outq)
    BY <2>1
  <2> HIDE DEF u
  <2>4. outq' = Append(u, c)
    BY <2>2 DEF u
  <2>5. /\ outq' \in Seq(Chunks) /\ Len(outq') = Len(u) + 1
        /\ \A i \in 1..Len(outq') : (i \in 1..Len(u) /\ outq'[i] = u[i]) \/ outq'[i] = c
    BY <2>3, <2>4
  <2> QED BY <1>1, <2>3, <2>5
<1> QED BY <1>2, <1>3

\* A queue that lost its head holds what it held.
LEMMA TailElements ==
    ASSUME outq \in Seq(Chunks), outq # <<>>
    PROVE  /\ Head(outq) \in Chunks
           /\ Head(outq) = outq[1] /\ 1 \in 1..Len(outq)
           /\ Tail(outq) \in Seq(Chunks)
           /\ Len(Tail(outq)) = Len(outq) - 1
           /\ \A i \in 1..Len(Tail(outq)) :
                 \E j \in 1..Len(outq) : Tail(outq)[i] = outq[j]
<1>1. /\ Len(Tail(outq)) = Len(outq) - 1
      /\ \A i \in 1..Len(Tail(outq)) :
            Tail(outq)[i] = outq[i + 1] /\ i + 1 \in 1..Len(outq)
  OBVIOUS
<1> QED BY <1>1

\* A dispatch adds a task that was not there.
LEMMA DispatchAdds ==
    ASSUME NEW e \in 0..MaxEpoch, tts \in SUBSET Tasks, Dispatch(e)
    PROVE  \E t \in Tasks : /\ t.voice = "answer" /\ t.epoch = e
                            /\ t \notin tts
                            /\ tts' = tts \cup {t}
<1>1. PICK i \in FreeIds :
         tts' = tts \cup {[voice |-> "answer", id |-> i, epoch |-> e]}
  BY DEF Dispatch
<1>2. i \in 1..MaxTts /\ \A t \in tts : t.id # i
  BY DEF FreeIds
<1>3. [voice |-> "answer", id |-> i, epoch |-> e] \in Tasks
  BY <1>2, BoundsAssumption DEF Tasks
<1> QED BY <1>1, <1>2, <1>3

-----------------------------------------------------------------------------
(* Types                                                                   *)

\* Every action keeps the flags.
LEMMA FlagsNext == Flags /\ [Next]_vars => Flags'
<1> SUFFICES ASSUME Flags, [Next]_vars PROVE Flags'
    OBVIOUS
<1> USE DEF voiceVars, turnVars, ttsVars, loopVars, gemini,
        history, vars, Flags
<1>1. CASE Wake
  BY <1>1, Zenon DEF Wake
<1>2. CASE DrainInstruction
  BY <1>2, Zenon DEF DrainInstruction
<1>3. CASE Injected
  BY <1>3, Zenon DEF Injected
<1>4. CASE DrainAudioIn
  BY <1>4, Zenon DEF DrainAudioIn
<1>5. CASE Sent
  BY <1>5, Zenon DEF Sent
<1>6. CASE DrainAudioOut
  BY <1>6, Zenon DEF DrainAudioOut
<1>7. CASE Played
  BY <1>7, Zenon DEF Played
<1>8. CASE InTime
  BY <1>8, Zenon DEF InTime
<1>9. CASE FallBack
  BY <1>9, Zenon DEF FallBack
<1>10. CASE IgnoreTimeout
  BY <1>10, Zenon DEF IgnoreTimeout
<1>11. CASE FailOnTimeout
  BY <1>11, Zenon DEF FailOnTimeout
<1>12. CASE TtsChunk
  BY <1>12, Zenon DEF TtsChunk
<1>13. CASE TtsEnds
  BY <1>13, Zenon DEF TtsEnds
<1>14. CASE TtsFails
  BY <1>14, Zenon DEF TtsFails
<1>15. CASE BridgeAudio
  BY <1>15, Zenon DEF BridgeAudio
<1>16. CASE Steer
  BY <1>16, Zenon DEF Steer
<1>17. CASE suspend_audio
  BY <1>17, Zenon DEF suspend_audio
<1>18. CASE Elapse
  BY <1>18, Zenon DEF Elapse
<1>19. CASE ReplyBegins
  BY <1>19, Zenon DEF ReplyBegins
<1>20. CASE on_text_fragment
  BY <1>20, Zenon DEF on_text_fragment, Answered
<1>21. CASE on_audio
  BY <1>21, Zenon DEF on_audio, Answered
<1>22. CASE on_text
  BY <1>22, Zenon DEF on_text, Answered
<1>23. CASE TurnComplete
  BY <1>23, Zenon DEF TurnComplete
<1>24. CASE on_interrupted
  BY <1>24, Zenon DEF on_interrupted
<1>25. CASE UNCHANGED vars
  BY <1>25, Zenon
<1> QED
  BY <1>1, <1>2, <1>3, <1>4, <1>5, <1>6, <1>7, <1>8, <1>9, <1>10, <1>11,
     <1>12, <1>13, <1>14, <1>15, <1>16, <1>17, <1>18, <1>19, <1>20, <1>21,
     <1>22, <1>23, <1>24, <1>25
     DEF Next, Loop, CheckTimeout, Synthesis, Outside, Model

\* Every action keeps the other types and the counts of the drain functions.
LEMMA ValuesNext ==
    Values /\ CountInv /\ [Next]_vars => Values' /\ CountInv'
<1> SUFFICES ASSUME Values, CountInv, [Next]_vars PROVE Values' /\ CountInv'
    OBVIOUS
<1> USE SizesAssumption, BoundsAssumption
    DEF voiceVars, turnVars, ttsVars, loopVars, gemini,
        history, vars, Values, CountInv, Loops, Awaits
<1>1. CASE Wake
  BY <1>1 DEF Wake, To
<1>2. CASE DrainInstruction
  <2> USE DEF DrainInstruction, To, Await
  <2>1. CASE steer' = steer /\ asked' = asked BY <1>2, <2>1
  <2>2. CASE /\ steer # <<>> /\ drained < InstrBatch
             /\ steer' = Tail(steer) /\ asked' = asked \cup {Head(steer)}
    <3>1. /\ Tail(steer) \in Seq(Requests) /\ Head(steer) \in Requests
          /\ Len(Tail(steer)) = Len(steer) - 1
      BY <2>2
    <3> QED BY <1>2, <2>2, <3>1
  <2> QED BY <1>2, <2>1, <2>2
<1>3. CASE Injected
  BY <1>3 DEF Injected, Back
<1>4. CASE DrainAudioIn
  <2>1. asked' \in SUBSET Requests
    BY <1>4 DEF DrainAudioIn, Requests
  <2>2. inq' \in 0..InMax
    BY <1>4 DEF DrainAudioIn
  <2> QED BY <1>4, <2>1, <2>2 DEF DrainAudioIn, To, Await, Back
<1>5. CASE Sent
  BY <1>5 DEF Sent, Back
<1>6. CASE DrainAudioOut
  <2> USE DEF DrainAudioOut, To, Await
  <2>1. CASE outq' = outq BY <1>6, <2>1
  <2>2. CASE /\ outq # <<>> /\ outq' = Tail(outq) /\ drained < OutBatch
             /\ loop' = "play"
    <3>1. outq' \in Seq(Chunks) /\ Len(outq') = Len(outq) - 1
      BY <2>2, TailElements
    <3>2. heard' \in SUBSET Greetings /\ late' \in Nat
      BY <1>6, <2>2
    <3> QED BY <1>6, <2>2, <3>1, <3>2
  <2> QED BY <1>6, <2>1, <2>2
<1>7. CASE Played
  BY <1>7 DEF Played, Back
<1>8. CASE InTime
  BY <1>8 DEF InTime, To
<1>9. CASE FallBack
  <2>1. Greeting("fallback") \in Tasks
    BY DEF Greeting, Tasks
  <2>2. tts' \in SUBSET Tasks
    BY <1>9, <2>1 DEF FallBack
  <2>3. path' \in Paths
    BY <1>9 DEF FallBack, Paths, TtsPaths
  <2> QED BY <1>9, <2>2, <2>3 DEF FallBack, To
<1>10. CASE IgnoreTimeout
  BY <1>10 DEF IgnoreTimeout, To, TimedOut
<1>11. CASE FailOnTimeout
  BY <1>11 DEF FailOnTimeout, To, Failures
<1>12. CASE TtsChunk
  <2>1. PICK t \in tts : Enqueue([voice |-> t.voice, epoch |-> t.epoch])
    BY <1>12 DEF TtsChunk
  <2>2. [voice |-> t.voice, epoch |-> t.epoch] \in Chunks
    BY DEF Tasks, Chunks, Greetings
  <2>3. outq' \in Seq(Chunks) /\ Len(outq') <= OutMax
    BY <2>1, <2>2, EnqueueElements
  <2> QED BY <1>12, <2>3 DEF TtsChunk
<1>13. CASE TtsEnds
  BY <1>13 DEF TtsEnds, Yielded
<1>14. CASE TtsFails
  BY <1>14 DEF TtsFails, Failures
<1>15. CASE BridgeAudio
  BY <1>15 DEF BridgeAudio, Yielded
<1>16. CASE Steer
  BY <1>16 DEF Steer, Requests
<1>17. CASE suspend_audio
  BY <1>17 DEF suspend_audio, Paths
<1>18. CASE Elapse
  BY <1>18 DEF Elapse, Yielded
<1>19. CASE ReplyBegins
  BY <1>19 DEF ReplyBegins, Yielded
<1>20. CASE on_text_fragment
  <2>1. buf' \in -1..MaxEpoch
    BY <1>20 DEF on_text_fragment, NoText
  <2>2. tts' \in SUBSET Tasks
    <3> DEFINE e == IF buf = NoText THEN epoch ELSE buf
    <3>1. e \in 0..MaxEpoch BY DEF NoText
    <3>2. CASE Dispatch(e)
      <4> HIDE DEF e
      <4> QED BY <3>1, <3>2, DispatchAdds
    <3> QED BY <1>20, <3>2 DEF on_text_fragment
  <2> QED BY <1>20, <2>1, <2>2 DEF on_text_fragment
<1>21. CASE on_audio
  <2> DEFINE v == IF reply = "greeting" THEN "native_greeting" ELSE "answer"
             c == [voice |-> v, epoch |-> epoch]
  <2>1. CASE outq' = outq
    BY <1>21, <2>1 DEF on_audio, Answered
  <2>2. CASE Enqueue(c)
    <3>1. c \in Chunks
      BY DEF Chunks, Greetings
    <3> HIDE DEF c
    <3>2. outq' \in Seq(Chunks) /\ Len(outq') <= OutMax
      BY <2>2, <3>1, EnqueueElements
    <3> QED BY <1>21, <3>2 DEF on_audio, Answered
  <2> QED BY <1>21, <2>1, <2>2 DEF on_audio
<1>22. CASE on_text
  <2>1. tts' \in SUBSET Tasks
    BY <1>22, DispatchAdds DEF on_text
  <2> QED BY <1>22, <2>1 DEF on_text
<1>23. CASE TurnComplete
  <2>1. tts' \in SUBSET Tasks
    <3>1. CASE buf = NoText BY <1>23, <3>1 DEF TurnComplete
    <3>2. CASE buf # NoText
      <4>1. buf \in 0..MaxEpoch BY <3>2 DEF NoText
      <4>2. Dispatch(buf) BY <1>23, <3>2 DEF TurnComplete
      <4> QED BY <4>1, <4>2, DispatchAdds
    <3> QED BY <3>1, <3>2
  <2> QED BY <1>23, <2>1 DEF TurnComplete, NoText
<1>24. CASE on_interrupted
  BY <1>24 DEF on_interrupted, NoText
<1>25. CASE UNCHANGED vars
  BY <1>25
<1> QED
  BY <1>1, <1>2, <1>3, <1>4, <1>5, <1>6, <1>7, <1>8, <1>9, <1>10, <1>11,
     <1>12, <1>13, <1>14, <1>15, <1>16, <1>17, <1>18, <1>19, <1>20, <1>21,
     <1>22, <1>23, <1>24, <1>25
     DEF Next, Loop, CheckTimeout, Synthesis, Outside, Model

-----------------------------------------------------------------------------
(* The parts of the invariant                                              *)

\* No action leaves speech of an earlier epoch behind.
LEMMA StaleNext ==
    Values /\ StaleInv /\ [Next]_vars => StaleInv'
<1> SUFFICES ASSUME Values, StaleInv, [Next]_vars PROVE StaleInv'
    OBVIOUS
<1> USE BoundsAssumption
    DEF voiceVars, turnVars, ttsVars, loopVars, gemini,
        history, vars, Values, StaleInv
<1>1. CASE Wake
  BY <1>1 DEF Wake, To
<1>2. CASE DrainInstruction
  BY <1>2 DEF DrainInstruction, To, Await
<1>3. CASE Injected
  BY <1>3 DEF Injected, Back
<1>4. CASE DrainAudioIn
  BY <1>4 DEF DrainAudioIn, To, Await, Back
<1>5. CASE Sent
  BY <1>5 DEF Sent, Back
<1>6. CASE DrainAudioOut
  <2>1. epoch' = epoch /\ tts' = tts /\ buf' = buf
    BY <1>6 DEF DrainAudioOut
  <2>2. CASE outq' = outq BY <2>1, <2>2
  <2>3. CASE outq # <<>> /\ outq' = Tail(outq)
    BY <2>1, <2>3, TailElements
  <2> QED BY <1>6, <2>2, <2>3 DEF DrainAudioOut
<1>7. CASE Played
  BY <1>7 DEF Played, Back
<1>8. CASE InTime
  BY <1>8 DEF InTime, To
<1>9. CASE FallBack
  BY <1>9 DEF FallBack, Greeting
<1>10. CASE IgnoreTimeout
  BY <1>10 DEF IgnoreTimeout, To, TimedOut
<1>11. CASE FailOnTimeout
  BY <1>11 DEF FailOnTimeout, To, TimedOut
<1>12. CASE TtsChunk
  <2>1. PICK t \in tts : Enqueue([voice |-> t.voice, epoch |-> t.epoch])
    BY <1>12 DEF TtsChunk
  <2> DEFINE c == [voice |-> t.voice, epoch |-> t.epoch]
  <2>2. c \in Chunks /\ c.epoch = epoch
    BY DEF Tasks, Chunks, Greetings
  <2>3. Enqueue(c) BY <2>1
  <2> HIDE DEF c
  <2>4. \A i \in 1..Len(outq') : outq'[i].epoch = epoch
    BY <2>2, <2>3, EnqueueElements
  <2> QED BY <1>12, <2>4 DEF TtsChunk
<1>13. CASE TtsEnds
  BY <1>13 DEF TtsEnds, Yielded
<1>14. CASE TtsFails
  BY <1>14 DEF TtsFails, Yielded
<1>15. CASE BridgeAudio
  BY <1>15 DEF BridgeAudio, Yielded
<1>16. CASE Steer
  BY <1>16 DEF Steer, Yielded
<1>17. CASE suspend_audio
  BY <1>17 DEF suspend_audio, Yielded
<1>18. CASE Elapse
  BY <1>18 DEF Elapse, Yielded
<1>19. CASE ReplyBegins
  BY <1>19 DEF ReplyBegins, Yielded
<1>20. CASE on_text_fragment
  <2>1. epoch' = epoch /\ outq' = outq
    BY <1>20 DEF on_text_fragment
  <2>2. buf' \in {NoText, epoch}
    BY <1>20 DEF on_text_fragment
  <2>3. CASE tts' = tts BY <2>1, <2>2, <2>3
  <2>4. CASE Dispatch(IF buf = NoText THEN epoch ELSE buf)
    <3>1. Dispatch(epoch)
      <4>1. CASE buf = NoText BY <2>4, <4>1
      <4>2. CASE buf # NoText
        <5>1. buf = epoch BY <4>2
        <5> QED BY <2>4, <4>2, <5>1
      <4> QED BY <4>1, <4>2
    <3> QED BY <2>1, <2>2, <3>1, DispatchAdds
  <2> QED BY <1>20, <2>3, <2>4 DEF on_text_fragment
<1>21. CASE on_audio
  <2> DEFINE v == IF reply = "greeting" THEN "native_greeting" ELSE "answer"
             c == [voice |-> v, epoch |-> epoch]
  <2>1. CASE outq' = outq
    BY <1>21, <2>1 DEF on_audio
  <2>2. CASE Enqueue(c)
    <3>1. c \in Chunks /\ c.epoch = epoch
      BY DEF Chunks, Greetings
    <3> HIDE DEF c
    <3>2. \A i \in 1..Len(outq') : outq'[i].epoch = epoch
      BY <2>2, <3>1, EnqueueElements
    <3> QED BY <1>21, <3>2 DEF on_audio
  <2> QED BY <1>21, <2>1, <2>2 DEF on_audio
<1>22. CASE on_text
  <2>1. CASE tts' = tts BY <1>22, <2>1 DEF on_text
  <2>2. CASE Dispatch(epoch) BY <1>22, <2>2, DispatchAdds DEF on_text
  <2> QED BY <1>22, <2>1, <2>2 DEF on_text
<1>23. CASE TurnComplete
  <2>1. CASE tts' = tts BY <1>23, <2>1 DEF TurnComplete
  <2>2. CASE buf # NoText /\ Dispatch(buf)
    <3>1. Dispatch(epoch)
      <4>1. buf = epoch BY <2>2
      <4> QED BY <2>2, <4>1
    <3> QED BY <1>23, <3>1, DispatchAdds DEF TurnComplete
  <2> QED BY <1>23, <2>1, <2>2 DEF TurnComplete
<1>24. CASE on_interrupted
  BY <1>24 DEF on_interrupted
<1>25. CASE UNCHANGED vars
  BY <1>25
<1> QED
  BY <1>1, <1>2, <1>3, <1>4, <1>5, <1>6, <1>7, <1>8, <1>9, <1>10, <1>11,
     <1>12, <1>13, <1>14, <1>15, <1>16, <1>17, <1>18, <1>19, <1>20, <1>21,
     <1>22, <1>23, <1>24, <1>25
     DEF Next, Loop, CheckTimeout, Synthesis, Outside, Model

\* No action starts a batch after the suspension.
LEMMA LateNext ==
    Values /\ CountInv /\ LateInv /\ [Next]_vars => LateInv'
<1> SUFFICES ASSUME Values, CountInv, LateInv, [Next]_vars PROVE LateInv'
    OBVIOUS
<1> USE SizesAssumption
    DEF voiceVars, turnVars, ttsVars, loopVars, gemini,
        history, vars, Values, CountInv, LateInv, Loops, Awaits
<1>1. CASE Wake
  BY <1>1 DEF Wake, To
<1>2. CASE DrainInstruction
  BY <1>2 DEF DrainInstruction, To, Await
<1>3. CASE Injected
  BY <1>3 DEF Injected, Back
<1>4. CASE DrainAudioIn
  BY <1>4 DEF DrainAudioIn, To, Await, Back
<1>5. CASE Sent
  BY <1>5 DEF Sent, Back
<1>6. CASE DrainAudioOut
  BY <1>6 DEF DrainAudioOut, To, Await
<1>7. CASE Played
  BY <1>7 DEF Played, Back
<1>8. CASE InTime
  BY <1>8 DEF InTime, To
<1>9. CASE FallBack
  BY <1>9 DEF FallBack, To, TimedOut, Greeting, can_activate_tts_fallback
<1>10. CASE IgnoreTimeout
  BY <1>10 DEF IgnoreTimeout, To, TimedOut
<1>11. CASE FailOnTimeout
  BY <1>11 DEF FailOnTimeout, To, TimedOut
<1>12. CASE TtsChunk
  BY <1>12 DEF TtsChunk, Enqueue, Yielded
<1>13. CASE TtsEnds
  BY <1>13 DEF TtsEnds, Yielded
<1>14. CASE TtsFails
  BY <1>14 DEF TtsFails, Yielded
<1>15. CASE BridgeAudio
  BY <1>15 DEF BridgeAudio, Yielded
<1>16. CASE Steer
  BY <1>16 DEF Steer, Yielded
<1>17. CASE suspend_audio
  BY <1>17 DEF suspend_audio, Yielded
<1>18. CASE Elapse
  BY <1>18 DEF Elapse, Yielded
<1>19. CASE ReplyBegins
  BY <1>19 DEF ReplyBegins, Yielded
<1>20. CASE on_text_fragment
  BY <1>20 DEF on_text_fragment, Answered, Yielded
<1>21. CASE on_audio
  BY <1>21 DEF on_audio, Answered, Yielded
<1>22. CASE on_text
  BY <1>22 DEF on_text, Answered, Yielded
<1>23. CASE TurnComplete
  BY <1>23 DEF TurnComplete, Yielded
<1>24. CASE on_interrupted
  BY <1>24 DEF on_interrupted, Yielded
<1>25. CASE UNCHANGED vars
  BY <1>25
<1> QED
  BY <1>1, <1>2, <1>3, <1>4, <1>5, <1>6, <1>7, <1>8, <1>9, <1>10, <1>11,
     <1>12, <1>13, <1>14, <1>15, <1>16, <1>17, <1>18, <1>19, <1>20, <1>21,
     <1>22, <1>23, <1>24, <1>25
     DEF Next, Loop, CheckTimeout, Synthesis, Outside, Model

\* The definition of the voice never changes.
LEMMA ShapeNext ==
    ShapeInv /\ [Next]_vars => ShapeInv'
<1> SUFFICES ASSUME ShapeInv, [Next]_vars PROVE ShapeInv'
    OBVIOUS
<1>1. voice' = voice
<2> USE DEF voiceVars, turnVars, ttsVars, loopVars, gemini,
        history, vars
<2>1. CASE Wake
  BY <2>1 DEF Wake, To
<2>2. CASE DrainInstruction
  BY <2>2 DEF DrainInstruction, To, Await
<2>3. CASE Injected
  BY <2>3 DEF Injected, Back
<2>4. CASE DrainAudioIn
  BY <2>4 DEF DrainAudioIn, To, Await, Back
<2>5. CASE Sent
  BY <2>5 DEF Sent, Back
<2>6. CASE DrainAudioOut
  BY <2>6 DEF DrainAudioOut, To, Await
<2>7. CASE Played
  BY <2>7 DEF Played, Back
<2>8. CASE InTime
  BY <2>8 DEF InTime, To
<2>9. CASE FallBack
  BY <2>9 DEF FallBack, To, TimedOut, Greeting, can_activate_tts_fallback
<2>10. CASE IgnoreTimeout
  BY <2>10 DEF IgnoreTimeout, To, TimedOut
<2>11. CASE FailOnTimeout
  BY <2>11 DEF FailOnTimeout, To, TimedOut
<2>12. CASE TtsChunk
  BY <2>12 DEF TtsChunk, Enqueue, Yielded
<2>13. CASE TtsEnds
  BY <2>13 DEF TtsEnds, Yielded
<2>14. CASE TtsFails
  BY <2>14 DEF TtsFails, Yielded
<2>15. CASE BridgeAudio
  BY <2>15 DEF BridgeAudio, Yielded
<2>16. CASE Steer
  BY <2>16 DEF Steer, Yielded
<2>17. CASE suspend_audio
  BY <2>17 DEF suspend_audio, Yielded
<2>18. CASE Elapse
  BY <2>18 DEF Elapse, Yielded
<2>19. CASE ReplyBegins
  BY <2>19 DEF ReplyBegins, Yielded
<2>20. CASE on_text_fragment
  BY <2>20 DEF on_text_fragment, Answered, Yielded
<2>21. CASE on_audio
  BY <2>21 DEF on_audio, Answered, Yielded
<2>22. CASE on_text
  BY <2>22 DEF on_text, Answered, Yielded
<2>23. CASE TurnComplete
  BY <2>23 DEF TurnComplete, Yielded
<2>24. CASE on_interrupted
  BY <2>24 DEF on_interrupted, Yielded
<2>25. CASE UNCHANGED vars
  BY <2>25
<2> QED
  BY <2>1, <2>2, <2>3, <2>4, <2>5, <2>6, <2>7, <2>8, <2>9, <2>10, <2>11,
     <2>12, <2>13, <2>14, <2>15, <2>16, <2>17, <2>18, <2>19, <2>20, <2>21,
     <2>22, <2>23, <2>24, <2>25
     DEF Next, Loop, CheckTimeout, Synthesis, Outside, Model
<1> QED BY <1>1, Zenon DEF ShapeInv, Transcribes

\* An answer is voiced or buffered until the session falls back.
LEMMA VoiceNext ==
    Values /\ VoiceInv /\ [Next]_vars => VoiceInv'
<1> SUFFICES ASSUME Values, VoiceInv, [Next]_vars PROVE VoiceInv'
    OBVIOUS
<1> USE BoundsAssumption
    DEF voiceVars, turnVars, ttsVars, loopVars, gemini,
        history, vars, Values, VoiceInv, Transcribes, Definitions, Paths,
        Nothing, wants_gemini_audio_output
<1>1. CASE Wake
  BY <1>1 DEF Wake, To
<1>2. CASE DrainInstruction
  BY <1>2 DEF DrainInstruction, To, Await
<1>3. CASE Injected
  BY <1>3 DEF Injected, Back
<1>4. CASE DrainAudioIn
  BY <1>4 DEF DrainAudioIn, To, Await, Back
<1>5. CASE Sent
  BY <1>5 DEF Sent, Back
<1>6. CASE DrainAudioOut
  BY <1>6 DEF DrainAudioOut, To, Await
<1>7. CASE Played
  BY <1>7 DEF Played, Back
<1>8. CASE InTime
  BY <1>8 DEF InTime, To
<1>9. CASE FallBack
  BY <1>9 DEF FallBack, To, TimedOut, Greeting, can_activate_tts_fallback
<1>10. CASE IgnoreTimeout
  BY <1>10 DEF IgnoreTimeout, To, TimedOut
<1>11. CASE FailOnTimeout
  BY <1>11 DEF FailOnTimeout, To, TimedOut
<1>12. CASE TtsChunk
  BY <1>12 DEF TtsChunk, Enqueue, Yielded
<1>13. CASE TtsEnds
  BY <1>13 DEF TtsEnds, Yielded
<1>14. CASE TtsFails
  BY <1>14 DEF TtsFails, Yielded
<1>15. CASE BridgeAudio
  BY <1>15 DEF BridgeAudio, Yielded
<1>16. CASE Steer
  BY <1>16 DEF Steer, Yielded
<1>17. CASE suspend_audio
  BY <1>17 DEF suspend_audio, Yielded
<1>18. CASE Elapse
  BY <1>18 DEF Elapse, Yielded
<1>19. CASE ReplyBegins
  BY <1>19 DEF ReplyBegins, Yielded
<1>20. CASE on_text_fragment
  BY <1>20 DEF on_text_fragment, NoText
<1>21. CASE on_audio
  BY <1>21 DEF on_audio, Answered, Yielded
<1>22. CASE on_text
  BY <1>22 DEF on_text, Answered, Yielded
<1>23. CASE TurnComplete
  BY <1>23 DEF TurnComplete
<1>24. CASE on_interrupted
  BY <1>24 DEF on_interrupted, Yielded
<1>25. CASE UNCHANGED vars
  BY <1>25
<1> QED
  BY <1>1, <1>2, <1>3, <1>4, <1>5, <1>6, <1>7, <1>8, <1>9, <1>10, <1>11,
     <1>12, <1>13, <1>14, <1>15, <1>16, <1>17, <1>18, <1>19, <1>20, <1>21,
     <1>22, <1>23, <1>24, <1>25
     DEF Next, Loop, CheckTimeout, Synthesis, Outside, Model

\* Playback is counted before the timeout is looked at.
LEMMA PlayedNext ==
    Values /\ CountInv /\ PlayedInv /\ [Next]_vars => PlayedInv'
<1> SUFFICES ASSUME Values, CountInv, PlayedInv, [Next]_vars PROVE PlayedInv'
    OBVIOUS
<1> USE SizesAssumption
    DEF voiceVars, turnVars, ttsVars, loopVars, gemini,
        history, vars, Values, CountInv, PlayedInv, Loops, Awaits
<1>1. CASE Wake
  BY <1>1 DEF Wake, To
<1>2. CASE DrainInstruction
  BY <1>2 DEF DrainInstruction, To, Await
<1>3. CASE Injected
  BY <1>3 DEF Injected, Back
<1>4. CASE DrainAudioIn
  BY <1>4 DEF DrainAudioIn, To, Await, Back
<1>5. CASE Sent
  BY <1>5 DEF Sent, Back
<1>6. CASE DrainAudioOut
  BY <1>6 DEF DrainAudioOut, To, Await
<1>7. CASE Played
  BY <1>7 DEF Played, Back
<1>8. CASE InTime
  BY <1>8 DEF InTime, To
<1>9. CASE FallBack
  BY <1>9 DEF FallBack, To, TimedOut, Greeting, can_activate_tts_fallback
<1>10. CASE IgnoreTimeout
  BY <1>10 DEF IgnoreTimeout, To, TimedOut
<1>11. CASE FailOnTimeout
  BY <1>11 DEF FailOnTimeout, To, TimedOut
<1>12. CASE TtsChunk
  BY <1>12 DEF TtsChunk, Enqueue, Yielded
<1>13. CASE TtsEnds
  BY <1>13 DEF TtsEnds, Yielded
<1>14. CASE TtsFails
  BY <1>14 DEF TtsFails, Yielded
<1>15. CASE BridgeAudio
  BY <1>15 DEF BridgeAudio, Yielded
<1>16. CASE Steer
  BY <1>16 DEF Steer, Yielded
<1>17. CASE suspend_audio
  BY <1>17 DEF suspend_audio, Yielded
<1>18. CASE Elapse
  BY <1>18 DEF Elapse, Yielded
<1>19. CASE ReplyBegins
  BY <1>19 DEF ReplyBegins, Yielded
<1>20. CASE on_text_fragment
  BY <1>20 DEF on_text_fragment, Answered, Yielded
<1>21. CASE on_audio
  BY <1>21 DEF on_audio, Answered, Yielded
<1>22. CASE on_text
  BY <1>22 DEF on_text, Answered, Yielded
<1>23. CASE TurnComplete
  BY <1>23 DEF TurnComplete, Yielded
<1>24. CASE on_interrupted
  BY <1>24 DEF on_interrupted, Yielded
<1>25. CASE UNCHANGED vars
  BY <1>25
<1> QED
  BY <1>1, <1>2, <1>3, <1>4, <1>5, <1>6, <1>7, <1>8, <1>9, <1>10, <1>11,
     <1>12, <1>13, <1>14, <1>15, <1>16, <1>17, <1>18, <1>19, <1>20, <1>21,
     <1>22, <1>23, <1>24, <1>25
     DEF Next, Loop, CheckTimeout, Synthesis, Outside, Model

\* Only FallBack and Gemini's own voice bring a greeting into the queues.
LEMMA WaitingNext ==
    ASSUME Values, [Next]_vars, NEW g \in Greetings, Waiting(g)'
    PROVE  \/ Waiting(g)
           \/ g = "fallback" /\ FallBack
           \/ g = "native_greeting" /\ on_audio /\ wants_gemini_audio_output
<1> USE DEF voiceVars, turnVars, ttsVars, loopVars, gemini,
        history, vars, Values
<1>1. CASE Wake
  BY <1>1 DEF Wake, Waiting
<1>2. CASE DrainInstruction
  BY <1>2 DEF DrainInstruction, Waiting
<1>3. CASE Injected
  BY <1>3 DEF Injected, Waiting
<1>4. CASE DrainAudioIn
  BY <1>4 DEF DrainAudioIn, Waiting
<1>5. CASE Sent
  BY <1>5 DEF Sent, Waiting
<1>6. CASE DrainAudioOut
  <2>1. tts' = tts
    BY <1>6 DEF DrainAudioOut
  <2>2. CASE outq' = outq BY <2>1, <2>2 DEF Waiting
  <2>3. CASE outq # <<>> /\ outq' = Tail(outq)
    BY <2>1, <2>3, TailElements DEF Waiting
  <2> QED BY <1>6, <2>2, <2>3 DEF DrainAudioOut
<1>7. CASE Played
  BY <1>7 DEF Played, Waiting
<1>8. CASE InTime
  BY <1>8 DEF InTime, Waiting
<1>9. CASE FallBack
  BY <1>9 DEF FallBack, Greeting, Waiting
<1>10. CASE IgnoreTimeout
  BY <1>10 DEF IgnoreTimeout, Waiting
<1>11. CASE FailOnTimeout
  BY <1>11 DEF FailOnTimeout, Waiting
<1>12. CASE TtsChunk
  <2>1. PICK t \in tts : Enqueue([voice |-> t.voice, epoch |-> t.epoch])
    BY <1>12 DEF TtsChunk
  <2> DEFINE c == [voice |-> t.voice, epoch |-> t.epoch]
  <2>2. c \in Chunks /\ c.voice = t.voice
    BY DEF Tasks, Chunks, Greetings
  <2>3. Enqueue(c) BY <2>1
  <2> HIDE DEF c
  <2>4. \A i \in 1..Len(outq') :
           outq'[i].voice = t.voice \/ \E j \in 1..Len(outq) : outq'[i] = outq[j]
    BY <2>2, <2>3, EnqueueElements
  <2> QED BY <1>12, <2>4 DEF TtsChunk, Waiting
<1>13. CASE TtsEnds
  BY <1>13 DEF TtsEnds, Waiting
<1>14. CASE TtsFails
  BY <1>14 DEF TtsFails, Waiting
<1>15. CASE BridgeAudio
  BY <1>15 DEF BridgeAudio, Waiting
<1>16. CASE Steer
  BY <1>16 DEF Steer, Waiting
<1>17. CASE suspend_audio
  BY <1>17 DEF suspend_audio, Waiting
<1>18. CASE Elapse
  BY <1>18 DEF Elapse, Waiting
<1>19. CASE ReplyBegins
  BY <1>19 DEF ReplyBegins, Waiting
<1>20. CASE on_text_fragment
  <2>1. \A t \in tts' : t \in tts \/ t.voice = "answer"
    <3> DEFINE e == IF buf = NoText THEN epoch ELSE buf
    <3>1. e \in 0..MaxEpoch BY DEF NoText
    <3>2. CASE Dispatch(e)
      <4> HIDE DEF e
      <4> QED BY <3>1, <3>2, DispatchAdds
    <3> QED BY <1>20, <3>2 DEF on_text_fragment
  <2>2. outq' = outq
    BY <1>20 DEF on_text_fragment
  <2> QED BY <2>1, <2>2 DEF Waiting, Greetings
<1>21. CASE on_audio
  <2> DEFINE v == IF reply = "greeting" THEN "native_greeting" ELSE "answer"
             c == [voice |-> v, epoch |-> epoch]
  <2>1. CASE outq' = outq
    BY <1>21, <2>1 DEF on_audio, Waiting
  <2>2. CASE Enqueue(c) /\ wants_gemini_audio_output
    <3>1. c \in Chunks /\ c.voice \in {"native_greeting", "answer"}
      BY DEF Chunks, Greetings
    <3> HIDE DEF c
    <3>2. \A i \in 1..Len(outq') : \/ outq'[i].voice \in {"native_greeting", "answer"}
                                   \/ \E j \in 1..Len(outq) : outq'[i] = outq[j]
      BY <2>2, <3>1, EnqueueElements
    <3>3. tts' = tts
      BY <1>21 DEF on_audio
    <3> QED BY <1>21, <2>2, <3>2, <3>3 DEF Waiting, Greetings
  <2> QED BY <1>21, <2>1, <2>2 DEF on_audio
<1>22. CASE on_text
  <2>1. \A t \in tts' : t \in tts \/ t.voice = "answer"
    BY <1>22, DispatchAdds DEF on_text
  <2>2. outq' = outq
    BY <1>22 DEF on_text
  <2> QED BY <2>1, <2>2 DEF Waiting, Greetings
<1>23. CASE TurnComplete
  <2>1. \A t \in tts' : t \in tts \/ t.voice = "answer"
    <3>1. CASE buf = NoText BY <1>23, <3>1 DEF TurnComplete
    <3>2. CASE buf # NoText
      <4>1. buf \in 0..MaxEpoch BY <3>2 DEF NoText
      <4>2. Dispatch(buf) BY <1>23, <3>2 DEF TurnComplete
      <4> QED BY <4>1, <4>2, DispatchAdds
    <3> QED BY <3>1, <3>2
  <2>2. outq' = outq
    BY <1>23 DEF TurnComplete
  <2> QED BY <2>1, <2>2 DEF Waiting, Greetings
<1>24. CASE on_interrupted
  BY <1>24 DEF on_interrupted, Waiting
<1>25. CASE UNCHANGED vars
  BY <1>25 DEF Waiting
<1> QED
  BY <1>1, <1>2, <1>3, <1>4, <1>5, <1>6, <1>7, <1>8, <1>9, <1>10, <1>11,
     <1>12, <1>13, <1>14, <1>15, <1>16, <1>17, <1>18, <1>19, <1>20, <1>21,
     <1>22, <1>23, <1>24, <1>25
     DEF Next, Loop, CheckTimeout, Synthesis, Outside, Model

\* No action lets a second greeting be heard.
LEMMA GreetNext ==
    ASSUME Flags, Values, CountInv, ShapeInv, PlayedInv, GreetInv, [Next]_vars
    PROVE  GreetInv'
<1>1. /\ Waiting("initial")' => Waiting("initial")
      /\ Waiting("fallback")' => Waiting("fallback") \/ FallBack
      /\ Waiting("native_greeting")' =>
            Waiting("native_greeting") \/ (on_audio /\ wants_gemini_audio_output)
  BY WaitingNext DEF Greetings
<1>2. \A g \in Greetings :
         (\E i \in 1..Len(outq) : outq[i].voice = g) => Waiting(g)
  BY DEF Waiting
<1> USE <1>1
    DEF voiceVars, turnVars, ttsVars, loopVars, gemini,
        history, vars, Values, CountInv, ShapeInv, GreetInv, CanPlay,
        Loops, Awaits, Transcribes, wants_gemini_audio_output
<1>3. CASE Wake
  BY <1>3 DEF Wake, To, FallBack, TimedOut, on_audio, Yielded
<1>4. CASE DrainInstruction
  BY <1>4 DEF DrainInstruction, To, Await, FallBack, TimedOut, on_audio, Yielded
<1>5. CASE Injected
  BY <1>5 DEF Injected, Back, FallBack, TimedOut, on_audio, Yielded
<1>6. CASE DrainAudioIn
  BY <1>6 DEF DrainAudioIn, To, Await, Back, FallBack, TimedOut, on_audio, Yielded
<1>7. CASE Sent
  BY <1>7 DEF Sent, Back, FallBack, TimedOut, on_audio, Yielded
<1>8. CASE DrainAudioOut
  <2>1. CASE heard' = heard /\ loop' = "check"
    BY <1>8, <2>1 DEF DrainAudioOut, To, FallBack, TimedOut, on_audio, Yielded
  <2>2. CASE /\ outq # <<>> /\ loop' = "play" /\ CanPlay
             /\ heard' = heard \cup ({Head(outq).voice} \cap Greetings)
    <3>1. \A g \in Greetings : Head(outq).voice = g => Waiting(g)
      BY <2>2, <1>2, TailElements
    <3>2. voice' = voice /\ fell' = fell /\ path' = path /\ ~FallBack /\ ~on_audio
      BY <1>8 DEF DrainAudioOut, FallBack, TimedOut, on_audio, Yielded
    <3>3. \A g \in Greetings : g \in heard' => g \in heard \/ Waiting(g)
      BY <2>2, <3>1
    <3>4. "fallback" \in heard' /\ "native_greeting" \in heard' =>
             \/ "fallback" \in heard /\ "native_greeting" \in heard
             \/ "fallback" \in heard /\ Waiting("native_greeting")
             \/ Waiting("fallback") /\ "native_greeting" \in heard
      BY <2>2, <3>1 DEF Greetings
    <3>5. heard' \subseteq Greetings
      BY <2>2
    <3> QED BY <2>2, <3>2, <3>3, <3>4, <3>5 DEF Greetings
  <2> QED BY <1>8, <2>1, <2>2 DEF DrainAudioOut, To, Await
<1>9. CASE Played
  BY <1>9 DEF Played, Back, FallBack, TimedOut, on_audio, Yielded
<1>10. CASE InTime
  BY <1>10 DEF InTime, To, FallBack, TimedOut, on_audio, Yielded
<1>11. CASE FallBack
  <2>1. /\ loop = "check" /\ voice.allow_tts_fallback
        /\ loop' = "sleep" /\ fell' = TRUE /\ path' = "tts_fallback"
        /\ voice' = voice /\ heard' = heard /\ caps' = caps /\ outq' = outq
        /\ ~on_audio
    BY <1>11 DEF FallBack, TimedOut, To, can_activate_tts_fallback, on_audio,
      Yielded
  <2>2. CASE played
    <3>1. tts' = tts
      BY <1>11, <2>2 DEF FallBack
    <3>2. Waiting("fallback")' <=> Waiting("fallback")
      BY <2>1, <3>1 DEF Waiting
    <3> QED BY <2>1, <3>2
  <2>3. CASE ~played
    <3>1. heard = {}
      BY <2>1, <2>3 DEF PlayedInv
    <3>2. "out" \in caps => outq = <<>>
      BY <2>1, <2>3 DEF PlayedInv
    <3>3. \A t \in tts' : t.voice # "native_greeting"
      BY <1>11 DEF FallBack, Tasks, Greeting
    <3>4. "out" \in caps => ~Waiting("native_greeting")'
      BY <2>1, <3>2, <3>3 DEF Waiting
    <3> QED BY <2>1, <3>1, <3>4
  <2> QED BY <2>2, <2>3
<1>12. CASE IgnoreTimeout
  BY <1>12 DEF IgnoreTimeout, To, TimedOut, FallBack, on_audio, Yielded
<1>13. CASE FailOnTimeout
  BY <1>13 DEF FailOnTimeout, To, TimedOut, FallBack, on_audio, Yielded
<1>14. CASE TtsChunk
  BY <1>14 DEF TtsChunk, Enqueue, Yielded, FallBack, TimedOut, on_audio
<1>15. CASE TtsEnds
  BY <1>15 DEF TtsEnds, Yielded, FallBack, TimedOut, on_audio
<1>16. CASE TtsFails
  BY <1>16 DEF TtsFails, Yielded, FallBack, TimedOut, on_audio
<1>17. CASE BridgeAudio
  BY <1>17 DEF BridgeAudio, Yielded, FallBack, TimedOut, on_audio
<1>18. CASE Steer
  BY <1>18 DEF Steer, Yielded, FallBack, TimedOut, on_audio
<1>19. CASE suspend_audio
  BY <1>19 DEF suspend_audio, Yielded, FallBack, TimedOut, on_audio
<1>20. CASE Elapse
  BY <1>20 DEF Elapse, Yielded, FallBack, TimedOut, on_audio
<1>21. CASE ReplyBegins
  BY <1>21 DEF ReplyBegins, Yielded, FallBack, TimedOut, on_audio
<1>22. CASE on_text_fragment
  BY <1>22 DEF on_text_fragment, Answered, Yielded, FallBack, TimedOut, on_audio
<1>23. CASE on_audio
  BY <1>23 DEF on_audio, Yielded, FallBack, TimedOut
<1>24. CASE on_text
  BY <1>24 DEF on_text, Answered, Yielded, FallBack, TimedOut, on_audio
<1>25. CASE TurnComplete
  BY <1>25 DEF TurnComplete, Yielded, FallBack, TimedOut, on_audio
<1>26. CASE on_interrupted
  BY <1>26 DEF on_interrupted, Yielded, FallBack, TimedOut, on_audio
<1>27. CASE UNCHANGED vars
  BY <1>27 DEF FallBack, TimedOut, To, on_audio, Yielded
<1> QED
  BY <1>3, <1>4, <1>5, <1>6, <1>7, <1>8, <1>9, <1>10, <1>11, <1>12, <1>13,
     <1>14, <1>15, <1>16, <1>17, <1>18, <1>19, <1>20, <1>21, <1>22, <1>23,
     <1>24, <1>25, <1>26, <1>27
     DEF Next, Loop, CheckTimeout, Synthesis, Outside, Model

-----------------------------------------------------------------------------
(* The theorems                                                            *)

\* A batch is not longer than the longest.
LEMMA TypesTogether ==
    /\ TypeOK => Values
    /\ Flags /\ Values /\ CountInv => TypeOK
<1>1. TypeOK => Values
  BY SizesAssumption DEF TypeOK, Values
<1>2. ASSUME Values, CountInv
      PROVE  drained \in 0..(InBatch + OutBatch + InstrBatch)
  BY <1>2, SizesAssumption DEF Values, CountInv, Loops, Awaits
<1> QED BY <1>1, <1>2 DEF TypeOK, Values

\* A session begins with its greeting asked for and nothing said.
LEMMA InitInv == Init => IInv
<1> SUFFICES ASSUME Init PROVE IInv
    OBVIOUS
<1> USE SizesAssumption, BoundsAssumption
<1>1. PICK s \in Settings : voice = resolve_voice_strategy_definition(s)
  BY DEF Init, make_session_voice_state
<1>2. voice \in Definitions /\ ShapeInv
  <2>1. s.strategy \in Strategies /\ s.elevenlabs \in BOOLEAN /\ s.allow \in BOOLEAN
    BY DEF Settings
  <2>2. CASE s.strategy = "gemini_primary"
    BY <1>1, <2>1, <2>2 DEF resolve_voice_strategy_definition, Definition,
       Definitions, Strategies, Paths, TtsPaths, ShapeInv, Transcribes
  <2>3. CASE s.strategy = "tts_primary"
    BY <1>1, <2>1, <2>3 DEF resolve_voice_strategy_definition, Definition,
       Definitions, Strategies, Paths, TtsPaths, ShapeInv, Transcribes
  <2>4. CASE s.strategy = "experimental_hybrid"
    BY <1>1, <2>1, <2>4 DEF resolve_voice_strategy_definition, Definition,
       Definitions, Strategies, Paths, TtsPaths, ShapeInv, Transcribes
  <2> QED BY <2>1, <2>2, <2>3, <2>4 DEF Strategies
<1>3. Flags
  BY DEF Init, make_session_voice_state, Flags
<1>4. tts \subseteq {Greeting("initial")} /\ Greeting("initial") \in Tasks
  BY DEF Init, start_initial_greeting, Greeting, Tasks
<1>5. steer \in Seq(Requests) /\ Len(steer) <= 1
  <2>1. steer = <<"greeting">> \/ steer = <<>>
    BY DEF Init, start_initial_greeting
  <2>2. <<"greeting">> \in Seq(Requests) /\ Len(<<"greeting">>) = 1
    BY DEF Requests
  <2>3. <<>> \in Seq(Requests) /\ Len(<<>>) = 0
    OBVIOUS
  <2>4. CASE steer = <<"greeting">> BY <2>2, <2>4
  <2>5. CASE steer = <<>> BY <2>3, <2>5
  <2> QED BY <2>1, <2>4, <2>5
<1>6. Values
  BY <1>2, <1>4, <1>5 DEF Init, make_session_voice_state, Values, Definitions,
    Paths, NoText, Loops, Awaits,
     Nothing, Failures
<1>7. CountInv /\ StaleInv /\ LateInv /\ PlayedInv
  BY <1>4 DEF Init, CountInv, StaleInv, LateInv, PlayedInv, Greeting
<1>8. VoiceInv
  BY DEF Init, make_session_voice_state, VoiceInv, Nothing
<1>9. GreetInv
  BY <1>4 DEF Init, make_session_voice_state, start_initial_greeting, GreetInv,
    Waiting, Greeting
<1> QED BY <1>2, <1>3, <1>6, <1>7, <1>8, <1>9, TypesTogether DEF IInv

\* The invariant holds in every state of a conversation.
THEOREM Invariance == Spec => []IInv
<1>1. IInv /\ [Next]_vars => IInv'
  <2> SUFFICES ASSUME IInv, [Next]_vars PROVE IInv'
    OBVIOUS
  <2>1. Flags /\ Values
    BY TypesTogether DEF IInv, TypeOK
  <2>2. Flags' /\ Values' /\ CountInv'
    BY <2>1, FlagsNext, ValuesNext DEF IInv
  <2>3. TypeOK'
    <3>1. ASSUME Values', CountInv'
          PROVE  drained' \in 0..(InBatch + OutBatch + InstrBatch)
      BY <3>1, SizesAssumption DEF Values, CountInv, Loops, Awaits
    <3> QED BY <2>2, <3>1 DEF TypeOK, Values
  <2>4. StaleInv' /\ LateInv' /\ ShapeInv' /\ VoiceInv' /\ PlayedInv'
    BY <2>1, StaleNext, LateNext, ShapeNext, VoiceNext, PlayedNext DEF IInv
  <2>5. GreetInv'
    BY <2>1, GreetNext DEF IInv
  <2> QED BY <2>2, <2>3, <2>4, <2>5 DEF IInv
<1> QED BY InitInv, <1>1, PTL DEF Spec

\* The queues stay within their limits and every variable within its type.
THEOREM TypeCorrect == Spec => []TypeOK
<1>1. IInv => TypeOK
  BY DEF IInv
<1> QED BY Invariance, <1>1, PTL

\* on_interrupted leaves nothing behind that can still put cut speech in the
\* outbound queue.
THEOREM NothingStale == Spec => []NoStaleSpeech
<1>1. IInv => NoStaleSpeech
  BY DEF IInv, StaleInv, NoStaleSpeech
<1> QED BY Invariance, <1>1, PTL

\* Outside the experimental strategy the customer hears one greeting at most.
THEOREM GreetedOnce == Spec => []GreetingOnce
<1>1. IInv => GreetingOnce
  <2> SUFFICES ASSUME IInv, voice.strategy # "experimental_hybrid"
               PROVE  Cardinality(heard) <= 1
    BY DEF GreetingOnce
  <2>1. PICK x : heard \subseteq {x}
    <3>1. heard \subseteq Greetings /\ GreetInv
      BY DEF IInv, TypeOK
    <3> QED BY <3>1 DEF GreetInv, Greetings
  <2>2. IsFiniteSet({x}) /\ Cardinality({x}) = 1
    BY FS_Singleton
  <2> QED BY <2>1, <2>2, FS_Subset
<1> QED BY Invariance, <1>1, PTL

\* Fewer chunks than a batch has reach the bridge after the audio is suspended.
THEOREM QuietHandover == Spec => []QuietAfterHandover
<1>1. IInv => QuietAfterHandover
  BY DEF IInv, LateInv, QuietAfterHandover
<1> QED BY Invariance, <1>1, PTL

\* Only turn_complete ends an answer, and it dispatches what is still buffered.
THEOREM AnswersVoiced == Spec => VoicedUnlessFellBack
<1>1. IInv /\ [Next]_vars => (AnswerEnds /\ "out" \in caps /\ ~fell => Voiced)
  <2> SUFFICES ASSUME IInv, [Next]_vars, AnswerEnds, "out" \in caps, ~fell
               PROVE  Voiced
    OBVIOUS
  <2>1. Values /\ VoiceInv
    BY TypesTogether DEF IInv
  <2>2. TurnComplete
    <3> USE DEF AnswerEnds, Nothing, voiceVars, turnVars, ttsVars, loopVars,
      gemini, history, vars
    <3>1. CASE Wake
      BY <3>1 DEF Wake
    <3>2. CASE DrainInstruction
      BY <3>2 DEF DrainInstruction
    <3>3. CASE Injected
      BY <3>3 DEF Injected
    <3>4. CASE DrainAudioIn
      BY <3>4 DEF DrainAudioIn
    <3>5. CASE Sent
      BY <3>5 DEF Sent
    <3>6. CASE DrainAudioOut
      BY <3>6 DEF DrainAudioOut
    <3>7. CASE Played
      BY <3>7 DEF Played
    <3>8. CASE InTime
      BY <3>8 DEF InTime
    <3>9. CASE FallBack
      BY <3>9 DEF FallBack
    <3>10. CASE IgnoreTimeout
      BY <3>10 DEF IgnoreTimeout
    <3>11. CASE FailOnTimeout
      BY <3>11 DEF FailOnTimeout
    <3>12. CASE TtsChunk
      BY <3>12 DEF TtsChunk
    <3>13. CASE TtsEnds
      BY <3>13 DEF TtsEnds
    <3>14. CASE TtsFails
      BY <3>14 DEF TtsFails
    <3>15. CASE BridgeAudio
      BY <3>15 DEF BridgeAudio
    <3>16. CASE Steer
      BY <3>16 DEF Steer
    <3>17. CASE suspend_audio
      BY <3>17 DEF suspend_audio
    <3>18. CASE Elapse
      BY <3>18 DEF Elapse
    <3>19. CASE ReplyBegins
      BY <3>19 DEF ReplyBegins
    <3>20. CASE on_text_fragment
      BY <3>20 DEF on_text_fragment
    <3>21. CASE on_audio
      BY <3>21 DEF on_audio
    <3>22. CASE on_text
      BY <3>22 DEF on_text
    <3>23. CASE TurnComplete
      BY <3>23 DEF TurnComplete
    <3>24. CASE on_interrupted
      BY <3>24, <2>1 DEF on_interrupted, Values
    <3>25. CASE UNCHANGED vars
      BY <3>25
    <3> QED
      BY <3>1, <3>2, <3>3, <3>4, <3>5, <3>6, <3>7, <3>8, <3>9, <3>10, <3>11,
         <3>12, <3>13, <3>14, <3>15, <3>16, <3>17, <3>18, <3>19, <3>20, <3>21,
         <3>22, <3>23, <3>24, <3>25
         DEF Next, Loop, CheckTimeout, Synthesis, Outside, Model
  <2>3. CASE spoken = "voiced"
    BY <2>3 DEF Voiced
  <2>4. CASE spoken # "voiced"
    <3>1. spoken = "unvoiced"
      BY <2>1, <2>2, <2>4 DEF Values, TurnComplete
    <3>2. buf # NoText /\ buf \in 0..MaxEpoch
      BY <2>1, <3>1, BoundsAssumption DEF VoiceInv, Values, NoText
    <3>3. Dispatch(buf)
      BY <2>2, <3>2 DEF TurnComplete
    <3>4. tts' # tts
      BY <2>1, <3>2, <3>3, DispatchAdds DEF Values
    <3> QED BY <3>4 DEF Voiced
  <2> QED BY <2>3, <2>4
<1> QED BY Invariance, <1>1, PTL DEF Spec, VoicedUnlessFellBack

=============================================================================
