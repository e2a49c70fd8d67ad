------------------------- MODULE DirectSessionProofs -------------------------
(***************************************************************************)
(* Proofs of the safety properties of DirectSession for every value of its *)
(* constants.                                                              *)
(***************************************************************************)
EXTENDS DirectSession, TLAPS

-----------------------------------------------------------------------------
(* The inductive invariant                                                 *)

\* The types, apart: those of the Boolean variables and those of the others.
Flags ==
    /\ audioIn \in BOOLEAN
    /\ inDict \in BOOLEAN
    /\ stop \in BOOLEAN
    /\ failure \in BOOLEAN
    /\ undone \in BOOLEAN

Values ==
    /\ pc \in Pcs
    /\ status \in Terminal \cup {"in_progress"}
    /\ loop \in Loops
    /\ reader \in Readers
    /\ monitor \in Monitors
    /\ tts \in 0..MaxTts
    /\ recv \in Readers
    /\ spawned \in Seq(Spawnable)
    /\ hangups \in 0..MaxHangups
    /\ leg \in Legs
    /\ bridge \in Bridges
    /\ term \in Stages
    /\ final \in Terminal \cup {"none"}
    /\ heard \in 0..MaxHeard
    /\ unsaved \in SUBSET (1..MaxHeard)
    /\ awaited \in SUBSET (1..MaxHeard)
    /\ before \in 0..MaxHeard
    /\ callDb \in Terminal \cup {"none", "in_progress"}

\* Before the session is made.
Early == {"none", "refused", "dialing", "attaching", "undo"}

\* Before the receive loop of the client is made there is no task, nothing
\* that could end the session, and no termination.
CreateInv ==
    /\ pc \in Early => ~inDict
    /\ pc \in Early \cup {"connecting"} => recv = "none"
    /\ recv = "none" => /\ pc \in Early \cup {"connecting", "failed"}
                        /\ spawned = <<>>
                        /\ tts = 0
                        /\ loop = "none"
                        /\ reader = "none"
                        /\ monitor = "none"
                        /\ term = "none"

\* A session in _sessions is not being terminated.
TermInv ==
    /\ term = "none" <=> final = "none"
    /\ inDict => term = "none"

\* A failure stays readable in the status until the final status is resolved.
FailInv ==
    /\ final = "none" /\ failure /\ ~undone => status = "failed"
    /\ FailureKept

\* The stages after a connection was closed.
GeminiClosed == {"bridge", "leg", "finalize", "release", "done"}
BridgeClosed == {"leg", "finalize", "release", "done"}
LegEnded     == {"finalize", "release", "done"}

ConnInv ==
    /\ term \in GeminiClosed => recv = "done"
    /\ term \in BridgeClosed => bridge = "closed"
    /\ term \in LegEnded => leg = "ended"

SpeechInv ==
    /\ before <= heard
    /\ term = "flush" => unsaved \cap (1..before) \subseteq awaited
    /\ term \in {"gemini"} \cup GeminiClosed => unsaved \cap (1..before) = {}

IInv == TypeOK /\ CreateInv /\ TermInv /\ FailInv /\ ConnInv /\ SpeechInv

-----------------------------------------------------------------------------
\* Every action keeps the flags.
LEMMA FlagsNext ==
    Flags /\ [Next]_vars => Flags'
<1> SUFFICES ASSUME Flags, [Next]_vars PROVE Flags'
    OBVIOUS
<1> USE DEF creation, sessionVars, taskVars, media, transcript, teardown,
        vars, Flags
<1>1. CASE CreateStep
  <2>1. CASE Admit BY <2>1, Zenon DEF Admit
  <2>2. CASE Dial BY <2>2, Zenon DEF Dial
  <2>3. CASE Attach BY <2>3, Zenon DEF Attach
  <2>4. CASE AttachFails BY <2>4, Zenon DEF AttachFails
  <2>5. CASE Undo BY <2>5, Zenon DEF Undo
  <2>6. CASE OpenSocket BY <2>6, Zenon DEF OpenSocket
  <2>7. CASE SetupDone BY <2>7, Zenon DEF SetupDone
  <2>8. CASE SetupTimesOut BY <2>8, Zenon DEF SetupTimesOut
  <2>9. CASE SetupRefused BY <2>9, Zenon DEF SetupRefused
  <2>10. CASE StartLoop BY <2>10, Zenon DEF StartLoop
  <2>11. CASE Registered BY <2>11, Zenon DEF Registered
  <2>12. CASE CommitCall BY <2>12, Zenon DEF CommitCall
  <2> QED BY <1>1, <2>1, <2>2, <2>3, <2>4, <2>5, <2>6, <2>7, <2>8, <2>9,
     <2>10, <2>11, <2>12 DEF CreateStep
<1>2. CASE RunSpawned
  BY <1>2, Zenon DEF RunSpawned, TermBegin, ScheduleFailure
<1>3. CASE TermStep
  <2>1. CASE TermLoop BY <2>1, Zenon DEF TermLoop, Stage
  <2>2. CASE TermReader BY <2>2, Zenon DEF TermReader, Stage
  <2>3. CASE TermMonitor BY <2>3, Zenon DEF TermMonitor, Stage
  <2>4. CASE TermTts BY <2>4, Zenon DEF TermTts, Stage
  <2>5. CASE TermFlush BY <2>5, Zenon DEF TermFlush, Stage
  <2>6. CASE TermGemini BY <2>6, Zenon DEF TermGemini, Stage
  <2>7. CASE TermBridge BY <2>7, Zenon DEF TermBridge, Stage
  <2>8. CASE TermLeg BY <2>8, Zenon DEF TermLeg, Stage
  <2>9. CASE TermFinalize BY <2>9, Zenon DEF TermFinalize, Stage
  <2>10. CASE TermRelease BY <2>10, Zenon DEF TermRelease, Stage
  <2> QED BY <1>3, <2>1, <2>2, <2>3, <2>4, <2>5, <2>6, <2>7, <2>8, <2>9,
     <2>10 DEF TermStep
<1>4. CASE TaskStep
  <2>1. CASE LoopStarts BY <2>1, Zenon DEF LoopStarts
  <2>2. CASE LoopExits BY <2>2, Zenon DEF LoopExits
  <2>3. CASE LoopFails BY <2>3, Zenon DEF LoopFails, ScheduleFailure
  <2>4. CASE ModelTimesOut BY <2>4, Zenon DEF ModelTimesOut, ScheduleFailure
  <2>5. CASE ReaderEnds BY <2>5, Zenon DEF ReaderEnds
  <2>6. CASE ReaderFails BY <2>6, Zenon DEF ReaderFails, ScheduleFailure
  <2>7. CASE MonitorChecks BY <2>7, Zenon DEF MonitorChecks
  <2>8. CASE MonitorObserves BY <2>8, Zenon DEF MonitorObserves
  <2>9. CASE MonitorFails BY <2>9, Zenon DEF MonitorFails
  <2>10. CASE TtsEnds BY <2>10, Zenon DEF TtsEnds
  <2>11. CASE TtsFails BY <2>11, Zenon DEF TtsFails, ScheduleFailure
  <2>12. CASE \E u \in 1..MaxHeard : Saved(u) BY <2>12, Zenon DEF Saved
  <2> QED BY <1>4, <2>1, <2>2, <2>3, <2>4, <2>5, <2>6, <2>7, <2>8, <2>9,
     <2>10, <2>11, <2>12 DEF TaskStep
<1>5. CASE Outside
  <2>1. CASE LegMoves BY <2>1, Zenon DEF LegMoves
  <2>2. CASE StreamEnds BY <2>2, Zenon DEF StreamEnds
  <2>3. CASE StopCall BY <2>3, Zenon DEF StopCall, TermBegin
  <2>4. CASE Utterance BY <2>4, Zenon DEF Utterance
  <2>5. CASE Dispatch BY <2>5, Zenon DEF Dispatch
  <2>6. CASE Interrupted BY <2>6, Zenon DEF Interrupted
  <2>7. CASE EndCall BY <2>7, Zenon DEF EndCall
  <2>8. CASE GeminiCloses BY <2>8, Zenon DEF GeminiCloses
  <2> QED BY <1>5, <2>1, <2>2, <2>3, <2>4, <2>5, <2>6, <2>7, <2>8 DEF Outside
<1>6. CASE UNCHANGED vars
  BY <1>6, Zenon
<1> QED BY <1>1, <1>2, <1>3, <1>4, <1>5, <1>6 DEF Next

\* Every action keeps the types of the other variables.
LEMMA ValuesNext ==
    Values /\ [Next]_vars => Values'
<1> SUFFICES ASSUME Values, [Next]_vars PROVE Values'
    OBVIOUS
<1> USE BoundsAssumption DEF creation, sessionVars, taskVars, media,
        transcript, teardown, vars, Values, Pcs, Terminal, Loops, Readers,
        Monitors, Legs, Bridges, Spawnable, Stages
<1>1. CASE CreateStep
  <2>1. CASE Admit BY <2>1 DEF Admit
  <2>2. CASE Dial BY <2>2 DEF Dial
  <2>3. CASE Attach BY <2>3 DEF Attach
  <2>4. CASE AttachFails BY <2>4 DEF AttachFails
  <2>5. CASE Undo BY <2>5 DEF Undo
  <2>6. CASE OpenSocket BY <2>6 DEF OpenSocket
  <2>7. CASE SetupDone BY <2>7 DEF SetupDone
  <2>8. CASE SetupTimesOut BY <2>8 DEF SetupTimesOut
  <2>9. CASE SetupRefused BY <2>9 DEF SetupRefused
  <2>10. CASE StartLoop BY <2>10 DEF StartLoop
  <2>11. CASE Registered BY <2>11 DEF Registered
  <2>12. CASE CommitCall BY <2>12 DEF CommitCall
  <2> QED BY <1>1, <2>1, <2>2, <2>3, <2>4, <2>5, <2>6, <2>7, <2>8, <2>9,
     <2>10, <2>11, <2>12 DEF CreateStep
<1>2. CASE RunSpawned
  <2>1. /\ Tail(spawned) \in Seq(Spawnable)
        /\ Head(spawned) \in Spawnable
    BY <1>2 DEF RunSpawned
  <2>2. ASSUME ScheduleFailure(Tail(spawned))
        PROVE  spawned' \in Seq(Spawnable) /\ status' \in Terminal \cup {"in_progress"}
    BY <2>1, <2>2 DEF ScheduleFailure
  <2>3. ASSUME NEW r \in Spawnable \ {"close"}, TermBegin(r)
        PROVE  /\ status' \in Terminal \cup {"in_progress"}
               /\ final' \in Terminal \cup {"none"}
               /\ loop' \in Loops /\ term' \in Stages /\ before' \in 0..MaxHeard
    BY <2>3 DEF TermBegin
  <2>4. ASSUME \E r \in Spawnable \ {"close"} : TermBegin(r), spawned' = Tail(spawned)
        PROVE  Values'
    BY <1>2, <2>1, <2>3, <2>4 DEF RunSpawned
  <2>5. ASSUME ScheduleFailure(Tail(spawned)),
               UNCHANGED <<inDict, loop, term, final, before>>
        PROVE  Values'
    BY <1>2, <2>2, <2>5 DEF RunSpawned
  <2>6. ASSUME spawned' = Tail(spawned),
               UNCHANGED <<inDict, status, stop, failure, loop, term, final, before>>
        PROVE  Values'
    BY <1>2, <2>1, <2>6 DEF RunSpawned
  <2>7. Head(spawned) # "close" => Head(spawned) \in Spawnable \ {"close"}
    BY <2>1
  <2> HIDE DEF Values
  <2> QED BY <1>2, <2>4, <2>5, <2>6, <2>7, "default" \in Spawnable \ {"close"}, Zenon
          DEF RunSpawned
<1>3. CASE TermStep
  <2>1. CASE TermLoop BY <2>1 DEF TermLoop, Stage
  <2>2. CASE TermReader BY <2>2 DEF TermReader, Stage
  <2>3. CASE TermMonitor BY <2>3 DEF TermMonitor, Stage
  <2>4. CASE TermTts BY <2>4 DEF TermTts, Stage
  <2>5. CASE TermFlush BY <2>5 DEF TermFlush, Stage
  <2>6. CASE TermGemini BY <2>6 DEF TermGemini, Stage
  <2>7. CASE TermBridge BY <2>7 DEF TermBridge, Stage
  <2>8. CASE TermLeg BY <2>8 DEF TermLeg, Stage
  <2>9. CASE TermFinalize BY <2>9 DEF TermFinalize, Stage
  <2>10. CASE TermRelease BY <2>10 DEF TermRelease, Stage
  <2> QED BY <1>3, <2>1, <2>2, <2>3, <2>4, <2>5, <2>6, <2>7, <2>8, <2>9,
     <2>10 DEF TermStep
<1>4. CASE TaskStep
  <2>1. CASE LoopStarts BY <2>1 DEF LoopStarts
  <2>2. CASE LoopExits BY <2>2 DEF LoopExits
  <2>3. CASE LoopFails BY <2>3 DEF LoopFails, ScheduleFailure
  <2>4. CASE ModelTimesOut BY <2>4 DEF ModelTimesOut, ScheduleFailure
  <2>5. CASE ReaderEnds BY <2>5 DEF ReaderEnds
  <2>6. CASE ReaderFails BY <2>6 DEF ReaderFails, ScheduleFailure
  <2>7. CASE MonitorChecks BY <2>7 DEF MonitorChecks
  <2>8. CASE MonitorObserves BY <2>8 DEF MonitorObserves
  <2>9. CASE MonitorFails BY <2>9 DEF MonitorFails
  <2>10. CASE TtsEnds BY <2>10 DEF TtsEnds
  <2>11. CASE TtsFails BY <2>11 DEF TtsFails, ScheduleFailure
  <2>12. CASE \E u \in 1..MaxHeard : Saved(u) BY <2>12 DEF Saved
  <2> QED BY <1>4, <2>1, <2>2, <2>3, <2>4, <2>5, <2>6, <2>7, <2>8, <2>9,
     <2>10, <2>11, <2>12 DEF TaskStep
<1>5. CASE Outside
  <2>1. CASE LegMoves BY <2>1 DEF LegMoves
  <2>2. CASE StreamEnds BY <2>2 DEF StreamEnds
  <2>3. CASE StopCall BY <2>3 DEF StopCall, TermBegin
  <2>4. CASE Utterance BY <2>4 DEF Utterance
  <2>5. CASE Dispatch BY <2>5 DEF Dispatch
  <2>6. CASE Interrupted BY <2>6 DEF Interrupted
  <2>7. CASE EndCall BY <2>7 DEF EndCall
  <2>8. CASE GeminiCloses BY <2>8 DEF GeminiCloses
  <2> QED BY <1>5, <2>1, <2>2, <2>3, <2>4, <2>5, <2>6, <2>7, <2>8 DEF Outside
<1>6. CASE UNCHANGED vars
  BY <1>6
<1> QED BY <1>1, <1>2, <1>3, <1>4, <1>5, <1>6 DEF Next

\* The two together are the type invariant.
LEMMA TypeNext == TypeOK /\ [Next]_vars => TypeOK'
<1>1. TypeOK <=> Flags /\ Values BY DEF TypeOK, Flags, Values
<1>2. TypeOK' <=> Flags' /\ Values' BY DEF TypeOK, Flags, Values
<1> QED BY <1>1, <1>2, FlagsNext, ValuesNext

\* Tasks, and with them terminations, come from the receive loop or later.
LEMMA CreateNext ==
    TypeOK /\ CreateInv /\ TermInv /\ [Next]_vars => CreateInv'
<1> SUFFICES ASSUME TypeOK, CreateInv, TermInv, [Next]_vars PROVE CreateInv'
    OBVIOUS
<1> USE BoundsAssumption DEF creation, sessionVars, taskVars, media,
        transcript, teardown, vars, TypeOK, CreateInv, TermInv, Early, Pcs,
        Terminal, Loops, Readers, Monitors, Legs, Bridges, Spawnable, Stages
<1>1. CASE CreateStep
  <2>1. CASE Admit BY <2>1 DEF Admit
  <2>2. CASE Dial BY <2>2 DEF Dial
  <2>3. CASE Attach BY <2>3 DEF Attach
  <2>4. CASE AttachFails BY <2>4 DEF AttachFails
  <2>5. CASE Undo BY <2>5 DEF Undo
  <2>6. CASE OpenSocket BY <2>6 DEF OpenSocket
  <2>7. CASE SetupDone BY <2>7 DEF SetupDone
  <2>8. CASE SetupTimesOut BY <2>8 DEF SetupTimesOut
  <2>9. CASE SetupRefused BY <2>9 DEF SetupRefused
  <2>10. CASE StartLoop BY <2>10 DEF StartLoop
  <2>11. CASE Registered BY <2>11 DEF Registered
  <2>12. CASE CommitCall BY <2>12 DEF CommitCall
  <2> QED BY <1>1, <2>1, <2>2, <2>3, <2>4, <2>5, <2>6, <2>7, <2>8, <2>9,
     <2>10, <2>11, <2>12 DEF CreateStep
<1>2. CASE RunSpawned
  BY <1>2 DEF RunSpawned, TermBegin, ScheduleFailure
<1>3. CASE TermStep
  <2>1. CASE TermLoop BY <2>1 DEF TermLoop, Stage
  <2>2. CASE TermReader BY <2>2 DEF TermReader, Stage
  <2>3. CASE TermMonitor BY <2>3 DEF TermMonitor, Stage
  <2>4. CASE TermTts BY <2>4 DEF TermTts, Stage
  <2>5. CASE TermFlush BY <2>5 DEF TermFlush, Stage
  <2>6. CASE TermGemini BY <2>6 DEF TermGemini, Stage
  <2>7. CASE TermBridge BY <2>7 DEF TermBridge, Stage
  <2>8. CASE TermLeg BY <2>8 DEF TermLeg, Stage
  <2>9. CASE TermFinalize BY <2>9 DEF TermFinalize, Stage
  <2>10. CASE TermRelease BY <2>10 DEF TermRelease, Stage
  <2> QED BY <1>3, <2>1, <2>2, <2>3, <2>4, <2>5, <2>6, <2>7, <2>8, <2>9,
     <2>10 DEF TermStep
<1>4. CASE TaskStep
  <2>1. CASE LoopStarts BY <2>1 DEF LoopStarts
  <2>2. CASE LoopExits BY <2>2 DEF LoopExits
  <2>3. CASE LoopFails BY <2>3 DEF LoopFails, ScheduleFailure
  <2>4. CASE ModelTimesOut BY <2>4 DEF ModelTimesOut, ScheduleFailure
  <2>5. CASE ReaderEnds BY <2>5 DEF ReaderEnds
  <2>6. CASE ReaderFails BY <2>6 DEF ReaderFails, ScheduleFailure
  <2>7. CASE MonitorChecks BY <2>7 DEF MonitorChecks
  <2>8. CASE MonitorObserves BY <2>8 DEF MonitorObserves
  <2>9. CASE MonitorFails BY <2>9 DEF MonitorFails
  <2>10. CASE TtsEnds BY <2>10 DEF TtsEnds
  <2>11. CASE TtsFails BY <2>11 DEF TtsFails, ScheduleFailure
  <2>12. CASE \E u \in 1..MaxHeard : Saved(u) BY <2>12 DEF Saved
  <2> QED BY <1>4, <2>1, <2>2, <2>3, <2>4, <2>5, <2>6, <2>7, <2>8, <2>9,
     <2>10, <2>11, <2>12 DEF TaskStep
<1>5. CASE Outside
  <2>1. CASE LegMoves BY <2>1 DEF LegMoves
  <2>2. CASE StreamEnds BY <2>2 DEF StreamEnds
  <2>3. CASE StopCall BY <2>3 DEF StopCall, TermBegin
  <2>4. CASE Utterance BY <2>4 DEF Utterance
  <2>5. CASE Dispatch BY <2>5 DEF Dispatch
  <2>6. CASE Interrupted BY <2>6 DEF Interrupted
  <2>7. CASE EndCall BY <2>7 DEF EndCall
  <2>8. CASE GeminiCloses BY <2>8 DEF GeminiCloses
  <2> QED BY <1>5, <2>1, <2>2, <2>3, <2>4, <2>5, <2>6, <2>7, <2>8 DEF Outside
<1>6. CASE UNCHANGED vars
  BY <1>6
<1> QED BY <1>1, <1>2, <1>3, <1>4, <1>5, <1>6 DEF Next

\* Only a session in _sessions is terminated, and it leaves it for good.
LEMMA TermNext ==
    TypeOK /\ CreateInv /\ TermInv /\ [Next]_vars => TermInv'
<1> SUFFICES ASSUME TypeOK, CreateInv, TermInv, [Next]_vars PROVE TermInv'
    OBVIOUS
<1> USE BoundsAssumption DEF creation, sessionVars, taskVars, media,
        transcript, teardown, vars, TypeOK, CreateInv, TermInv, Early, Pcs,
        Terminal, Loops, Readers, Monitors, Legs, Bridges, Spawnable, Stages
<1>1. CASE CreateStep
  <2>1. CASE Admit BY <2>1 DEF Admit
  <2>2. CASE Dial BY <2>2 DEF Dial
  <2>3. CASE Attach BY <2>3 DEF Attach
  <2>4. CASE AttachFails BY <2>4 DEF AttachFails
  <2>5. CASE Undo BY <2>5 DEF Undo
  <2>6. CASE OpenSocket BY <2>6 DEF OpenSocket
  <2>7. CASE SetupDone BY <2>7 DEF SetupDone
  <2>8. CASE SetupTimesOut BY <2>8 DEF SetupTimesOut
  <2>9. CASE SetupRefused BY <2>9 DEF SetupRefused
  <2>10. CASE StartLoop BY <2>10 DEF StartLoop
  <2>11. CASE Registered BY <2>11 DEF Registered
  <2>12. CASE CommitCall BY <2>12 DEF CommitCall
  <2> QED BY <1>1, <2>1, <2>2, <2>3, <2>4, <2>5, <2>6, <2>7, <2>8, <2>9,
     <2>10, <2>11, <2>12 DEF CreateStep
<1>2. CASE RunSpawned
  BY <1>2 DEF RunSpawned, TermBegin, ScheduleFailure
<1>3. CASE TermStep
  <2>1. CASE TermLoop BY <2>1 DEF TermLoop, Stage
  <2>2. CASE TermReader BY <2>2 DEF TermReader, Stage
  <2>3. CASE TermMonitor BY <2>3 DEF TermMonitor, Stage
  <2>4. CASE TermTts BY <2>4 DEF TermTts, Stage
  <2>5. CASE TermFlush BY <2>5 DEF TermFlush, Stage
  <2>6. CASE TermGemini BY <2>6 DEF TermGemini, Stage
  <2>7. CASE TermBridge BY <2>7 DEF TermBridge, Stage
  <2>8. CASE TermLeg BY <2>8 DEF TermLeg, Stage
  <2>9. CASE TermFinalize BY <2>9 DEF TermFinalize, Stage
  <2>10. CASE TermRelease BY <2>10 DEF TermRelease, Stage
  <2> QED BY <1>3, <2>1, <2>2, <2>3, <2>4, <2>5, <2>6, <2>7, <2>8, <2>9,
     <2>10 DEF TermStep
<1>4. CASE TaskStep
  <2>1. CASE LoopStarts BY <2>1 DEF LoopStarts
  <2>2. CASE LoopExits BY <2>2 DEF LoopExits
  <2>3. CASE LoopFails BY <2>3 DEF LoopFails, ScheduleFailure
  <2>4. CASE ModelTimesOut BY <2>4 DEF ModelTimesOut, ScheduleFailure
  <2>5. CASE ReaderEnds BY <2>5 DEF ReaderEnds
  <2>6. CASE ReaderFails BY <2>6 DEF ReaderFails, ScheduleFailure
  <2>7. CASE MonitorChecks BY <2>7 DEF MonitorChecks
  <2>8. CASE MonitorObserves BY <2>8 DEF MonitorObserves
  <2>9. CASE MonitorFails BY <2>9 DEF MonitorFails
  <2>10. CASE TtsEnds BY <2>10 DEF TtsEnds
  <2>11. CASE TtsFails BY <2>11 DEF TtsFails, ScheduleFailure
  <2>12. CASE \E u \in 1..MaxHeard : Saved(u) BY <2>12 DEF Saved
  <2> QED BY <1>4, <2>1, <2>2, <2>3, <2>4, <2>5, <2>6, <2>7, <2>8, <2>9,
     <2>10, <2>11, <2>12 DEF TaskStep
<1>5. CASE Outside
  <2>1. CASE LegMoves BY <2>1 DEF LegMoves
  <2>2. CASE StreamEnds BY <2>2 DEF StreamEnds
  <2>3. CASE StopCall BY <2>3 DEF StopCall, TermBegin
  <2>4. CASE Utterance BY <2>4 DEF Utterance
  <2>5. CASE Dispatch BY <2>5 DEF Dispatch
  <2>6. CASE Interrupted BY <2>6 DEF Interrupted
  <2>7. CASE EndCall BY <2>7 DEF EndCall
  <2>8. CASE GeminiCloses BY <2>8 DEF GeminiCloses
  <2> QED BY <1>5, <2>1, <2>2, <2>3, <2>4, <2>5, <2>6, <2>7, <2>8 DEF Outside
<1>6. CASE UNCHANGED vars
  BY <1>6
<1> QED BY <1>1, <1>2, <1>3, <1>4, <1>5, <1>6 DEF Next

\* No action hides a failure but the leg monitor's, which is recorded.
LEMMA FailNext ==
    TypeOK /\ TermInv /\ FailInv /\ [Next]_vars => FailInv'
<1> SUFFICES ASSUME TypeOK, TermInv, FailInv, [Next]_vars PROVE FailInv'
    OBVIOUS
<1> USE BoundsAssumption DEF creation, sessionVars, taskVars, media,
        transcript, teardown, vars, TypeOK, TermInv, FailInv, FailureKept,
        Pcs, Terminal, Loops, Readers, Monitors, Legs, Bridges, Spawnable,
        Stages
<1>1. CASE CreateStep
  <2>1. CASE Admit BY <2>1 DEF Admit
  <2>2. CASE Dial BY <2>2 DEF Dial
  <2>3. CASE Attach BY <2>3 DEF Attach
  <2>4. CASE AttachFails BY <2>4 DEF AttachFails
  <2>5. CASE Undo BY <2>5 DEF Undo
  <2>6. CASE OpenSocket BY <2>6 DEF OpenSocket
  <2>7. CASE SetupDone BY <2>7 DEF SetupDone
  <2>8. CASE SetupTimesOut BY <2>8 DEF SetupTimesOut
  <2>9. CASE SetupRefused BY <2>9 DEF SetupRefused
  <2>10. CASE StartLoop BY <2>10 DEF StartLoop
  <2>11. CASE Registered BY <2>11 DEF Registered
  <2>12. CASE CommitCall BY <2>12 DEF CommitCall
  <2> QED BY <1>1, <2>1, <2>2, <2>3, <2>4, <2>5, <2>6, <2>7, <2>8, <2>9,
     <2>10, <2>11, <2>12 DEF CreateStep
<1>2. CASE RunSpawned
  BY <1>2 DEF RunSpawned, TermBegin, ScheduleFailure
<1>3. CASE TermStep
  <2>1. CASE TermLoop BY <2>1 DEF TermLoop, Stage
  <2>2. CASE TermReader BY <2>2 DEF TermReader, Stage
  <2>3. CASE TermMonitor BY <2>3 DEF TermMonitor, Stage
  <2>4. CASE TermTts BY <2>4 DEF TermTts, Stage
  <2>5. CASE TermFlush BY <2>5 DEF TermFlush, Stage
  <2>6. CASE TermGemini BY <2>6 DEF TermGemini, Stage
  <2>7. CASE TermBridge BY <2>7 DEF TermBridge, Stage
  <2>8. CASE TermLeg BY <2>8 DEF TermLeg, Stage
  <2>9. CASE TermFinalize BY <2>9 DEF TermFinalize, Stage
  <2>10. CASE TermRelease BY <2>10 DEF TermRelease, Stage
  <2> QED BY <1>3, <2>1, <2>2, <2>3, <2>4, <2>5, <2>6, <2>7, <2>8, <2>9,
     <2>10 DEF TermStep
<1>4. CASE TaskStep
  <2>1. CASE LoopStarts BY <2>1 DEF LoopStarts
  <2>2. CASE LoopExits BY <2>2 DEF LoopExits
  <2>3. CASE LoopFails BY <2>3 DEF LoopFails, ScheduleFailure
  <2>4. CASE ModelTimesOut BY <2>4 DEF ModelTimesOut, ScheduleFailure
  <2>5. CASE ReaderEnds BY <2>5 DEF ReaderEnds
  <2>6. CASE ReaderFails BY <2>6 DEF ReaderFails, ScheduleFailure
  <2>7. CASE MonitorChecks BY <2>7 DEF MonitorChecks
  <2>8. CASE MonitorObserves BY <2>8 DEF MonitorObserves
  <2>9. CASE MonitorFails BY <2>9 DEF MonitorFails
  <2>10. CASE TtsEnds BY <2>10 DEF TtsEnds
  <2>11. CASE TtsFails BY <2>11 DEF TtsFails, ScheduleFailure
  <2>12. CASE \E u \in 1..MaxHeard : Saved(u) BY <2>12 DEF Saved
  <2> QED BY <1>4, <2>1, <2>2, <2>3, <2>4, <2>5, <2>6, <2>7, <2>8, <2>9,
     <2>10, <2>11, <2>12 DEF TaskStep
<1>5. CASE Outside
  <2>1. CASE LegMoves BY <2>1 DEF LegMoves
  <2>2. CASE StreamEnds BY <2>2 DEF StreamEnds
  <2>3. CASE StopCall BY <2>3 DEF StopCall, TermBegin
  <2>4. CASE Utterance BY <2>4 DEF Utterance
  <2>5. CASE Dispatch BY <2>5 DEF Dispatch
  <2>6. CASE Interrupted BY <2>6 DEF Interrupted
  <2>7. CASE EndCall BY <2>7 DEF EndCall
  <2>8. CASE GeminiCloses BY <2>8 DEF GeminiCloses
  <2> QED BY <1>5, <2>1, <2>2, <2>3, <2>4, <2>5, <2>6, <2>7, <2>8 DEF Outside
<1>6. CASE UNCHANGED vars
  BY <1>6
<1> QED BY <1>1, <1>2, <1>3, <1>4, <1>5, <1>6 DEF Next

\* A connection that terminate_session closed does not come back.
LEMMA ConnNext ==
    TypeOK /\ CreateInv /\ TermInv /\ ConnInv /\ [Next]_vars => ConnInv'
<1> SUFFICES ASSUME TypeOK, CreateInv, TermInv, ConnInv,
   [Next]_vars PROVE ConnInv'
    OBVIOUS
<1> USE BoundsAssumption DEF creation, sessionVars, taskVars, media,
        transcript, teardown, vars, TypeOK, CreateInv, TermInv, ConnInv,
        Early, GeminiClosed, BridgeClosed, LegEnded, Pcs, Terminal, Loops,
        Readers, Monitors, Legs, Bridges, Spawnable, Stages
<1>1. CASE CreateStep
  <2>1. CASE Admit BY <2>1 DEF Admit
  <2>2. CASE Dial BY <2>2 DEF Dial
  <2>3. CASE Attach BY <2>3 DEF Attach
  <2>4. CASE AttachFails BY <2>4 DEF AttachFails
  <2>5. CASE Undo BY <2>5 DEF Undo
  <2>6. CASE OpenSocket BY <2>6 DEF OpenSocket
  <2>7. CASE SetupDone BY <2>7 DEF SetupDone
  <2>8. CASE SetupTimesOut BY <2>8 DEF SetupTimesOut
  <2>9. CASE SetupRefused BY <2>9 DEF SetupRefused
  <2>10. CASE StartLoop BY <2>10 DEF StartLoop
  <2>11. CASE Registered BY <2>11 DEF Registered
  <2>12. CASE CommitCall BY <2>12 DEF CommitCall
  <2> QED BY <1>1, <2>1, <2>2, <2>3, <2>4, <2>5, <2>6, <2>7, <2>8, <2>9,
     <2>10, <2>11, <2>12 DEF CreateStep
<1>2. CASE RunSpawned
  BY <1>2 DEF RunSpawned, TermBegin, ScheduleFailure
<1>3. CASE TermStep
  <2>1. CASE TermLoop BY <2>1 DEF TermLoop, Stage
  <2>2. CASE TermReader BY <2>2 DEF TermReader, Stage
  <2>3. CASE TermMonitor BY <2>3 DEF TermMonitor, Stage
  <2>4. CASE TermTts BY <2>4 DEF TermTts, Stage
  <2>5. CASE TermFlush BY <2>5 DEF TermFlush, Stage
  <2>6. CASE TermGemini BY <2>6 DEF TermGemini, Stage
  <2>7. CASE TermBridge BY <2>7 DEF TermBridge, Stage
  <2>8. CASE TermLeg BY <2>8 DEF TermLeg, Stage
  <2>9. CASE TermFinalize BY <2>9 DEF TermFinalize, Stage
  <2>10. CASE TermRelease BY <2>10 DEF TermRelease, Stage
  <2> QED BY <1>3, <2>1, <2>2, <2>3, <2>4, <2>5, <2>6, <2>7, <2>8, <2>9,
     <2>10 DEF TermStep
<1>4. CASE TaskStep
  <2>1. CASE LoopStarts BY <2>1 DEF LoopStarts
  <2>2. CASE LoopExits BY <2>2 DEF LoopExits
  <2>3. CASE LoopFails BY <2>3 DEF LoopFails, ScheduleFailure
  <2>4. CASE ModelTimesOut BY <2>4 DEF ModelTimesOut, ScheduleFailure
  <2>5. CASE ReaderEnds BY <2>5 DEF ReaderEnds
  <2>6. CASE ReaderFails BY <2>6 DEF ReaderFails, ScheduleFailure
  <2>7. CASE MonitorChecks BY <2>7 DEF MonitorChecks
  <2>8. CASE MonitorObserves BY <2>8 DEF MonitorObserves
  <2>9. CASE MonitorFails BY <2>9 DEF MonitorFails
  <2>10. CASE TtsEnds BY <2>10 DEF TtsEnds
  <2>11. CASE TtsFails BY <2>11 DEF TtsFails, ScheduleFailure
  <2>12. CASE \E u \in 1..MaxHeard : Saved(u) BY <2>12 DEF Saved
  <2> QED BY <1>4, <2>1, <2>2, <2>3, <2>4, <2>5, <2>6, <2>7, <2>8, <2>9,
     <2>10, <2>11, <2>12 DEF TaskStep
<1>5. CASE Outside
  <2>1. CASE LegMoves BY <2>1 DEF LegMoves
  <2>2. CASE StreamEnds BY <2>2 DEF StreamEnds
  <2>3. CASE StopCall BY <2>3 DEF StopCall, TermBegin
  <2>4. CASE Utterance BY <2>4 DEF Utterance
  <2>5. CASE Dispatch BY <2>5 DEF Dispatch
  <2>6. CASE Interrupted BY <2>6 DEF Interrupted
  <2>7. CASE EndCall BY <2>7 DEF EndCall
  <2>8. CASE GeminiCloses BY <2>8 DEF GeminiCloses
  <2> QED BY <1>5, <2>1, <2>2, <2>3, <2>4, <2>5, <2>6, <2>7, <2>8 DEF Outside
<1>6. CASE UNCHANGED vars
  BY <1>6
<1> QED BY <1>1, <1>2, <1>3, <1>4, <1>5, <1>6 DEF Next

\* flush waits for all that was said before, and what comes later is later.
LEMMA SpeechNext ==
    TypeOK /\ TermInv /\ SpeechInv /\ [Next]_vars => SpeechInv'
<1> SUFFICES ASSUME TypeOK, TermInv, SpeechInv, [Next]_vars PROVE SpeechInv'
    OBVIOUS
<1> USE BoundsAssumption DEF creation, sessionVars, taskVars, media,
        transcript, teardown, vars, TypeOK, TermInv, SpeechInv, GeminiClosed,
        Pcs, Terminal, Loops, Readers, Monitors, Legs, Bridges, Spawnable,
        Stages
<1>1. CASE CreateStep
  <2>1. CASE Admit BY <2>1 DEF Admit
  <2>2. CASE Dial BY <2>2 DEF Dial
  <2>3. CASE Attach BY <2>3 DEF Attach
  <2>4. CASE AttachFails BY <2>4 DEF AttachFails
  <2>5. CASE Undo BY <2>5 DEF Undo
  <2>6. CASE OpenSocket BY <2>6 DEF OpenSocket
  <2>7. CASE SetupDone BY <2>7 DEF SetupDone
  <2>8. CASE SetupTimesOut BY <2>8 DEF SetupTimesOut
  <2>9. CASE SetupRefused BY <2>9 DEF SetupRefused
  <2>10. CASE StartLoop BY <2>10 DEF StartLoop
  <2>11. CASE Registered BY <2>11 DEF Registered
  <2>12. CASE CommitCall BY <2>12 DEF CommitCall
  <2> QED BY <1>1, <2>1, <2>2, <2>3, <2>4, <2>5, <2>6, <2>7, <2>8, <2>9,
     <2>10, <2>11, <2>12 DEF CreateStep
<1>2. CASE RunSpawned
  BY <1>2 DEF RunSpawned, TermBegin, ScheduleFailure
<1>3. CASE TermStep
  <2>1. CASE TermLoop BY <2>1 DEF TermLoop, Stage
  <2>2. CASE TermReader BY <2>2 DEF TermReader, Stage
  <2>3. CASE TermMonitor BY <2>3 DEF TermMonitor, Stage
  <2>4. CASE TermTts BY <2>4 DEF TermTts, Stage
  <2>5. CASE TermFlush BY <2>5 DEF TermFlush, Stage
  <2>6. CASE TermGemini BY <2>6 DEF TermGemini, Stage
  <2>7. CASE TermBridge BY <2>7 DEF TermBridge, Stage
  <2>8. CASE TermLeg BY <2>8 DEF TermLeg, Stage
  <2>9. CASE TermFinalize BY <2>9 DEF TermFinalize, Stage
  <2>10. CASE TermRelease BY <2>10 DEF TermRelease, Stage
  <2> QED BY <1>3, <2>1, <2>2, <2>3, <2>4, <2>5, <2>6, <2>7, <2>8, <2>9,
     <2>10 DEF TermStep
<1>4. CASE TaskStep
  <2>1. CASE LoopStarts BY <2>1 DEF LoopStarts
  <2>2. CASE LoopExits BY <2>2 DEF LoopExits
  <2>3. CASE LoopFails BY <2>3 DEF LoopFails, ScheduleFailure
  <2>4. CASE ModelTimesOut BY <2>4 DEF ModelTimesOut, ScheduleFailure
  <2>5. CASE ReaderEnds BY <2>5 DEF ReaderEnds
  <2>6. CASE ReaderFails BY <2>6 DEF ReaderFails, ScheduleFailure
  <2>7. CASE MonitorChecks BY <2>7 DEF MonitorChecks
  <2>8. CASE MonitorObserves BY <2>8 DEF MonitorObserves
  <2>9. CASE MonitorFails BY <2>9 DEF MonitorFails
  <2>10. CASE TtsEnds BY <2>10 DEF TtsEnds
  <2>11. CASE TtsFails BY <2>11 DEF TtsFails, ScheduleFailure
  <2>12. CASE \E u \in 1..MaxHeard : Saved(u) BY <2>12 DEF Saved
  <2> QED BY <1>4, <2>1, <2>2, <2>3, <2>4, <2>5, <2>6, <2>7, <2>8, <2>9,
     <2>10, <2>11, <2>12 DEF TaskStep
<1>5. CASE Outside
  <2>1. CASE LegMoves BY <2>1 DEF LegMoves
  <2>2. CASE StreamEnds BY <2>2 DEF StreamEnds
  <2>3. CASE StopCall BY <2>3 DEF StopCall, TermBegin
  <2>4. CASE Utterance BY <2>4 DEF Utterance
  <2>5. CASE Dispatch BY <2>5 DEF Dispatch
  <2>6. CASE Interrupted BY <2>6 DEF Interrupted
  <2>7. CASE EndCall BY <2>7 DEF EndCall
  <2>8. CASE GeminiCloses BY <2>8 DEF GeminiCloses
  <2> QED BY <1>5, <2>1, <2>2, <2>3, <2>4, <2>5, <2>6, <2>7, <2>8 DEF Outside
<1>6. CASE UNCHANGED vars
  BY <1>6
<1> QED BY <1>1, <1>2, <1>3, <1>4, <1>5, <1>6 DEF Next

-----------------------------------------------------------------------------
(* The theorems                                                            *)

\* The invariant holds before the session is created.
LEMMA InitInv == Init => IInv
<1> SUFFICES ASSUME Init PROVE IInv OBVIOUS
<1> USE BoundsAssumption DEF creation, sessionVars, taskVars, media,
        transcript, teardown, vars, Init
<1>1. Flags BY Zenon DEF Flags
<1>2. Values
  BY DEF Values, Pcs, Terminal, Loops, Readers, Monitors, Legs, Bridges,
     Spawnable, Stages
<1>3. TypeOK BY <1>1, <1>2 DEF TypeOK, Flags, Values
<1>4. CreateInv /\ TermInv /\ FailInv
  BY DEF CreateInv, TermInv, FailInv, FailureKept, Early
<1>5. ConnInv /\ SpeechInv
  BY DEF ConnInv, SpeechInv, GeminiClosed, BridgeClosed, LegEnded
<1> QED BY <1>3, <1>4, <1>5 DEF IInv

\* The inductive invariant holds in every reachable state.
THEOREM Invariance == Spec => []IInv
<1>1. IInv /\ [Next]_vars => IInv'
  BY TypeNext, CreateNext, TermNext, FailNext, ConnNext, SpeechNext DEF IInv
<1> QED BY InitInv, <1>1, PTL DEF Spec

\* Every variable of the session keeps its type.
THEOREM TypeCorrect == Spec => []TypeOK
<1>1. IInv => TypeOK BY DEF IInv
<1> QED BY Invariance, <1>1, PTL

\* A failure is not finalised as a success, however many terminate_session
\* tasks were queued before it.
THEOREM FailureIsKept == Spec => []FailureKept
<1>1. IInv => FailureKept BY DEF IInv, FailInv
<1> QED BY Invariance, <1>1, PTL

\* finalize_call reads a transcript that is settled for all that was said
\* before terminate_session, for any number of utterances.
THEOREM SpeechIsSettled == Spec => []SpokenIsSettled
<1>1. IInv => SpokenIsSettled
  BY DEF IInv, SpeechInv, SpokenIsSettled, GeminiClosed
<1> QED BY Invariance, <1>1, PTL

\* terminate_session leaves no connection, even of a session whose creation
\* it overtook.
THEOREM NoConnectionLeft == Spec => []ConnectionsGone
<1>1. IInv => ConnectionsGone
  BY DEF IInv, ConnInv, ConnectionsGone, GeminiClosed, BridgeClosed, LegEnded
<1> QED BY Invariance, <1>1, PTL

\* terminate_session takes a session apart at most once.
THEOREM Once == Spec => TakenApartOnce
<1>1. IInv /\ [Next]_vars => (final # "none" => final' = final /\ ~inDict')
  <2> SUFFICES ASSUME IInv, [Next]_vars, final # "none"
               PROVE  final' = final /\ ~inDict'
    OBVIOUS
  <2> USE DEF creation, sessionVars, taskVars, media, transcript, teardown,
          vars, IInv, TypeOK, CreateInv, TermInv, Early, Stages
  <2>1. CASE CreateStep
    BY <2>1 DEF CreateStep, Admit, Dial, Attach, AttachFails, Undo,
       OpenSocket, SetupDone, SetupTimesOut, SetupRefused, StartLoop,
       Registered, CommitCall
  <2>2. CASE RunSpawned BY <2>2 DEF RunSpawned, TermBegin, ScheduleFailure
  <2>3. CASE TermStep
    BY <2>3 DEF TermStep, Stage, TermLoop, TermReader, TermMonitor, TermTts,
       TermFlush, TermGemini, TermBridge, TermLeg, TermFinalize, TermRelease
  <2>4. CASE TaskStep
    BY <2>4 DEF TaskStep, ScheduleFailure, LoopStarts, LoopExits, LoopFails,
       ModelTimesOut, ReaderEnds, ReaderFails, MonitorChecks, MonitorObserves,
       MonitorFails, TtsEnds, TtsFails, Saved
  <2>5. CASE Outside
    BY <2>5 DEF Outside, TermBegin, LegMoves, StreamEnds, StopCall, Utterance,
       Dispatch, Interrupted, EndCall, GeminiCloses
  <2>6. CASE UNCHANGED vars
    BY <2>6
  <2> QED BY <2>1, <2>2, <2>3, <2>4, <2>5, <2>6 DEF Next
<1> QED BY Invariance, <1>1, PTL DEF Spec, TakenApartOnce
=============================================================================
