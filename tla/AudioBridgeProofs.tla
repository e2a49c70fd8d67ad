------------------------- MODULE AudioBridgeProofs -------------------------
(***************************************************************************)
(* Proofs of the safety properties of the two audio bridges, MediaGateway  *)
(* and BrowserCall, for every value of their constants: any number of      *)
(* sessions, channels, ports and browsers, and buffers of any size.        *)
(*                                                                         *)
(* The two bridges serve different calls and share nothing: each part uses *)
(* the definitions of its own component only.                              *)
(***************************************************************************)
EXTENDS MediaGateway, BrowserCallInvariant, SequenceTheorems, WellFoundedInduction,
        NaturalsInduction, TLAPS

-----------------------------------------------------------------------------
(* The inductive invariant                                                 *)

MediaEvents == {"audio", "barge", "hangup"}

\* A frame waits only while the far end is unknown, behind everything that was
\* sent and before everything that is still to be spoken.
MediaInv ==
    /\ remote \in [Sessions -> BOOLEAN]
    /\ pending \in [Sessions -> Seq(Nat)]
    /\ sent \in [Sessions -> Nat]
    /\ spoken \in [Sessions -> Nat]
    /\ \A s \in Sessions :
         /\ Len(pending[s]) <= BufferMax
         /\ remote[s] => pending[s] = <<>>
         /\ sent[s] <= spoken[s]
         /\ \A i \in 1..Len(pending[s]) : sent[s] < pending[s][i] /\ pending[s][i] <= spoken[s]
         /\ \A i, j \in 1..Len(pending[s]) : i < j => pending[s][i] < pending[s][j]

\* The other flags of a session, its channel and the ports of others.
FlagInv ==
    /\ heard \in [Sessions -> BOOLEAN]
    /\ stale \in [Sessions -> BOOLEAN]
    /\ probe \in [Sessions -> BOOLEAN]
    /\ channel \in [Sessions -> BOOLEAN]
    /\ telling \in [Sessions -> BOOLEAN]
    /\ others \subseteq Ports

Evts == [step : {"none", "mapping", "attaching", "storing"},
         uuid : Sessions \cup Uuids \cup {NoUuid},
         name : {"none", "progress", "hangup", "barge"}]

\* The ESL connection; the event in the middle of which the reader is.
EslInv ==
    /\ esl \in {"none", "up", "broken"}
    /\ connecting \in Sessions \cup {Reader, Nobody}
    /\ attempts \in 0..Attempts
    /\ reader \in {"none", "ensuring", "reading", "handling", "closing", "spinning"}
    /\ evt \in Evts
    /\ evt.step # "none" => evt.uuid # NoUuid /\ evt.name # "none"
    /\ faults \in 0..MaxFaults

Places == {"idle", "ensuring", "open", "over", "closed"} \cup Attaching \cup Failed \cup Closing

\* The places of open() and close() at which the session is in the tables.
Entered == Attaching \cup {"leaked", "open", "over"} \cup Closing

\* The tables say of a session what its open() or close() has come to.
TableInv ==
    /\ handles \subseteq Sessions
    /\ uuids \subseteq Sessions \cup Uuids
    /\ corr \in [Sessions -> Sessions \cup Uuids \cup {NoUuid}]
    /\ port \in [Sessions -> Ports \cup {NoPort}]
    /\ watchdog \in [Sessions -> {"none", "running", "returned"}]
    /\ at \in [Sessions -> Places]
    /\ provider \in [Sessions -> Sessions \cup Uuids]
    /\ picked \in [Sessions -> Ports \cup {NoPort}]
    /\ isOpen \in [Sessions -> BOOLEAN]
    /\ connecting \in Sessions => at[connecting] = "ensuring"
    /\ \A s \in Sessions :
         /\ s \in handles <=> at[s] \in Entered
         /\ corr[s] # NoUuid <=> s \in handles
         /\ port[s] # NoPort => s \in handles
         /\ watchdog[s] = "running" => at[s] \in Entered \ Closing
         /\ isOpen[s] <=> at[s] = "open"

\* Only a session in the tables has events waiting for its bridge.
QueueInv ==
    /\ queue \in [Sessions -> Seq(MediaEvents)]
    /\ lost \subseteq Sessions
    /\ \A s \in Sessions :
         /\ Len(queue[s]) <= QueueMax
         /\ queue[s] # <<>> => s \in handles

IInv == MediaInv /\ FlagInv /\ EslInv /\ TableInv /\ QueueInv

-----------------------------------------------------------------------------
(* Queues, ports and legs                                                  *)

\* A buffer that loses its oldest entry when it is full keeps its bound, and the
\* order of what it keeps.
LEMMA BoundedAppend ==
    ASSUME NEW S, NEW q \in Seq(S), NEW e \in S, NEW n \in Nat \ {0}, Len(q) <= n
    PROVE  LET r == Append(IF Len(q) >= n THEN Tail(q) ELSE q, e)
           IN  /\ r \in Seq(S) /\ Len(r) <= n /\ r # <<>>
               /\ \E d \in {0, 1} : /\ Len(r) = Len(q) - d + 1 /\ Len(q) >= d
                                    /\ \A i \in 1..(Len(r) - 1) : r[i] = q[i + d]
               /\ r[Len(r)] = e
<1>1. CASE Len(q) >= n
  <2>1. q # <<>>
    BY <1>1, EmptySeq
  <2>2. PICK u : u = Tail(q)
    OBVIOUS
  <2>3. u \in Seq(S) /\ Len(u) = Len(q) - 1 /\ \A i \in 1..Len(u) : u[i] = q[i + 1]
    BY <2>1, <2>2, HeadTailProperties
  <2>4. PICK r : r = Append(u, e)
    OBVIOUS
  <2>5. /\ r \in Seq(S) /\ r # <<>> /\ Len(r) = Len(u) + 1
        /\ \A i \in 1..Len(u) : r[i] = u[i]
        /\ r[Len(u) + 1] = e
    BY <2>3, <2>4, AppendProperties
  <2>6. Len(q) \in Nat /\ Len(u) \in Nat /\ Len(r) \in Nat
    BY <2>3, <2>5, LenProperties
  <2>7. /\ Len(r) = Len(q) - 1 + 1 /\ Len(q) >= 1 /\ Len(r) <= n /\ r[Len(r)] = e
        /\ \A i \in 1..(Len(r) - 1) : r[i] = q[i + 1]
    BY <1>1, <2>3, <2>5, <2>6
  <2>8. r = Append(IF Len(q) >= n THEN Tail(q) ELSE q, e)
    BY <1>1, <2>2, <2>4
  <2>9. QED
    BY <2>5, <2>7, <2>8
<1>2. CASE ~(Len(q) >= n)
  <2>1. Len(q) \in Nat /\ Len(q) < n
    BY <1>2, LenProperties
  <2>2. PICK r : r = Append(q, e)
    OBVIOUS
  <2>3. /\ r \in Seq(S) /\ r # <<>> /\ Len(r) = Len(q) + 1
        /\ \A i \in 1..Len(q) : r[i] = q[i]
        /\ r[Len(q) + 1] = e
    BY <2>2, AppendProperties
  <2>4. /\ Len(r) = Len(q) - 0 + 1 /\ Len(q) >= 0 /\ Len(r) <= n /\ r[Len(r)] = e
        /\ \A i \in 1..(Len(r) - 1) : r[i] = q[i + 0]
    BY <2>1, <2>3
  <2>5. r = Append(IF Len(q) >= n THEN Tail(q) ELSE q, e)
    BY <1>2, <2>2
  <2>6. QED
    BY <2>3, <2>4, <2>5
<1>3. QED
  BY <1>1, <1>2

\* The leg of a channel is a session.
LEMMA LegType == ASSUME NEW u \in Sessions \cup Uuids PROVE Leg(u) \in Sessions
  BY OriginAssumption DEF Leg

\* What the reader may do, by the channel the event is about.
LEMMA ReadCases ==
    ASSUME ReadStep
    PROVE  \/ \E u \in Sessions \cup Uuids, name \in {"progress", "hangup", "barge"} :
                 ReadKnown(u, name) \/ ReadPromote(u, name) \/ ReadOther(u, name)
           \/ Promoted \/ PromoteAttached \/ HangupStored
<1>1. \A s \in Sessions : Channels(s) \subseteq Sessions \cup Uuids
  BY DEF Channels
<1>2. QED
  BY <1>1, Zenon DEF ReadStep

\* The first free port is a port.
LEMMA FirstFree ==
    ASSUME NEW S, S \subseteq Nat, S # {}
    PROVE  \E p \in S : \A q \in S : p <= q
<1>1. IsWellFoundedOn(OpToRel(<, Nat), Nat)
  BY NatLessThanWellFounded
<1>2. PICK p \in S : \A q \in S : ~(<<q, p>> \in OpToRel(<, Nat))
  BY <1>1, WFMin, Zenon
<1>3. \A q \in S : ~(q < p)
  BY <1>2 DEF OpToRel
<1>4. QED
  BY <1>3

-----------------------------------------------------------------------------
(* The initial states                                                      *)

\* The empty gateway satisfies the invariant.
LEMMA InitIInv == Init => IInv
<1>1. SUFFICES ASSUME Init PROVE IInv
  OBVIOUS
<1>2. MediaInv
  <2>1. pending \in [Sessions -> Seq(Nat)] /\ \A s \in Sessions : pending[s] = <<>>
    BY <1>1, EmptySeq DEF Init
  <2>2. \A s \in Sessions : Len(pending[s]) = 0 /\ Len(pending[s]) <= BufferMax
    BY <2>1, EmptySeq, BoundsAssumption
  <2>3. QED
    BY <1>1, <2>1, <2>2 DEF Init, MediaInv
<1>3. FlagInv
  BY <1>1 DEF Init, FlagInv
<1>4. EslInv
  BY <1>1, TasksAssumption, BoundsAssumption DEF Init, EslInv, Evts, NoEvent
<1>5. TableInv
  <2>1. "idle" \in Places /\ "idle" \notin Entered
    BY DEF Places, Entered, Attaching, Closing
  <2>2. QED
    BY <1>1, <2>1, TasksAssumption DEF Init, TableInv
<1>6. QueueInv
  <2>1. queue \in [Sessions -> Seq(MediaEvents)] /\ \A s \in Sessions : queue[s] = <<>>
    BY <1>1, EmptySeq DEF Init
  <2>2. \A s \in Sessions : Len(queue[s]) <= QueueMax
    BY <2>1, EmptySeq, BoundsAssumption
  <2>3. QED
    BY <1>1, <2>1, <2>2 DEF Init, QueueInv
<1>7. QED
  BY <1>2, <1>3, <1>4, <1>5, <1>6 DEF IInv

-----------------------------------------------------------------------------
(* The order of frames                                                     *)

\* What waits goes out as soon as the far end is known, and all of it.
LEMMA FlushKeeps ==
    ASSUME MediaInv, NEW s \in Sessions, flush_pending_audio(s), UNCHANGED spoken
    PROVE  MediaInv'
<1>1. /\ remote' = [remote EXCEPT ![s] = TRUE] /\ pending' = [pending EXCEPT ![s] = <<>>]
      /\ sent' = [sent EXCEPT ![s] = IF pending[s] = <<>> THEN sent[s] ELSE pending[s][Len(pending[s])]]
  BY DEF flush_pending_audio, send_rtp_audio
<1>2. pending[s] \in Seq(Nat) /\ Len(pending[s]) \in Nat
  BY LenProperties DEF MediaInv
<1>3. pending[s] # <<>> => Len(pending[s]) \in 1..Len(pending[s])
  BY <1>2, EmptySeq
<1>4. pending[s] # <<>> =>
        /\ pending[s][Len(pending[s])] \in Nat
        /\ pending[s][Len(pending[s])] <= spoken[s]
  BY <1>2, <1>3, ElementOfSeq DEF MediaInv
<1>5. sent' \in [Sessions -> Nat] /\ sent'[s] <= spoken[s]
      /\ \A t \in Sessions \ {s} : sent'[t] = sent[t]
  BY <1>1, <1>4 DEF MediaInv
<1>6. /\ pending' \in [Sessions -> Seq(Nat)] /\ pending'[s] = <<>> /\ Len(pending'[s]) = 0
      /\ \A t \in Sessions \ {s} : pending'[t] = pending[t]
  BY <1>1, EmptySeq DEF MediaInv
<1>7. /\ remote' \in [Sessions -> BOOLEAN]
      /\ \A t \in Sessions \ {s} : remote'[t] = remote[t]
  BY <1>1 DEF MediaInv
<1>8. ASSUME NEW t \in Sessions
      PROVE  /\ Len(pending'[t]) <= BufferMax
             /\ remote'[t] => pending'[t] = <<>>
             /\ sent'[t] <= spoken'[t]
             /\ \A i \in 1..Len(pending'[t]) : sent'[t] < pending'[t][i] /\ pending'[t][i] <= spoken'[t]
             /\ \A i, j \in 1..Len(pending'[t]) : i < j => pending'[t][i] < pending'[t][j]
  <2>1. CASE t = s
    BY <1>5, <1>6, <2>1, BoundsAssumption
  <2>2. CASE t # s
    BY <1>5, <1>6, <1>7, <2>2 DEF MediaInv
  <2>3. QED
    BY <2>1, <2>2
<1>9. QED
  BY <1>5, <1>6, <1>7, <1>8 DEF MediaInv

\* Learning the far end, with or without a buffer to flush, keeps the order.
LEMMA PrimeKeeps ==
    ASSUME MediaInv, NEW s \in Sessions, MayPrime(s), UNCHANGED spoken
    PROVE  MediaInv'
<1>1. CASE flush_pending_audio(s)
  BY <1>1, FlushKeeps
<1>2. CASE UNCHANGED <<remote, sent, pending>>
  BY <1>2 DEF MediaInv
<1>3. QED
  BY <1>1, <1>2 DEF MayPrime

\* A frame is sent when nothing waits, and waits behind the others otherwise.
LEMMA SendKeeps ==
    ASSUME MediaInv, NEW s \in Sessions, send_audio(s)
    PROVE  MediaInv'
<1> DEFINE f == spoken[s] + 1
<1>1. /\ f \in Nat /\ spoken[s] < f /\ spoken' = [spoken EXCEPT ![s] = f] /\ UNCHANGED remote
      /\ spoken' \in [Sessions -> Nat]
  BY DEF MediaInv, send_audio
<1>2. CASE remote[s]
  <2>1. UNCHANGED pending /\ pending[s] = <<>> /\ Len(pending[s]) = 0
    BY <1>2, EmptySeq DEF MediaInv, send_audio
  <2>2. sent' = [sent EXCEPT ![s] = f]
    BY <1>2 DEF send_audio, send_rtp_audio
  <2>3. sent' \in [Sessions -> Nat]
    BY <1>1, <2>2 DEF MediaInv
  <2> HIDE DEF f
  <2>4. QED
    BY <1>1, <2>1, <2>2, <2>3 DEF MediaInv
<1>3. CASE ~remote[s]
  <2>1. PICK r : r = Append(IF Len(pending[s]) >= BufferMax THEN Tail(pending[s]) ELSE pending[s], f)
    OBVIOUS
  <2>2. pending' = [pending EXCEPT ![s] = r] /\ UNCHANGED sent
    BY <1>3, <2>1 DEF send_audio, Buffered
  <2>3. /\ pending[s] \in Seq(Nat) /\ Len(pending[s]) <= BufferMax /\ BufferMax \in Nat \ {0}
    BY BoundsAssumption DEF MediaInv
  <2> HIDE DEF f
  <2>4. /\ r \in Seq(Nat) /\ Len(r) <= BufferMax /\ r # <<>>
        /\ \E d \in {0, 1} : /\ Len(r) = Len(pending[s]) - d + 1 /\ Len(pending[s]) >= d
                             /\ \A i \in 1..(Len(r) - 1) : r[i] = pending[s][i + d]
        /\ r[Len(r)] = f
    BY <1>1, <2>1, <2>3, BoundedAppend
  <2>5. PICK d \in {0, 1} : /\ Len(r) = Len(pending[s]) - d + 1 /\ Len(pending[s]) >= d
                            /\ \A i \in 1..(Len(r) - 1) : r[i] = pending[s][i + d]
    BY <2>4
  <2>6. Len(r) \in Nat /\ Len(pending[s]) \in Nat
    BY <2>3, <2>4, LenProperties
  <2>7. ASSUME NEW i \in 1..Len(r)
        PROVE  /\ r[i] \in Nat /\ sent[s] < r[i] /\ r[i] <= f
               /\ i < Len(r) => i + d \in 1..Len(pending[s]) /\ r[i] <= spoken[s]
    <3>1. CASE i = Len(r)
      BY <1>1, <2>4, <2>6, <3>1 DEF MediaInv
    <3>2. CASE i # Len(r)
      <4>1. i \in 1..(Len(r) - 1) /\ i + d \in 1..Len(pending[s])
        BY <2>5, <2>6, <3>2
      <4>2. /\ pending[s][i + d] \in Nat /\ sent[s] < pending[s][i + d]
            /\ pending[s][i + d] <= spoken[s]
        BY <2>3, <4>1, ElementOfSeq DEF MediaInv
      <4>3. QED
        BY <1>1, <2>5, <4>1, <4>2 DEF MediaInv
    <3>3. QED
      BY <3>1, <3>2
  <2>8. ASSUME NEW i \in 1..Len(r), NEW j \in 1..Len(r), i < j PROVE r[i] < r[j]
    <3>1. i < Len(r) /\ i \in 1..(Len(r) - 1)
      BY <2>6, <2>8
    <3>2. CASE j = Len(r)
      <4>1. r[i] \in Nat /\ r[i] <= spoken[s] /\ spoken[s] \in Nat
        BY <2>7, <3>1 DEF MediaInv
      <4>2. QED
        BY <1>1, <2>4, <3>2, <4>1
    <3>3. CASE j # Len(r)
      <4>1. j \in 1..(Len(r) - 1) /\ j < Len(r) /\ i + d < j + d
        BY <2>6, <2>8, <3>3
      <4>2. i + d \in 1..Len(pending[s]) /\ j + d \in 1..Len(pending[s])
        BY <2>7, <3>1, <4>1
      <4>3. pending[s][i + d] < pending[s][j + d]
        BY <4>1, <4>2 DEF MediaInv
      <4>4. QED
        BY <2>5, <3>1, <4>1, <4>3
    <3>4. QED
      BY <3>2, <3>3
  <2>9. /\ pending' \in [Sessions -> Seq(Nat)] /\ pending'[s] = r
        /\ \A t \in Sessions \ {s} : pending'[t] = pending[t]
    BY <2>2, <2>4 DEF MediaInv
  <2>10. /\ spoken'[s] = f /\ sent[s] <= f
         /\ \A t \in Sessions \ {s} : spoken'[t] = spoken[t]
    BY <1>1 DEF MediaInv
  <2>11. ASSUME NEW t \in Sessions
         PROVE  /\ Len(pending'[t]) <= BufferMax
                /\ remote'[t] => pending'[t] = <<>>
                /\ sent'[t] <= spoken'[t]
                /\ \A i \in 1..Len(pending'[t]) : sent'[t] < pending'[t][i] /\ pending'[t][i] <= spoken'[t]
                /\ \A i, j \in 1..Len(pending'[t]) : i < j => pending'[t][i] < pending'[t][j]
    <3>1. CASE t = s
      BY <1>1, <1>3, <2>2, <2>4, <2>7, <2>8, <2>9, <2>10, <3>1
    <3>2. CASE t # s
      BY <1>1, <2>2, <2>9, <2>10, <3>2 DEF MediaInv
    <3>3. QED
      BY <3>1, <3>2
  <2>12. QED
    BY <1>1, <2>2, <2>9, <2>11 DEF MediaInv
<1>4. QED
  BY <1>2, <1>3

\* Every step keeps the order of the frames.
LEMMA MediaStep == MediaInv /\ EslInv /\ [Next]_vars => MediaInv'
<1>1. SUFFICES ASSUME MediaInv, EslInv, [Next]_vars PROVE MediaInv'
  OBVIOUS
<1> USE <1>1
<1>2. ASSUME NEW t \in Sessions \cup {Reader}, TakeConnectLock(t) PROVE MediaInv'
  BY <1>2 DEF TakeConnectLock, MediaInv, eslVars, tableVars, mediaVars, openVars, farVars, Register, Goto
<1>3. ASSUME NEW t \in Sessions \cup {Reader}, Connected(t) PROVE MediaInv'
  BY <1>3 DEF Connected, MediaInv, eslVars, tableVars, mediaVars, openVars, farVars, Register, Goto
<1>4. ASSUME NEW t \in Sessions \cup {Reader}, ConnectFails(t) PROVE MediaInv'
  BY <1>4 DEF ConnectFails, MediaInv, eslVars, tableVars, mediaVars, openVars, farVars, Register, Goto
<1>5. ASSUME NEW u \in Sessions \cup Uuids, NEW name \in {"progress", "hangup", "barge"}, ReadKnown(u, name) PROVE MediaInv'
  <2>1. UNCHANGED spoken /\ (MayPrime(Leg(u)) \/ UNCHANGED <<remote, sent, pending>>)
    BY <1>5 DEF ReadKnown, Apply, openVars
  <2>2. QED
    BY <2>1, LegType, PrimeKeeps DEF MediaInv
<1>6. ASSUME NEW u \in Sessions \cup Uuids, NEW name \in {"progress", "hangup", "barge"}, ReadPromote(u, name) PROVE MediaInv'
  BY <1>6 DEF ReadPromote, MediaInv, eslVars, tableVars, mediaVars, openVars, farVars, Register, Goto
<1>7. ASSUME NEW u \in Sessions \cup Uuids, NEW name \in {"progress", "hangup", "barge"}, ReadOther(u, name) PROVE MediaInv'
  BY <1>7 DEF ReadOther, MediaInv, eslVars, tableVars, mediaVars, openVars, farVars, Register, Goto
<1>8. CASE Promoted
  <2>1. evt.uuid \in Sessions \cup Uuids
    BY <1>8 DEF Promoted, EslInv, Evts
  <2>2. UNCHANGED spoken /\ (MayPrime(Leg(evt.uuid)) \/ UNCHANGED <<remote, sent, pending>>)
    BY <1>8 DEF Promoted, Apply, openVars
  <2>3. QED
    BY <2>1, <2>2, LegType, PrimeKeeps DEF MediaInv
<1>9. CASE PromoteAttached
  <2>1. evt.uuid \in Sessions \cup Uuids
    BY <1>9 DEF PromoteAttached, EslInv, Evts
  <2>2. UNCHANGED spoken /\ (MayPrime(Leg(evt.uuid)) \/ UNCHANGED <<remote, sent, pending>>)
    BY <1>9 DEF PromoteAttached, Apply, openVars
  <2>3. QED
    BY <2>1, <2>2, LegType, PrimeKeeps DEF MediaInv
<1>10. CASE HangupStored
  BY <1>10 DEF HangupStored, MediaInv, eslVars, tableVars, mediaVars, openVars, farVars, Register, Goto
<1>11. CASE ReaderEnsured
  BY <1>11 DEF ReaderEnsured, MediaInv, eslVars, tableVars, mediaVars, openVars, farVars, Register, Goto
<1>12. CASE EslBreaks
  BY <1>12 DEF EslBreaks, MediaInv, eslVars, tableVars, mediaVars, openVars, farVars, Register, Goto
<1>13. CASE ReaderFails
  BY <1>13 DEF ReaderFails, MediaInv, eslVars, tableVars, mediaVars, openVars, farVars, Register, Goto
<1>14. CASE ReaderRestarts
  BY <1>14 DEF ReaderRestarts, MediaInv, eslVars, tableVars, mediaVars, openVars, farVars, Register, Goto
<1>15. ASSUME NEW s \in Sessions, NEW u \in Channels(s), Open(s, u) PROVE MediaInv'
  BY <1>15 DEF Open, MediaInv, eslVars, tableVars, mediaVars, openVars, farVars, Register, Goto
<1>16. ASSUME NEW s \in Sessions, Ensured(s) PROVE MediaInv'
  BY <1>16 DEF Ensured, MediaInv, eslVars, tableVars, mediaVars, openVars, farVars, Register, Goto
<1>17. ASSUME NEW s \in Sessions, Mapped(s) PROVE MediaInv'
  BY <1>17 DEF Mapped, MediaInv, eslVars, tableVars, mediaVars, openVars, farVars, Register, Goto
<1>18. ASSUME NEW s \in Sessions, find_free_udp_port(s) PROVE MediaInv'
  BY <1>18 DEF find_free_udp_port, MediaInv, eslVars, tableVars, mediaVars, openVars, farVars, Register, Goto
<1>19. ASSUME NEW s \in Sessions, open_rtp_runtime(s) PROVE MediaInv'
  <2>1. UNCHANGED spoken /\ (MayPrime(s) \/ UNCHANGED <<remote, sent, pending>>)
    BY <1>19 DEF open_rtp_runtime
  <2>2. QED
    BY <2>1, PrimeKeeps DEF MediaInv
<1>20. ASSUME NEW s \in Sessions, direct_uuid_exists(s) PROVE MediaInv'
  BY <1>20 DEF direct_uuid_exists, MediaInv, eslVars, tableVars, mediaVars, openVars, farVars, Register, Goto
<1>21. ASSUME NEW s \in Sessions, AttachSent(s) PROVE MediaInv'
  BY <1>21 DEF AttachSent, MediaInv, eslVars, tableVars, mediaVars, openVars, farVars, Register, Goto
<1>22. ASSUME NEW s \in Sessions, HangupSent(s) PROVE MediaInv'
  BY <1>22 DEF HangupSent, MediaInv, eslVars, tableVars, mediaVars, openVars, farVars, Register, Goto
<1>23. ASSUME NEW s \in Sessions, Detached(s) PROVE MediaInv'
  <2>1. /\ UNCHANGED <<sent, spoken>> /\ remote' = [remote EXCEPT ![s] = FALSE]
        /\ pending' = [pending EXCEPT ![s] = <<>>]
    BY <1>23 DEF Detached
  <2>2. remote' \in [Sessions -> BOOLEAN] /\ \A t \in Sessions \ {s} : remote'[t] = remote[t]
    BY <2>1 DEF MediaInv
  <2>3. /\ pending' \in [Sessions -> Seq(Nat)] /\ pending'[s] = <<>> /\ Len(pending'[s]) = 0
        /\ \A t \in Sessions \ {s} : pending'[t] = pending[t]
    BY <2>1, EmptySeq DEF MediaInv
  <2>4. ASSUME NEW t \in Sessions
        PROVE  /\ Len(pending'[t]) <= BufferMax
               /\ remote'[t] => pending'[t] = <<>>
               /\ sent'[t] <= spoken'[t]
               /\ \A i \in 1..Len(pending'[t]) : sent'[t] < pending'[t][i] /\ pending'[t][i] <= spoken'[t]
               /\ \A i, j \in 1..Len(pending'[t]) : i < j => pending'[t][i] < pending'[t][j]
    <3>1. CASE t = s
      BY <2>1, <2>3, <3>1, BoundsAssumption DEF MediaInv
    <3>2. CASE t # s
      BY <2>1, <2>2, <2>3, <3>2 DEF MediaInv
    <3>3. QED
      BY <3>1, <3>2
  <2>5. QED
    BY <2>1, <2>2, <2>3, <2>4 DEF MediaInv
<1>24. ASSUME NEW s \in Sessions, Close(s) PROVE MediaInv'
  BY <1>24 DEF Close, MediaInv, eslVars, tableVars, mediaVars, openVars, farVars, Register, Goto
<1>25. ASSUME NEW s \in Sessions, send_audio(s) PROVE MediaInv'
  BY <1>25, SendKeeps
<1>26. ASSUME NEW s \in Sessions, audio_in(s) PROVE MediaInv'
  BY <1>26 DEF audio_in, MediaInv, eslVars, tableVars, mediaVars, openVars, farVars, Register, Goto
<1>27. ASSUME NEW s \in Sessions, on_rtp_datagram(s) PROVE MediaInv'
  <2>1. UNCHANGED spoken /\ flush_pending_audio(s)
    BY <1>27 DEF on_rtp_datagram, openVars
  <2>2. QED
    BY <2>1, FlushKeeps
<1>28. ASSUME NEW s \in Sessions, Probed(s) PROVE MediaInv'
  <2>1. UNCHANGED spoken /\ (flush_pending_audio(s) \/ UNCHANGED <<remote, sent, pending>>)
    BY <1>28 DEF Probed, openVars
  <2>2. QED
    BY <2>1, FlushKeeps DEF MediaInv
<1>29. ASSUME NEW s \in Sessions, rtp_watchdog_loop(s) PROVE MediaInv'
  BY <1>29 DEF rtp_watchdog_loop, MediaInv, eslVars, tableVars, mediaVars, openVars, farVars, Register, Goto
<1>30. ASSUME NEW s \in Sessions, TimePasses(s) PROVE MediaInv'
  BY <1>30 DEF TimePasses, MediaInv, eslVars, tableVars, mediaVars, openVars, farVars, Register, Goto
<1>31. ASSUME NEW s \in Sessions, CustomerHangsUp(s) PROVE MediaInv'
  BY <1>31 DEF CustomerHangsUp, MediaInv, eslVars, tableVars, mediaVars, openVars, farVars, Register, Goto
<1>32. ASSUME NEW p \in Ports, OthersBind(p) PROVE MediaInv'
  BY <1>32 DEF OthersBind, MediaInv, eslVars, tableVars, mediaVars, openVars, farVars, Register, Goto
<1>33. CASE UNCHANGED vars
  BY <1>33 DEF vars, mediaVars, openVars, MediaInv
<1> HIDE DEF MediaInv
<1>34. QED
  BY <1>1, <1>2, <1>3, <1>4, <1>5, <1>6, <1>7, <1>8, <1>9, <1>10, <1>11, <1>12, <1>13, <1>14, <1>15,
     <1>16, <1>17, <1>18, <1>19, <1>20, <1>21, <1>22, <1>23, <1>24, <1>25, <1>26, <1>27, <1>28,
     <1>29, <1>30, <1>31, <1>32, <1>33, ReadCases, Zenon DEF Next, ConnectStep, SessionStep, OpenStep,
     CloseStep

-----------------------------------------------------------------------------
(* Flags and the ESL connection                                            *)

\* Every step keeps FlagInv.
LEMMA FlagStep == FlagInv /\ [Next]_vars => FlagInv'
<1>1. SUFFICES ASSUME FlagInv, [Next]_vars PROVE FlagInv'
  OBVIOUS
<1> USE <1>1
<1>2. ASSUME NEW t \in Sessions \cup {Reader}, TakeConnectLock(t) PROVE FlagInv'
  BY <1>2 DEF TakeConnectLock, FlagInv, eslVars, tableVars, mediaVars, openVars, farVars, Register, Goto
<1>3. ASSUME NEW t \in Sessions \cup {Reader}, Connected(t) PROVE FlagInv'
  BY <1>3 DEF Connected, FlagInv, eslVars, tableVars, mediaVars, openVars, farVars, Register, Goto
<1>4. ASSUME NEW t \in Sessions \cup {Reader}, ConnectFails(t) PROVE FlagInv'
  BY <1>4 DEF ConnectFails, FlagInv, eslVars, tableVars, mediaVars, openVars, farVars, Register, Goto
<1>5. ASSUME NEW u \in Sessions \cup Uuids, NEW name \in {"progress", "hangup", "barge"}, ReadKnown(u, name) PROVE FlagInv'
  <2>1. \E b \in BOOLEAN : telling' = [telling EXCEPT ![Leg(u)] = b]
    <3>1. telling[Leg(u)] \in BOOLEAN
      BY LegType DEF FlagInv
    <3>2. QED
      BY <1>5, <3>1 DEF ReadKnown
  <2>2. UNCHANGED <<heard, stale, probe, channel, others>>
    BY <1>5 DEF ReadKnown, mediaVars
  <2>3. QED
    BY <2>1, <2>2 DEF FlagInv
<1>6. ASSUME NEW u \in Sessions \cup Uuids, NEW name \in {"progress", "hangup", "barge"}, ReadPromote(u, name) PROVE FlagInv'
  <2>1. \E b \in BOOLEAN : telling' = [telling EXCEPT ![Leg(u)] = b]
    <3>1. telling[Leg(u)] \in BOOLEAN
      BY LegType DEF FlagInv
    <3>2. QED
      BY <1>6, <3>1 DEF ReadPromote
  <2>2. UNCHANGED <<heard, stale, probe, channel, others>>
    BY <1>6 DEF ReadPromote, mediaVars
  <2>3. QED
    BY <2>1, <2>2 DEF FlagInv
<1>7. ASSUME NEW u \in Sessions \cup Uuids, NEW name \in {"progress", "hangup", "barge"}, ReadOther(u, name) PROVE FlagInv'
  <2>1. \E b \in BOOLEAN : telling' = [telling EXCEPT ![Leg(u)] = b]
    <3>1. telling[Leg(u)] \in BOOLEAN
      BY LegType DEF FlagInv
    <3>2. QED
      BY <1>7, <3>1 DEF ReadOther
  <2>2. UNCHANGED <<heard, stale, probe, channel, others>>
    BY <1>7 DEF ReadOther, mediaVars
  <2>3. QED
    BY <2>1, <2>2 DEF FlagInv
<1>8. CASE Promoted
  BY <1>8 DEF Promoted, FlagInv, eslVars, tableVars, mediaVars, openVars, farVars, Register, Goto
<1>9. CASE PromoteAttached
  BY <1>9 DEF PromoteAttached, FlagInv, eslVars, tableVars, mediaVars, openVars, farVars, Register, Goto
<1>10. CASE HangupStored
  BY <1>10 DEF HangupStored, FlagInv, eslVars, tableVars, mediaVars, openVars, farVars, Register, Goto
<1>11. CASE ReaderEnsured
  BY <1>11 DEF ReaderEnsured, FlagInv, eslVars, tableVars, mediaVars, openVars, farVars, Register, Goto
<1>12. CASE EslBreaks
  BY <1>12 DEF EslBreaks, FlagInv, eslVars, tableVars, mediaVars, openVars, farVars, Register, Goto
<1>13. CASE ReaderFails
  BY <1>13 DEF ReaderFails, FlagInv, eslVars, tableVars, mediaVars, openVars, farVars, Register, Goto
<1>14. CASE ReaderRestarts
  BY <1>14 DEF ReaderRestarts, FlagInv, eslVars, tableVars, mediaVars, openVars, farVars, Register, Goto
<1>15. ASSUME NEW s \in Sessions, NEW u \in Channels(s), Open(s, u) PROVE FlagInv'
  BY <1>15 DEF Open, FlagInv, eslVars, tableVars, mediaVars, openVars, farVars, Register, Goto
<1>16. ASSUME NEW s \in Sessions, Ensured(s) PROVE FlagInv'
  BY <1>16 DEF Ensured, FlagInv, eslVars, tableVars, mediaVars, openVars, farVars, Register, Goto
<1>17. ASSUME NEW s \in Sessions, Mapped(s) PROVE FlagInv'
  BY <1>17 DEF Mapped, FlagInv, eslVars, tableVars, mediaVars, openVars, farVars, Register, Goto
<1>18. ASSUME NEW s \in Sessions, find_free_udp_port(s) PROVE FlagInv'
  BY <1>18 DEF find_free_udp_port, FlagInv, eslVars, tableVars, mediaVars, openVars, farVars, Register, Goto
<1>19. ASSUME NEW s \in Sessions, open_rtp_runtime(s) PROVE FlagInv'
  BY <1>19 DEF open_rtp_runtime, FlagInv, eslVars, tableVars, mediaVars, openVars, farVars, Register, Goto
<1>20. ASSUME NEW s \in Sessions, direct_uuid_exists(s) PROVE FlagInv'
  BY <1>20 DEF direct_uuid_exists, FlagInv, eslVars, tableVars, mediaVars, openVars, farVars, Register, Goto
<1>21. ASSUME NEW s \in Sessions, AttachSent(s) PROVE FlagInv'
  BY <1>21 DEF AttachSent, FlagInv, eslVars, tableVars, mediaVars, openVars, farVars, Register, Goto
<1>22. ASSUME NEW s \in Sessions, HangupSent(s) PROVE FlagInv'
  BY <1>22 DEF HangupSent, FlagInv, eslVars, tableVars, mediaVars, openVars, farVars, Register, Goto
<1>23. ASSUME NEW s \in Sessions, Detached(s) PROVE FlagInv'
  BY <1>23 DEF Detached, FlagInv, eslVars, tableVars, mediaVars, openVars, farVars, Register, Goto
<1>24. ASSUME NEW s \in Sessions, Close(s) PROVE FlagInv'
  BY <1>24 DEF Close, FlagInv, eslVars, tableVars, mediaVars, openVars, farVars, Register, Goto
<1>25. ASSUME NEW s \in Sessions, send_audio(s) PROVE FlagInv'
  BY <1>25 DEF send_audio, FlagInv, eslVars, tableVars, mediaVars, openVars, farVars, Register, Goto
<1>26. ASSUME NEW s \in Sessions, audio_in(s) PROVE FlagInv'
  BY <1>26 DEF audio_in, FlagInv, eslVars, tableVars, mediaVars, openVars, farVars, Register, Goto
<1>27. ASSUME NEW s \in Sessions, on_rtp_datagram(s) PROVE FlagInv'
  BY <1>27 DEF on_rtp_datagram, FlagInv, eslVars, tableVars, mediaVars, openVars, farVars, Register, Goto
<1>28. ASSUME NEW s \in Sessions, Probed(s) PROVE FlagInv'
  BY <1>28 DEF Probed, FlagInv, eslVars, tableVars, mediaVars, openVars, farVars, Register, Goto
<1>29. ASSUME NEW s \in Sessions, rtp_watchdog_loop(s) PROVE FlagInv'
  BY <1>29 DEF rtp_watchdog_loop, FlagInv, eslVars, tableVars, mediaVars, openVars, farVars, Register, Goto
<1>30. ASSUME NEW s \in Sessions, TimePasses(s) PROVE FlagInv'
  BY <1>30 DEF TimePasses, FlagInv, eslVars, tableVars, mediaVars, openVars, farVars, Register, Goto
<1>31. ASSUME NEW s \in Sessions, CustomerHangsUp(s) PROVE FlagInv'
  BY <1>31 DEF CustomerHangsUp, FlagInv, eslVars, tableVars, mediaVars, openVars, farVars, Register, Goto
<1>32. ASSUME NEW p \in Ports, OthersBind(p) PROVE FlagInv'
  BY <1>32 DEF OthersBind, FlagInv, eslVars, tableVars, mediaVars, openVars, farVars, Register, Goto
<1>33. CASE UNCHANGED vars
  BY <1>33 DEF vars, mediaVars, farVars, FlagInv
<1> HIDE DEF FlagInv
<1>34. QED
  BY <1>1, <1>2, <1>3, <1>4, <1>5, <1>6, <1>7, <1>8, <1>9, <1>10, <1>11, <1>12, <1>13, <1>14, <1>15,
     <1>16, <1>17, <1>18, <1>19, <1>20, <1>21, <1>22, <1>23, <1>24, <1>25, <1>26, <1>27, <1>28,
     <1>29, <1>30, <1>31, <1>32, <1>33, ReadCases, Zenon DEF Next, ConnectStep, SessionStep, OpenStep,
     CloseStep

\* A command or an attempt counts at most one more failure, within the bound.
LEMMA FaultType ==
    ASSUME EslInv, Fault \/ UNCHANGED faults
    PROVE  faults' \in 0..MaxFaults
  BY BoundsAssumption DEF EslInv, Fault

\* The reader is in the middle of a hang-up, or done with the event.
LEMMA ApplyType ==
    ASSUME NEW u \in Sessions \cup Uuids, NEW name \in {"progress", "hangup", "barge"}, Apply(u, name)
    PROVE  /\ reader' \in {"handling", "ensuring"}
           /\ evt' \in Evts
           /\ evt'.step # "none" => evt'.uuid # NoUuid /\ evt'.name # "none"
<1>1. evt' = [step |-> "storing", uuid |-> u, name |-> name] \/ evt' = NoEvent
  BY DEF Apply
<1>2. u # NoUuid
  BY OriginAssumption
<1>3. reader' \in {"handling", "ensuring"}
  BY DEF Apply
<1>4. QED
  BY <1>1, <1>2, <1>3 DEF Evts, NoEvent

\* Every step keeps EslInv.
LEMMA EslStep == EslInv /\ [Next]_vars => EslInv'
<1>1. SUFFICES ASSUME EslInv, [Next]_vars PROVE EslInv'
  OBVIOUS
<1> USE <1>1
<1>2. ASSUME NEW t \in Sessions \cup {Reader}, TakeConnectLock(t) PROVE EslInv'
  BY <1>2, BoundsAssumption DEF TakeConnectLock, EslInv
<1>3. ASSUME NEW t \in Sessions \cup {Reader}, Connected(t) PROVE EslInv'
  <2>1. /\ UNCHANGED <<evt, faults>> /\ attempts' = 0 /\ connecting' = Nobody /\ esl' = "up"
        /\ reader' \in {"reading", "ensuring", reader}
    BY <1>3 DEF Connected, connect
  <2>2. QED
    BY <2>1, BoundsAssumption DEF EslInv
<1>4. ASSUME NEW t \in Sessions \cup {Reader}, ConnectFails(t) PROVE EslInv'
  <2>1. faults' \in 0..MaxFaults
    BY <1>4, FaultType DEF ConnectFails, connect
  <2>2. /\ UNCHANGED <<esl, evt>> /\ connecting' \in {connecting, Nobody}
        /\ reader' \in {"closing", reader}
    BY <1>4 DEF ConnectFails
  <2>3. attempts' \in 0..Attempts
    BY <1>4, BoundsAssumption DEF ConnectFails, EslInv
  <2>4. QED
    BY <2>1, <2>2, <2>3 DEF EslInv
<1>5. ASSUME NEW u \in Sessions \cup Uuids, NEW name \in {"progress", "hangup", "barge"}, ReadKnown(u, name) PROVE EslInv'
  <2>1. UNCHANGED <<esl, connecting, attempts, faults>> /\ Apply(u, name)
    BY <1>5 DEF ReadKnown
  <2>2. QED
    BY <2>1, ApplyType DEF EslInv
<1>6. ASSUME NEW u \in Sessions \cup Uuids, NEW name \in {"progress", "hangup", "barge"}, ReadPromote(u, name) PROVE EslInv'
  <2>1. /\ UNCHANGED <<esl, connecting, attempts, faults>> /\ reader' = "handling"
        /\ evt' = [step |-> "mapping", uuid |-> u, name |-> name]
    BY <1>6 DEF ReadPromote
  <2>2. u # NoUuid
    BY OriginAssumption
  <2>3. QED
    BY <2>1, <2>2 DEF EslInv, Evts
<1>7. ASSUME NEW u \in Sessions \cup Uuids, NEW name \in {"progress", "hangup", "barge"}, ReadOther(u, name) PROVE EslInv'
  BY <1>7 DEF ReadOther, EslInv
<1>8. CASE Promoted
  <2>1. evt \in Evts /\ evt.uuid # NoUuid /\ evt.name # "none" /\ evt.step = "mapping"
    BY <1>8 DEF Promoted, EslInv
  <2>2. UNCHANGED <<esl, connecting, attempts, faults>>
    BY <1>8 DEF Promoted
  <2>3. CASE evt' = [evt EXCEPT !.step = "attaching"] /\ UNCHANGED reader
    BY <2>1, <2>2, <2>3 DEF EslInv, Evts
  <2>4. CASE Apply(evt.uuid, evt.name)
    <3>1. evt.uuid \in Sessions \cup Uuids /\ evt.name \in {"progress", "hangup", "barge"}
      BY <2>1 DEF Evts
    <3>2. QED
      BY <2>2, <2>4, <3>1, ApplyType DEF EslInv
  <2>5. QED
    BY <1>8, <2>3, <2>4 DEF Promoted
<1>9. CASE PromoteAttached
  <2>1. evt.uuid \in Sessions \cup Uuids /\ evt.name \in {"progress", "hangup", "barge"}
    BY <1>9 DEF PromoteAttached, EslInv, Evts
  <2>2. faults' \in 0..MaxFaults
    BY <1>9, FaultType DEF PromoteAttached, run_attach_command, Sends, SendFails
  <2>3. UNCHANGED <<esl, connecting, attempts>> /\ Apply(evt.uuid, evt.name)
    BY <1>9 DEF PromoteAttached
  <2>4. QED
    BY <2>1, <2>2, <2>3, ApplyType DEF EslInv
<1>10. CASE HangupStored
  <2>1. UNCHANGED <<esl, connecting, attempts, faults>> /\ reader' = "ensuring" /\ evt' = NoEvent
    BY <1>10 DEF HangupStored
  <2>2. QED
    BY <2>1 DEF EslInv, Evts, NoEvent
<1>11. CASE ReaderEnsured
  BY <1>11 DEF ReaderEnsured, EslInv, eslVars, tableVars, mediaVars, openVars, farVars, Register, Goto
<1>12. CASE EslBreaks
  <2>1. faults' \in 0..MaxFaults
    BY <1>12, FaultType DEF EslBreaks
  <2>2. QED
    BY <1>12, <2>1 DEF EslBreaks, EslInv
<1>13. CASE ReaderFails
  BY <1>13 DEF ReaderFails, EslInv, eslVars, tableVars, mediaVars, openVars, farVars, Register, Goto
<1>14. CASE ReaderRestarts
  BY <1>14 DEF ReaderRestarts, EslInv, eslVars, tableVars, mediaVars, openVars, farVars, Register, Goto
<1>15. ASSUME NEW s \in Sessions, NEW u \in Channels(s), Open(s, u) PROVE EslInv'
  BY <1>15 DEF Open, EslInv, eslVars, tableVars, mediaVars, openVars, farVars, Register, Goto
<1>16. ASSUME NEW s \in Sessions, Ensured(s) PROVE EslInv'
  BY <1>16 DEF Ensured, EslInv, eslVars, tableVars, mediaVars, openVars, farVars, Register, Goto
<1>17. ASSUME NEW s \in Sessions, Mapped(s) PROVE EslInv'
  BY <1>17 DEF Mapped, EslInv, eslVars, tableVars, mediaVars, openVars, farVars, Register, Goto
<1>18. ASSUME NEW s \in Sessions, find_free_udp_port(s) PROVE EslInv'
  BY <1>18 DEF find_free_udp_port, EslInv, eslVars, tableVars, mediaVars, openVars, farVars, Register, Goto
<1>19. ASSUME NEW s \in Sessions, open_rtp_runtime(s) PROVE EslInv'
  BY <1>19 DEF open_rtp_runtime, EslInv, eslVars, tableVars, mediaVars, openVars, farVars, Register, Goto
<1>20. ASSUME NEW s \in Sessions, direct_uuid_exists(s) PROVE EslInv'
  BY <1>20 DEF direct_uuid_exists, EslInv, eslVars, tableVars, mediaVars, openVars, farVars, Register, Goto
<1>21. ASSUME NEW s \in Sessions, AttachSent(s) PROVE EslInv'
  <2>1. faults' \in 0..MaxFaults
    BY <1>21, FaultType DEF AttachSent, run_attach_command, Sends, SendFails
  <2>2. UNCHANGED <<esl, connecting, attempts, reader, evt>>
    BY <1>21 DEF AttachSent
  <2>3. QED
    BY <2>1, <2>2 DEF EslInv
<1>22. ASSUME NEW s \in Sessions, HangupSent(s) PROVE EslInv'
  <2>1. faults' \in 0..MaxFaults
    BY <1>22, FaultType DEF HangupSent, run_hangup_command, Sends, SendFails
  <2>2. UNCHANGED <<esl, connecting, attempts, reader, evt>>
    BY <1>22 DEF HangupSent
  <2>3. QED
    BY <2>1, <2>2 DEF EslInv
<1>23. ASSUME NEW s \in Sessions, Detached(s) PROVE EslInv'
  BY <1>23 DEF Detached, EslInv, eslVars, tableVars, mediaVars, openVars, farVars, Register, Goto
<1>24. ASSUME NEW s \in Sessions, Close(s) PROVE EslInv'
  BY <1>24 DEF Close, EslInv, eslVars, tableVars, mediaVars, openVars, farVars, Register, Goto
<1>25. ASSUME NEW s \in Sessions, send_audio(s) PROVE EslInv'
  BY <1>25 DEF send_audio, EslInv, eslVars, tableVars, mediaVars, openVars, farVars, Register, Goto
<1>26. ASSUME NEW s \in Sessions, audio_in(s) PROVE EslInv'
  BY <1>26 DEF audio_in, EslInv, eslVars, tableVars, mediaVars, openVars, farVars, Register, Goto
<1>27. ASSUME NEW s \in Sessions, on_rtp_datagram(s) PROVE EslInv'
  BY <1>27 DEF on_rtp_datagram, EslInv, eslVars, tableVars, mediaVars, openVars, farVars, Register, Goto
<1>28. ASSUME NEW s \in Sessions, Probed(s) PROVE EslInv'
  BY <1>28 DEF Probed, EslInv, eslVars, tableVars, mediaVars, openVars, farVars, Register, Goto
<1>29. ASSUME NEW s \in Sessions, rtp_watchdog_loop(s) PROVE EslInv'
  BY <1>29 DEF rtp_watchdog_loop, EslInv, eslVars, tableVars, mediaVars, openVars, farVars, Register, Goto
<1>30. ASSUME NEW s \in Sessions, TimePasses(s) PROVE EslInv'
  BY <1>30 DEF TimePasses, EslInv, eslVars, tableVars, mediaVars, openVars, farVars, Register, Goto
<1>31. ASSUME NEW s \in Sessions, CustomerHangsUp(s) PROVE EslInv'
  BY <1>31 DEF CustomerHangsUp, EslInv, eslVars, tableVars, mediaVars, openVars, farVars, Register, Goto
<1>32. ASSUME NEW p \in Ports, OthersBind(p) PROVE EslInv'
  BY <1>32 DEF OthersBind, EslInv, eslVars, tableVars, mediaVars, openVars, farVars, Register, Goto
<1>33. CASE UNCHANGED vars
  BY <1>33 DEF vars, eslVars, EslInv
<1> HIDE DEF EslInv
<1>34. QED
  BY <1>1, <1>2, <1>3, <1>4, <1>5, <1>6, <1>7, <1>8, <1>9, <1>10, <1>11, <1>12, <1>13, <1>14, <1>15,
     <1>16, <1>17, <1>18, <1>19, <1>20, <1>21, <1>22, <1>23, <1>24, <1>25, <1>26, <1>27, <1>28,
     <1>29, <1>30, <1>31, <1>32, <1>33, ReadCases, Zenon DEF Next, ConnectStep, SessionStep, OpenStep,
     CloseStep

-----------------------------------------------------------------------------
(* Events for the bridge                                                   *)

\* An event is queued for a session in the tables, within the bound.
LEMMA QueueKeeps ==
    ASSUME QueueInv, NEW s \in Sessions, NEW e \in MediaEvents, queue_event(s, e), UNCHANGED handles
    PROVE  QueueInv'
<1>1. CASE s \notin handles
  BY <1>1 DEF queue_event, QueueInv
<1>2. CASE s \in handles
  <2>1. PICK q : q = Append(IF Len(queue[s]) >= QueueMax THEN Tail(queue[s]) ELSE queue[s], e)
    OBVIOUS
  <2>2. queue' = [queue EXCEPT ![s] = q] /\ lost' \subseteq lost \cup {s}
    BY <1>2, <2>1 DEF queue_event, Queued
  <2>3. queue[s] \in Seq(MediaEvents) /\ Len(queue[s]) <= QueueMax /\ QueueMax \in Nat \ {0}
    BY BoundsAssumption DEF QueueInv
  <2>4. q \in Seq(MediaEvents) /\ Len(q) <= QueueMax
    BY <2>1, <2>3, BoundedAppend
  <2>5. QED
    BY <1>2, <2>2, <2>4 DEF QueueInv
<1>3. QED
  BY <1>1, <1>2

\* Every step keeps QueueInv.
LEMMA QueueStep == QueueInv /\ EslInv /\ [Next]_vars => QueueInv'
<1>1. SUFFICES ASSUME QueueInv, EslInv, [Next]_vars PROVE QueueInv'
  OBVIOUS
<1> USE <1>1
<1>2. ASSUME NEW t \in Sessions \cup {Reader}, TakeConnectLock(t) PROVE QueueInv'
  BY <1>2 DEF TakeConnectLock, QueueInv, eslVars, tableVars, mediaVars, openVars, farVars
<1>3. ASSUME NEW t \in Sessions \cup {Reader}, Connected(t) PROVE QueueInv'
  <2>1. \/ UNCHANGED <<queue, lost, handles>>
        \/ /\ t \in Sessions /\ queue' = [queue EXCEPT ![t] = <<>>] /\ handles' = handles \cup {t}
           /\ UNCHANGED lost
    BY <1>3 DEF Connected, Register, tableVars
  <2>2. CASE UNCHANGED <<queue, lost, handles>>
    BY <2>2 DEF QueueInv
  <2>3. CASE t \in Sessions /\ queue' = [queue EXCEPT ![t] = <<>>] /\ handles' = handles \cup {t} /\ UNCHANGED lost
    BY <2>3, EmptySeq, BoundsAssumption DEF QueueInv
  <2>4. QED
    BY <2>1, <2>2, <2>3
<1>4. ASSUME NEW t \in Sessions \cup {Reader}, ConnectFails(t) PROVE QueueInv'
  BY <1>4 DEF ConnectFails, QueueInv, eslVars, tableVars, mediaVars, openVars, farVars
<1>5. ASSUME NEW u \in Sessions \cup Uuids, NEW name \in {"progress", "hangup", "barge"}, ReadKnown(u, name) PROVE QueueInv'
  <2>1. UNCHANGED handles /\ (UNCHANGED <<queue, lost>> \/ queue_event(Leg(u), "barge"))
    BY <1>5 DEF ReadKnown, Apply
  <2>2. "barge" \in MediaEvents
    BY DEF MediaEvents
  <2>3. QED
    BY <2>1, <2>2, LegType, QueueKeeps DEF QueueInv
<1>6. ASSUME NEW u \in Sessions \cup Uuids, NEW name \in {"progress", "hangup", "barge"}, ReadPromote(u, name) PROVE QueueInv'
  BY <1>6 DEF ReadPromote, QueueInv, eslVars, tableVars, mediaVars, openVars, farVars
<1>7. ASSUME NEW u \in Sessions \cup Uuids, NEW name \in {"progress", "hangup", "barge"}, ReadOther(u, name) PROVE QueueInv'
  BY <1>7 DEF ReadOther, QueueInv, eslVars, tableVars, mediaVars, openVars, farVars
<1>8. CASE Promoted
  <2>1. Leg(evt.uuid) \in Sessions
    BY <1>8, LegType DEF Promoted, EslInv, Evts
  <2>2. UNCHANGED handles /\ (UNCHANGED <<queue, lost>> \/ queue_event(Leg(evt.uuid), "barge"))
    BY <1>8 DEF Promoted, Apply
  <2>3. "barge" \in MediaEvents
    BY DEF MediaEvents
  <2>4. QED
    BY <2>1, <2>2, <2>3, QueueKeeps DEF QueueInv
<1>9. CASE PromoteAttached
  <2>1. Leg(evt.uuid) \in Sessions
    BY <1>9, LegType DEF PromoteAttached, EslInv, Evts
  <2>2. UNCHANGED handles /\ (UNCHANGED <<queue, lost>> \/ queue_event(Leg(evt.uuid), "barge"))
    BY <1>9 DEF PromoteAttached, Apply
  <2>3. "barge" \in MediaEvents
    BY DEF MediaEvents
  <2>4. QED
    BY <2>1, <2>2, <2>3, QueueKeeps DEF QueueInv
<1>10. CASE HangupStored
  <2>1. Leg(evt.uuid) \in Sessions /\ "hangup" \in MediaEvents
    BY <1>10, LegType DEF HangupStored, EslInv, Evts, MediaEvents
  <2>2. UNCHANGED handles /\ queue_event(Leg(evt.uuid), "hangup")
    BY <1>10 DEF HangupStored
  <2>3. QED
    BY <2>1, <2>2, QueueKeeps
<1>11. CASE ReaderEnsured
  BY <1>11 DEF ReaderEnsured, QueueInv, eslVars, tableVars, mediaVars, openVars, farVars
<1>12. CASE EslBreaks
  BY <1>12 DEF EslBreaks, QueueInv, eslVars, tableVars, mediaVars, openVars, farVars
<1>13. CASE ReaderFails
  BY <1>13 DEF ReaderFails, QueueInv, eslVars, tableVars, mediaVars, openVars, farVars
<1>14. CASE ReaderRestarts
  BY <1>14 DEF ReaderRestarts, QueueInv, eslVars, tableVars, mediaVars, openVars, farVars
<1>15. ASSUME NEW s \in Sessions, NEW u \in Channels(s), Open(s, u) PROVE QueueInv'
  BY <1>15 DEF Open, QueueInv, eslVars, tableVars, mediaVars, openVars, farVars
<1>16. ASSUME NEW s \in Sessions, Ensured(s) PROVE QueueInv'
  <2>1. queue' = [queue EXCEPT ![s] = <<>>] /\ handles' = handles \cup {s} /\ UNCHANGED lost
    BY <1>16 DEF Ensured, Register
  <2>2. QED
    BY <2>1, EmptySeq, BoundsAssumption DEF QueueInv
<1>17. ASSUME NEW s \in Sessions, Mapped(s) PROVE QueueInv'
  BY <1>17 DEF Mapped, QueueInv, eslVars, tableVars, mediaVars, openVars, farVars
<1>18. ASSUME NEW s \in Sessions, find_free_udp_port(s) PROVE QueueInv'
  BY <1>18 DEF find_free_udp_port, QueueInv, eslVars, tableVars, mediaVars, openVars, farVars
<1>19. ASSUME NEW s \in Sessions, open_rtp_runtime(s) PROVE QueueInv'
  BY <1>19 DEF open_rtp_runtime, QueueInv, eslVars, tableVars, mediaVars, openVars, farVars
<1>20. ASSUME NEW s \in Sessions, direct_uuid_exists(s) PROVE QueueInv'
  BY <1>20 DEF direct_uuid_exists, QueueInv, eslVars, tableVars, mediaVars, openVars, farVars
<1>21. ASSUME NEW s \in Sessions, AttachSent(s) PROVE QueueInv'
  BY <1>21 DEF AttachSent, QueueInv, eslVars, tableVars, mediaVars, openVars, farVars
<1>22. ASSUME NEW s \in Sessions, HangupSent(s) PROVE QueueInv'
  BY <1>22 DEF HangupSent, QueueInv, eslVars, tableVars, mediaVars, openVars, farVars
<1>23. ASSUME NEW s \in Sessions, Detached(s) PROVE QueueInv'
  <2>1. queue' = [queue EXCEPT ![s] = <<>>] /\ handles' = handles \ {s} /\ UNCHANGED lost
    BY <1>23 DEF Detached
  <2>2. QED
    BY <2>1, EmptySeq, BoundsAssumption DEF QueueInv
<1>24. ASSUME NEW s \in Sessions, Close(s) PROVE QueueInv'
  BY <1>24 DEF Close, QueueInv, eslVars, tableVars, mediaVars, openVars, farVars
<1>25. ASSUME NEW s \in Sessions, send_audio(s) PROVE QueueInv'
  BY <1>25 DEF send_audio, QueueInv, eslVars, tableVars, mediaVars, openVars, farVars
<1>26. ASSUME NEW s \in Sessions, audio_in(s) PROVE QueueInv'
  <2>1. /\ queue[s] # <<>> /\ queue' = [queue EXCEPT ![s] = Tail(queue[s])]
        /\ UNCHANGED <<handles, lost>>
    BY <1>26 DEF audio_in, events
  <2>2. Tail(queue[s]) \in Seq(MediaEvents) /\ Len(Tail(queue[s])) = Len(queue[s]) - 1
    BY <2>1, HeadTailProperties DEF QueueInv
  <2>3. Len(queue[s]) \in Nat /\ Len(Tail(queue[s])) <= QueueMax
    BY <2>2, LenProperties, BoundsAssumption DEF QueueInv
  <2>4. QED
    BY <2>1, <2>2, <2>3 DEF QueueInv
<1>27. ASSUME NEW s \in Sessions, on_rtp_datagram(s) PROVE QueueInv'
  <2>1. UNCHANGED handles /\ (queue_event(s, "audio") \/ UNCHANGED <<queue, lost>>)
    BY <1>27 DEF on_rtp_datagram
  <2>2. "audio" \in MediaEvents
    BY DEF MediaEvents
  <2>3. QED
    BY <2>1, <2>2, QueueKeeps DEF QueueInv
<1>28. ASSUME NEW s \in Sessions, Probed(s) PROVE QueueInv'
  BY <1>28 DEF Probed, QueueInv, eslVars, tableVars, mediaVars, openVars, farVars
<1>29. ASSUME NEW s \in Sessions, rtp_watchdog_loop(s) PROVE QueueInv'
  <2>1. UNCHANGED handles /\ queue_event(s, "hangup") /\ "hangup" \in MediaEvents
    BY <1>29 DEF rtp_watchdog_loop, MediaEvents
  <2>2. QED
    BY <2>1, QueueKeeps
<1>30. ASSUME NEW s \in Sessions, TimePasses(s) PROVE QueueInv'
  BY <1>30 DEF TimePasses, QueueInv, eslVars, tableVars, mediaVars, openVars, farVars
<1>31. ASSUME NEW s \in Sessions, CustomerHangsUp(s) PROVE QueueInv'
  BY <1>31 DEF CustomerHangsUp, QueueInv, eslVars, tableVars, mediaVars, openVars, farVars
<1>32. ASSUME NEW p \in Ports, OthersBind(p) PROVE QueueInv'
  BY <1>32 DEF OthersBind, QueueInv, eslVars, tableVars, mediaVars, openVars, farVars
<1>33. CASE UNCHANGED vars
  BY <1>33 DEF vars, tableVars, QueueInv
<1> HIDE DEF QueueInv
<1>34. QED
  BY <1>1, <1>2, <1>3, <1>4, <1>5, <1>6, <1>7, <1>8, <1>9, <1>10, <1>11, <1>12, <1>13, <1>14, <1>15,
     <1>16, <1>17, <1>18, <1>19, <1>20, <1>21, <1>22, <1>23, <1>24, <1>25, <1>26, <1>27, <1>28,
     <1>29, <1>30, <1>31, <1>32, <1>33, ReadCases, Zenon DEF Next, ConnectStep, SessionStep, OpenStep,
     CloseStep

-----------------------------------------------------------------------------
(* The tables                                                              *)

\* The places in the order open() and close() pass through them.
LEMMA PlaceFacts ==
    /\ Entered \subseteq Places /\ {"idle", "ensuring", "refused", "closed"} \subseteq Places \ Entered
    /\ Attaching \cup {"leaked", "open", "over", "watchdog", "hangup"} \subseteq Entered
    /\ Closing = {"watchdog", "hangup"} /\ "open" \notin Attaching
  BY DEF Places, Entered, Attaching, Failed, Closing

\* A session moves to another place.
LEMMA GotoEffect ==
    ASSUME TableInv, NEW s \in Sessions, NEW where \in Places, Goto(s, where)
    PROVE  /\ at' \in [Sessions -> Places] /\ at'[s] = where
           /\ \A t \in Sessions \ {s} : at'[t] = at[t]
  BY DEF TableInv, Goto

\* A session enters the tables.
LEMMA RegisterKeeps ==
    ASSUME TableInv, NEW s \in Sessions, at[s] = "ensuring", Register(s),
           UNCHANGED <<provider, picked, isOpen>>,
           connecting' \in Sessions => connecting' = connecting /\ connecting # s
    PROVE  TableInv'
<1>1. "mapping" \in Entered \ Closing /\ "mapping" \in Places /\ "mapping" # "open"
  BY DEF Entered, Places, Attaching, Closing
<1>2. /\ at' \in [Sessions -> Places] /\ at'[s] = "mapping"
      /\ \A t \in Sessions \ {s} : at'[t] = at[t]
  BY <1>1, GotoEffect DEF Register
<1>3. provider[s] \in Sessions \cup Uuids /\ provider[s] # NoUuid
  BY OriginAssumption DEF TableInv
<1>4. /\ corr' \in [Sessions -> Sessions \cup Uuids \cup {NoUuid}] /\ corr'[s] # NoUuid
      /\ \A t \in Sessions \ {s} : corr'[t] = corr[t]
  BY <1>3 DEF Register, TableInv
<1>5. /\ handles' = handles \cup {s} /\ uuids' = uuids \cup {provider[s]}
      /\ UNCHANGED <<port, watchdog>>
  BY DEF Register
<1>6. QED
  BY <1>1, <1>2, <1>3, <1>4, <1>5 DEF TableInv

\* A correlation is replaced, never made.
LEMMA CorrelationKeeps ==
    ASSUME TableInv, NEW u \in Sessions \cup Uuids, update_correlation(u),
           UNCHANGED <<handles, port, watchdog, at, provider, picked, isOpen, connecting>>
    PROVE  TableInv'
<1>1. u # NoUuid /\ Leg(u) \in Sessions
  BY OriginAssumption, LegType
<1>2. uuids' = uuids \cup {u} /\ (corr' = corr \/ (corr[Leg(u)] # NoUuid /\ corr' = [corr EXCEPT ![Leg(u)] = u]))
  BY DEF update_correlation
<1>3. /\ corr' \in [Sessions -> Sessions \cup Uuids \cup {NoUuid}]
      /\ \A t \in Sessions : corr'[t] # NoUuid <=> corr[t] # NoUuid
  BY <1>1, <1>2 DEF TableInv
<1>4. QED
  BY <1>2, <1>3 DEF TableInv

\* Every step keeps TableInv.
LEMMA TableStep == TableInv /\ EslInv /\ [Next]_vars => TableInv'
<1>1. SUFFICES ASSUME TableInv, EslInv, [Next]_vars PROVE TableInv'
  OBVIOUS
<1> USE <1>1
<1>2. ASSUME NEW t \in Sessions \cup {Reader}, TakeConnectLock(t) PROVE TableInv'
  <2>1. UNCHANGED <<tableVars, openVars>> /\ connecting' = t /\ Wants(t)
    BY <1>2 DEF TakeConnectLock
  <2>2. t \in Sessions => at[t] = "ensuring"
    BY <2>1, TasksAssumption DEF Wants
  <2>3. QED
    BY <2>1, <2>2 DEF TableInv, tableVars, openVars
<1>3. ASSUME NEW t \in Sessions \cup {Reader}, Connected(t) PROVE TableInv'
  <2>1. connecting = t /\ connecting' = Nobody /\ UNCHANGED <<provider, picked, isOpen>>
    BY <1>3 DEF Connected
  <2>2. Nobody \notin Sessions
    BY TasksAssumption
  <2>3. CASE t = Reader
    <3>1. UNCHANGED <<tableVars, at>>
      BY <1>3, <2>3 DEF Connected
    <3>2. QED
      BY <2>1, <2>2, <3>1 DEF TableInv, tableVars
  <2>4. CASE t # Reader
    <3>1. t \in Sessions /\ at[t] = "ensuring" /\ Register(t)
      BY <1>3, <2>1, <2>4 DEF Connected, TableInv
    <3>2. QED
      BY <2>1, <2>2, <3>1, RegisterKeeps
  <2>5. QED
    BY <2>3, <2>4
<1>4. ASSUME NEW t \in Sessions \cup {Reader}, ConnectFails(t) PROVE TableInv'
  <2>1. connecting = t /\ UNCHANGED <<tableVars, provider, picked, isOpen>>
    BY <1>4 DEF ConnectFails
  <2>2. CASE UNCHANGED at /\ connecting' \in {connecting, Nobody}
    BY <2>1, <2>2, TasksAssumption DEF TableInv, tableVars
  <2>3. CASE t # Reader /\ connecting' = Nobody /\ Goto(t, "refused")
    <3>1. t \in Sessions /\ at[t] = "ensuring" /\ Nobody \notin Sessions
      BY <2>1, <2>3, TasksAssumption DEF TableInv
    <3>2. /\ at' \in [Sessions -> Places] /\ at'[t] = "refused"
          /\ \A s \in Sessions \ {t} : at'[s] = at[s]
      BY <2>3, <3>1, PlaceFacts, GotoEffect
    <3>3. QED
      BY <2>1, <2>3, <3>1, <3>2, PlaceFacts DEF TableInv, tableVars
  <2>4. QED
    BY <1>4, <2>2, <2>3 DEF ConnectFails
<1>5. ASSUME NEW u \in Sessions \cup Uuids, NEW name \in {"progress", "hangup", "barge"}, ReadKnown(u, name) PROVE TableInv'
  <2>1. /\ UNCHANGED <<handles, port, watchdog, at, provider, picked, isOpen, connecting>>
        /\ update_correlation(u)
    BY <1>5 DEF ReadKnown, openVars
  <2>2. QED
    BY <2>1, CorrelationKeeps
<1>6. ASSUME NEW u \in Sessions \cup Uuids, NEW name \in {"progress", "hangup", "barge"}, ReadPromote(u, name) PROVE TableInv'
  <2>1. /\ UNCHANGED <<handles, port, watchdog, at, provider, picked, isOpen, connecting>>
        /\ update_correlation(u)
    BY <1>6 DEF ReadPromote, openVars
  <2>2. QED
    BY <2>1, CorrelationKeeps
<1>7. ASSUME NEW u \in Sessions \cup Uuids, NEW name \in {"progress", "hangup", "barge"}, ReadOther(u, name) PROVE TableInv'
  BY <1>7 DEF ReadOther, TableInv, eslVars, tableVars, mediaVars, openVars, farVars
<1>8. CASE Promoted
  BY <1>8 DEF Promoted, TableInv, eslVars, tableVars, mediaVars, openVars, farVars
<1>9. CASE PromoteAttached
  BY <1>9 DEF PromoteAttached, TableInv, eslVars, tableVars, mediaVars, openVars, farVars
<1>10. CASE HangupStored
  BY <1>10 DEF HangupStored, TableInv, eslVars, tableVars, mediaVars, openVars, farVars
<1>11. CASE ReaderEnsured
  BY <1>11 DEF ReaderEnsured, TableInv, eslVars, tableVars, mediaVars, openVars, farVars
<1>12. CASE EslBreaks
  BY <1>12 DEF EslBreaks, TableInv, eslVars, tableVars, mediaVars, openVars, farVars
<1>13. CASE ReaderFails
  BY <1>13 DEF ReaderFails, TableInv, eslVars, tableVars, mediaVars, openVars, farVars
<1>14. CASE ReaderRestarts
  BY <1>14 DEF ReaderRestarts, TableInv, eslVars, tableVars, mediaVars, openVars, farVars
<1>15. ASSUME NEW s \in Sessions, NEW u \in Channels(s), Open(s, u) PROVE TableInv'
  <2>1. /\ at[s] = "idle" /\ Goto(s, "ensuring")
        /\ UNCHANGED <<handles, uuids, corr, port, watchdog, picked, isOpen, connecting>>
        /\ provider' = [provider EXCEPT ![s] = u] /\ u \in Sessions \cup Uuids
    BY <1>15 DEF Open, eslVars, tableVars, Channels
  <2>2. /\ at' \in [Sessions -> Places] /\ at'[s] = "ensuring"
        /\ \A t \in Sessions \ {s} : at'[t] = at[t]
    BY <2>1, PlaceFacts, GotoEffect DEF Attaching
  <2>3. QED
    BY <2>1, <2>2, PlaceFacts DEF TableInv, Attaching
<1>16. ASSUME NEW s \in Sessions, Ensured(s) PROVE TableInv'
  <2>1. /\ at[s] = "ensuring" /\ connecting # s /\ Register(s)
        /\ UNCHANGED <<provider, picked, isOpen, connecting>>
    BY <1>16 DEF Ensured, eslVars
  <2>2. QED
    BY <2>1, RegisterKeeps
<1>17. ASSUME NEW s \in Sessions, Mapped(s) PROVE TableInv'
  <2>1. /\ at[s] = "mapping" /\ Goto(s, "probing")
        /\ UNCHANGED <<handles, uuids, corr, port, watchdog, provider, picked, isOpen, connecting>>
    BY <1>17 DEF Mapped, eslVars, tableVars
  <2>2. /\ at' \in [Sessions -> Places] /\ at'[s] = "probing"
        /\ \A t \in Sessions \ {s} : at'[t] = at[t]
    BY <2>1, PlaceFacts, GotoEffect DEF Attaching
  <2>3. QED
    BY <2>1, <2>2, PlaceFacts DEF TableInv, Attaching
<1>18. ASSUME NEW s \in Sessions, find_free_udp_port(s) PROVE TableInv'
  <2>1. /\ at[s] = "probing"
        /\ UNCHANGED <<handles, uuids, corr, port, watchdog, provider, isOpen, connecting>>
    BY <1>18 DEF find_free_udp_port, eslVars, tableVars
  <2>2. PICK where \in {"binding", "leaked"} : Goto(s, where)
    BY <1>18 DEF find_free_udp_port
  <2>3. picked' \in [Sessions -> Ports \cup {NoPort}]
    <3>1. CASE ~\E p \in Ports : Free(p)
      BY <1>18, <3>1 DEF find_free_udp_port, TableInv
    <3>2. CASE \E p \in Ports : Free(p)
      <4>1. PICK p \in {q \in Ports : Free(q)} : \A q \in {k \in Ports : Free(k)} : p <= q
        <5> DEFINE F == {q \in Ports : Free(q)}
        <5>1. F \subseteq Nat /\ F # {}
          BY <3>2, PortsAssumption
        <5> HIDE DEF F
        <5>2. \E p \in F : \A q \in F : p <= q
          BY <5>1, FirstFree
        <5>3. QED
          BY <5>2 DEF F
      <4>2. \E q \in Ports : Free(q) /\ \A k \in Ports : Free(k) => q <= k
        BY <4>1
      <4> DEFINE first == CHOOSE q \in Ports : Free(q) /\ \A k \in Ports : Free(k) => q <= k
      <4>3. first \in Ports
        BY <4>2
      <4>4. picked' = [picked EXCEPT ![s] = first]
        BY <1>18, <3>2 DEF find_free_udp_port
      <4> HIDE DEF first
      <4>5. QED
        BY <4>3, <4>4 DEF TableInv
    <3>3. QED
      BY <3>1, <3>2
  <2>4. where \in Entered \ Closing /\ where \in Places /\ where # "open" /\ where # "ensuring"
    BY PlaceFacts DEF Attaching
  <2>5. /\ at' \in [Sessions -> Places] /\ at'[s] = where
        /\ \A t \in Sessions \ {s} : at'[t] = at[t]
    BY <2>2, <2>4, GotoEffect
  <2>6. QED
    BY <2>1, <2>3, <2>4, <2>5, PlaceFacts DEF TableInv, Attaching
<1>19. ASSUME NEW s \in Sessions, open_rtp_runtime(s) PROVE TableInv'
  <2>1. at[s] = "binding" /\ UNCHANGED <<handles, uuids, corr, provider, isOpen, connecting>>
    BY <1>19 DEF open_rtp_runtime, eslVars
  <2>2. PICK where \in {"checking", "commanding", "leaked"} : Goto(s, where)
    BY <1>19 DEF open_rtp_runtime
  <2>3. /\ port' \in [Sessions -> Ports \cup {NoPort}] /\ picked' \in [Sessions -> Ports \cup {NoPort}]
        /\ watchdog' \in [Sessions -> {"none", "running", "returned"}]
        /\ \A t \in Sessions \ {s} : port'[t] = port[t] /\ watchdog'[t] = watchdog[t]
    BY <1>19 DEF open_rtp_runtime, bind_port, TableInv
  <2>4. where \in Entered \ Closing /\ where \in Places /\ where # "open" /\ where # "ensuring"
    BY PlaceFacts DEF Attaching
  <2>5. /\ at' \in [Sessions -> Places] /\ at'[s] = where
        /\ \A t \in Sessions \ {s} : at'[t] = at[t]
    BY <2>2, <2>4, GotoEffect
  <2>6. QED
    BY <2>1, <2>3, <2>4, <2>5, PlaceFacts DEF TableInv, Attaching
<1>20. ASSUME NEW s \in Sessions, direct_uuid_exists(s) PROVE TableInv'
  <2>1. /\ at[s] = "checking"
        /\ UNCHANGED <<handles, uuids, corr, port, watchdog, provider, picked, connecting>>
        /\ \/ Goto(s, "commanding") /\ UNCHANGED isOpen
           \/ Goto(s, "open") /\ isOpen' = [isOpen EXCEPT ![s] = TRUE]
    BY <1>20 DEF direct_uuid_exists, eslVars, tableVars
  <2>2. CASE Goto(s, "commanding") /\ UNCHANGED isOpen
    <3>1. /\ at' \in [Sessions -> Places] /\ at'[s] = "commanding"
          /\ \A t \in Sessions \ {s} : at'[t] = at[t]
      BY <2>2, PlaceFacts, GotoEffect DEF Attaching
    <3>2. QED
      BY <2>1, <2>2, <3>1, PlaceFacts DEF TableInv, Attaching
  <2>3. CASE Goto(s, "open") /\ isOpen' = [isOpen EXCEPT ![s] = TRUE]
    <3>1. /\ at' \in [Sessions -> Places] /\ at'[s] = "open"
          /\ \A t \in Sessions \ {s} : at'[t] = at[t]
      BY <2>3, PlaceFacts, GotoEffect
    <3>2. QED
      BY <2>1, <2>3, <3>1, PlaceFacts DEF TableInv, Attaching
  <2>4. QED
    BY <2>1, <2>2, <2>3
<1>21. ASSUME NEW s \in Sessions, AttachSent(s) PROVE TableInv'
  <2>1. /\ at[s] = "commanding"
        /\ UNCHANGED <<handles, uuids, corr, port, watchdog, provider, picked, connecting>>
        /\ \/ Goto(s, "leaked") /\ UNCHANGED isOpen
           \/ Goto(s, "open") /\ isOpen' = [isOpen EXCEPT ![s] = TRUE]
    BY <1>21 DEF AttachSent, eslVars, tableVars
  <2>2. CASE Goto(s, "leaked") /\ UNCHANGED isOpen
    <3>1. /\ at' \in [Sessions -> Places] /\ at'[s] = "leaked"
          /\ \A t \in Sessions \ {s} : at'[t] = at[t]
      BY <2>2, PlaceFacts, GotoEffect DEF Attaching
    <3>2. QED
      BY <2>1, <2>2, <3>1, PlaceFacts DEF TableInv, Attaching
  <2>3. CASE Goto(s, "open") /\ isOpen' = [isOpen EXCEPT ![s] = TRUE]
    <3>1. /\ at' \in [Sessions -> Places] /\ at'[s] = "open"
          /\ \A t \in Sessions \ {s} : at'[t] = at[t]
      BY <2>3, PlaceFacts, GotoEffect
    <3>2. QED
      BY <2>1, <2>3, <3>1, PlaceFacts DEF TableInv, Attaching
  <2>4. QED
    BY <2>1, <2>2, <2>3
<1>22. ASSUME NEW s \in Sessions, HangupSent(s) PROVE TableInv'
  <2>1. /\ at[s] = "watchdog" /\ Goto(s, "hangup")
        /\ UNCHANGED <<handles, uuids, corr, port, watchdog, provider, picked, isOpen, connecting>>
    BY <1>22 DEF HangupSent, eslVars, tableVars
  <2>2. /\ at' \in [Sessions -> Places] /\ at'[s] = "hangup"
        /\ \A t \in Sessions \ {s} : at'[t] = at[t]
    BY <2>1, PlaceFacts, GotoEffect DEF Attaching
  <2>3. QED
    BY <2>1, <2>2, PlaceFacts DEF TableInv, Attaching
<1>23. ASSUME NEW s \in Sessions, Detached(s) PROVE TableInv'
  <2>1. /\ at[s] = "hangup" /\ Goto(s, "closed")
        /\ UNCHANGED <<watchdog, provider, picked, isOpen, connecting>>
        /\ handles' = handles \ {s} /\ uuids' \subseteq uuids
        /\ corr' = [corr EXCEPT ![s] = NoUuid] /\ port' = [port EXCEPT ![s] = NoPort]
    BY <1>23 DEF Detached, eslVars, tableVars
  <2>2. /\ at' \in [Sessions -> Places] /\ at'[s] = "closed"
        /\ \A t \in Sessions \ {s} : at'[t] = at[t]
    BY <2>1, PlaceFacts, GotoEffect DEF Attaching
  <2>3. QED
    BY <2>1, <2>2, PlaceFacts DEF TableInv, Attaching
<1>24. ASSUME NEW s \in Sessions, Close(s) PROVE TableInv'
  <2>1. /\ at[s] = "open" /\ Goto(s, "watchdog")
        /\ UNCHANGED <<handles, uuids, corr, port, provider, picked, connecting>>
        /\ isOpen' = [isOpen EXCEPT ![s] = FALSE] /\ watchdog' = [watchdog EXCEPT ![s] = "returned"]
    BY <1>24 DEF Close, eslVars, tableVars, TableInv
  <2>2. /\ at' \in [Sessions -> Places] /\ at'[s] = "watchdog"
        /\ \A t \in Sessions \ {s} : at'[t] = at[t]
    BY <2>1, PlaceFacts, GotoEffect DEF Attaching
  <2>3. QED
    BY <2>1, <2>2, PlaceFacts DEF TableInv, Attaching
<1>25. ASSUME NEW s \in Sessions, send_audio(s) PROVE TableInv'
  BY <1>25 DEF send_audio, TableInv, eslVars, tableVars, mediaVars, openVars, farVars
<1>26. ASSUME NEW s \in Sessions, audio_in(s) PROVE TableInv'
  <2>1. /\ isOpen[s] /\ UNCHANGED <<handles, uuids, corr, port, watchdog, provider, picked, connecting>>
    BY <1>26 DEF audio_in, eslVars
  <2>2. CASE UNCHANGED <<isOpen, at>>
    BY <2>1, <2>2 DEF TableInv
  <2>3. CASE isOpen' = [isOpen EXCEPT ![s] = FALSE] /\ Goto(s, "over")
    <3>1. /\ at' \in [Sessions -> Places] /\ at'[s] = "over"
          /\ \A t \in Sessions \ {s} : at'[t] = at[t]
      BY <2>3, PlaceFacts, GotoEffect
    <3>2. QED
      BY <2>1, <2>3, <3>1, PlaceFacts DEF TableInv
  <2>4. QED
    BY <1>26, <2>2, <2>3 DEF audio_in
<1>27. ASSUME NEW s \in Sessions, on_rtp_datagram(s) PROVE TableInv'
  BY <1>27 DEF on_rtp_datagram, TableInv, eslVars, tableVars, mediaVars, openVars, farVars
<1>28. ASSUME NEW s \in Sessions, Probed(s) PROVE TableInv'
  BY <1>28 DEF Probed, TableInv, eslVars, tableVars, mediaVars, openVars, farVars
<1>29. ASSUME NEW s \in Sessions, rtp_watchdog_loop(s) PROVE TableInv'
  BY <1>29 DEF rtp_watchdog_loop, TableInv, eslVars, tableVars, mediaVars, openVars, farVars
<1>30. ASSUME NEW s \in Sessions, TimePasses(s) PROVE TableInv'
  BY <1>30 DEF TimePasses, TableInv, eslVars, tableVars, mediaVars, openVars, farVars
<1>31. ASSUME NEW s \in Sessions, CustomerHangsUp(s) PROVE TableInv'
  BY <1>31 DEF CustomerHangsUp, TableInv, eslVars, tableVars, mediaVars, openVars, farVars
<1>32. ASSUME NEW p \in Ports, OthersBind(p) PROVE TableInv'
  BY <1>32 DEF OthersBind, TableInv, eslVars, tableVars, mediaVars, openVars, farVars
<1>33. CASE UNCHANGED vars
  BY <1>33 DEF vars, eslVars, tableVars, openVars, TableInv
<1> HIDE DEF TableInv
<1>34. QED
  BY <1>1, <1>2, <1>3, <1>4, <1>5, <1>6, <1>7, <1>8, <1>9, <1>10, <1>11, <1>12, <1>13, <1>14, <1>15,
     <1>16, <1>17, <1>18, <1>19, <1>20, <1>21, <1>22, <1>23, <1>24, <1>25, <1>26, <1>27, <1>28,
     <1>29, <1>30, <1>31, <1>32, <1>33, ReadCases, Zenon DEF Next, ConnectStep, SessionStep, OpenStep,
     CloseStep

-----------------------------------------------------------------------------
(* The theorems                                                            *)

\* The inductive invariant holds of every state of the media plane.
THEOREM Invariance == Spec => []IInv
<1>1. IInv /\ [Next]_vars => IInv'
  BY MediaStep, FlagStep, EslStep, QueueStep, TableStep DEF IInv
<1>2. QED
  BY <1>1, InitIInv, PTL DEF Spec

\* Every variable has its type; the queues and buffers keep their bounds.
THEOREM TypeCorrect == Spec => []TypeOK
<1>1. IInv => TypeOK
  BY DEF IInv, MediaInv, FlagInv, EslInv, TableInv, QueueInv, TypeOK, Evts, Places, MediaEvents
<1>2. QED
  BY <1>1, Invariance, PTL

\* Frames reach the customer in the order they were spoken, whoever learns the
\* far end's address and however full the buffer is (flush_pending_audio,
\* send_audio).
THEOREM FramesStayInOrder == Spec => []FramesInOrder
<1>1. IInv => FramesInOrder
  <2>1. SUFFICES ASSUME MediaInv, NEW s \in Sessions,
                        NEW i \in 1..Len(<<sent[s]>> \o pending[s]),
                        NEW j \in 1..Len(<<sent[s]>> \o pending[s]), i < j
                 PROVE  (<<sent[s]>> \o pending[s])[i] < (<<sent[s]>> \o pending[s])[j]
    BY DEF IInv, FramesInOrder
  <2> DEFINE p == pending[s]
             one == <<sent[s]>>
  <2>2. one \in Seq(Nat) /\ Len(one) = 1 /\ one[1] = sent[s] /\ p \in Seq(Nat)
    BY <2>1 DEF MediaInv
  <2>3. /\ \A k \in 1..Len(p) : sent[s] < p[k]
        /\ \A k, l \in 1..Len(p) : k < l => p[k] < p[l]
    BY <2>1 DEF MediaInv
  <2> HIDE DEF p, one
  <2>4. /\ Len(one \o p) = 1 + Len(p)
        /\ \A k \in 1..(1 + Len(p)) : (one \o p)[k] = IF k <= 1 THEN one[k] ELSE p[k - 1]
    <3>1. /\ Len(one \o p) = Len(one) + Len(p)
          /\ \A k \in 1..(Len(one) + Len(p)) :
               (one \o p)[k] = IF k <= Len(one) THEN one[k] ELSE p[k - Len(one)]
      BY <2>2, ConcatProperties, Zenon
    <3>2. QED
      BY <2>2, <3>1
  <2>5. Len(p) \in Nat
    BY <2>2, LenProperties
  <2>6. i \in 1..(1 + Len(p)) /\ j \in 1..(1 + Len(p)) /\ j > 1 /\ j - 1 \in 1..Len(p)
    BY <2>1, <2>4, <2>5 DEF p, one
  <2>7. (one \o p)[j] = p[j - 1]
    BY <2>4, <2>6
  <2>8. (one \o p)[i] < p[j - 1]
    <3>1. CASE i = 1
      <4>1. (one \o p)[1] = one[1]
        BY <2>4, <2>5
      <4>2. QED
        BY <2>2, <2>3, <2>6, <3>1, <4>1
    <3>2. CASE i # 1
      <4>1. i - 1 \in 1..Len(p) /\ i - 1 < j - 1 /\ (one \o p)[i] = p[i - 1]
        BY <2>1, <2>4, <2>5, <2>6, <3>2
      <4>2. QED
        BY <2>3, <2>6, <4>1
    <3>3. QED
      BY <3>1, <3>2
  <2>9. QED
    BY <2>7, <2>8 DEF p, one
<1>2. QED
  BY <1>1, Invariance, PTL

\* A session that was detached is in none of the tables any more, whatever was
\* under way about it (detach_session).
THEOREM DetachedStaysGone == Spec => []DetachedIsGone
<1>1. IInv => DetachedIsGone
  BY PlaceFacts DEF IInv, TableInv, QueueInv, DetachedIsGone
<1>2. QED
  BY <1>1, Invariance, PTL

-----------------------------------------------------------------------------
(* BrowserCall: one call, several browsers                                 *)

(* The queues of the bridge                                                *)

\* A full queue gives up its oldest items: what is in it was in it, or is new.
LEMMA NewestKept ==
    ASSUME BrowserAssumption, NEW S, NEW q \in Seq(S), NEW f \in Seq(S),
           NEW r, r = PutDroppingOldest(q, f)
    PROVE  /\ r \in Seq(S) /\ Len(r) <= AudioMax
           /\ \A i \in 1..Len(r) : \/ \E j \in 1..Len(q) : r[i] = q[j]
                                   \/ \E j \in 1..Len(f) : r[i] = f[j]
<1>1. PICK a : a = q \o f
  OBVIOUS
<1>2. /\ a \in Seq(S) /\ Len(a) = Len(q) + Len(f)
      /\ \A i \in 1..Len(a) : a[i] = IF i <= Len(q) THEN q[i] ELSE f[i - Len(q)]
  BY <1>1, ConcatProperties
<1>3. Len(a) \in Nat /\ Len(q) \in Nat /\ Len(f) \in Nat /\ AudioMax \in Nat \ {0}
  BY <1>2, LenProperties DEF BrowserAssumption
<1>4. \A i \in 1..Len(a) : (\E j \in 1..Len(q) : a[i] = q[j]) \/ (\E j \in 1..Len(f) : a[i] = f[j])
  <2>1. SUFFICES ASSUME NEW i \in 1..Len(a)
                 PROVE  (\E j \in 1..Len(q) : a[i] = q[j]) \/ (\E j \in 1..Len(f) : a[i] = f[j])
    OBVIOUS
  <2>2. CASE i <= Len(q)
    BY <1>2, <1>3, <2>2
  <2>3. CASE i > Len(q)
    <3>1. i - Len(q) \in 1..Len(f) /\ a[i] = f[i - Len(q)]
      BY <1>2, <1>3, <2>3
    <3>2. QED
      BY <3>1
  <2>4. QED
    BY <1>3, <2>2, <2>3
<1>5. CASE Len(a) <= AudioMax
  BY <1>1, <1>2, <1>4, <1>5 DEF PutDroppingOldest
<1>6. CASE ~(Len(a) <= AudioMax)
  <2>1. r = SubSeq(a, Len(a) - AudioMax + 1, Len(a))
    BY <1>1, <1>6 DEF PutDroppingOldest
  <2>2. /\ r \in Seq(S) /\ Len(r) = AudioMax
        /\ \A i \in 1..Len(r) : r[i] = a[Len(a) - AudioMax + 1 + i - 1]
    BY <1>2, <1>3, <1>6, <2>1, SubSeqProperties
  <2>3. \A i \in 1..Len(r) : Len(a) - AudioMax + 1 + i - 1 \in 1..Len(a)
    BY <1>3, <1>6, <2>2
  <2>4. \A i \in 1..Len(r) : (\E j \in 1..Len(q) : r[i] = q[j]) \/ (\E j \in 1..Len(f) : r[i] = f[j])
    <3>1. SUFFICES ASSUME NEW i \in 1..Len(r)
                   PROVE  (\E j \in 1..Len(q) : r[i] = q[j]) \/ (\E j \in 1..Len(f) : r[i] = f[j])
      OBVIOUS
    <3>2. PICK k \in 1..Len(a) : r[i] = a[k]
      BY <2>2, <2>3
    <3>3. QED
      BY <1>4, <3>2
  <2>5. QED
    BY <1>3, <2>2, <2>4
<1>7. QED
  BY <1>5, <1>6

\* A queue without room stays as it is.
LEMMA PutKept ==
    ASSUME NEW S, NEW q \in Seq(S), NEW x \in S, NEW room \in Nat, Len(q) <= room,
           NEW r, r = PutIfRoom(q, x, room)
    PROVE  /\ r \in Seq(S) /\ Len(r) <= room
           /\ \/ r = q
              \/ /\ Len(r) = Len(q) + 1 /\ r[Len(r)] = x
                 /\ \A i \in 1..Len(q) : r[i] = q[i]
<1>1. r = PutIfRoom(q, x, room)
  OBVIOUS
<1>2. Len(q) \in Nat
  BY LenProperties
<1>3. CASE Len(q) < room
  <2>1. r = Append(q, x)
    BY <1>1, <1>3 DEF PutIfRoom
  <2>2. r \in Seq(S) /\ Len(r) = Len(q) + 1 /\ r[Len(q) + 1] = x /\ \A i \in 1..Len(q) : r[i] = q[i]
    BY <2>1, AppendProperties
  <2>3. QED
    BY <1>1, <1>2, <1>3, <2>2
<1>4. CASE ~(Len(q) < room)
  BY <1>1, <1>4 DEF PutIfRoom
<1>5. QED
  BY <1>3, <1>4

\* What is left of a queue when its oldest item is taken.
LEMMA TailKept ==
    ASSUME NEW S, NEW q \in Seq(S), q # <<>>
    PROVE  /\ Tail(q) \in Seq(S) /\ Len(Tail(q)) = Len(q) - 1 /\ Len(q) \in Nat \ {0}
           /\ \A i \in 1..Len(Tail(q)) : i + 1 \in 1..Len(q) /\ Tail(q)[i] = q[i + 1]
           /\ Head(q) = q[1] /\ Head(q) \in S
<1>1. /\ Tail(q) \in Seq(S) /\ Len(Tail(q)) = Len(q) - 1 /\ Head(q) \in S
      /\ \A i \in 1..Len(Tail(q)) : Tail(q)[i] = q[i + 1]
  BY HeadTailProperties
<1>2. Head(q) = q[1]
  BY EmptySeq
<1>3. Len(q) \in Nat \ {0} /\ Len(Tail(q)) \in Nat
  BY <1>1, EmptySeq, LenProperties
<1>4. \A i \in 1..Len(Tail(q)) : i + 1 \in 1..Len(q)
  BY <1>1, <1>3
<1>5. QED
  BY <1>1, <1>2, <1>3, <1>4

\* What close() does to the microphone's queue.
LEMMA CloseKeeps ==
    ASSUME BrowserAssumption, BrowserTypeOK, CloseBridge
    PROVE  /\ bridgeOpen' = FALSE
           /\ inq' \in Seq(Clients \cup {End}) /\ Len(inq') <= AudioMax
           /\ outq' \in Seq({"agent", "debug", End}) /\ Len(outq') <= AudioMax
           /\ \/ inq' = inq
              \/ /\ bridgeOpen /\ Len(inq') = Len(inq) + 1 /\ inq'[Len(inq')] = End
                 /\ \A i \in 1..Len(inq) : inq'[i] = inq[i]
<1>1. AudioMax \in Nat
  BY DEF BrowserAssumption
<1>2. CASE ~bridgeOpen
  BY <1>2 DEF CloseBridge, BrowserTypeOK
<1>3. CASE bridgeOpen
  <2>1. inq' = PutIfRoom(inq, End, AudioMax) /\ outq' = PutIfRoom(outq, End, AudioMax)
    BY <1>3 DEF CloseBridge
  <2>2. /\ inq \in Seq(Clients \cup {End}) /\ Len(inq) <= AudioMax
        /\ outq \in Seq({"agent", "debug", End}) /\ Len(outq) <= AudioMax
    BY DEF BrowserTypeOK
  <2>3. /\ inq' \in Seq(Clients \cup {End}) /\ Len(inq') <= AudioMax
        /\ \/ inq' = inq
           \/ /\ Len(inq') = Len(inq) + 1 /\ inq'[Len(inq')] = End
              /\ \A i \in 1..Len(inq) : inq'[i] = inq[i]
    <3> DEFINE Marked == Clients \cup {End}
    <3>1. inq \in Seq(Marked) /\ End \in Marked
      BY <2>2
    <3> HIDE DEF Marked
    <3>2. /\ inq' \in Seq(Marked) /\ Len(inq') <= AudioMax
          /\ \/ inq' = inq
             \/ /\ Len(inq') = Len(inq) + 1 /\ inq'[Len(inq')] = End
                /\ \A i \in 1..Len(inq) : inq'[i] = inq[i]
      BY <1>1, <2>1, <2>2, <3>1, PutKept
    <3>3. QED
      BY <3>2 DEF Marked
  <2>4. outq' \in Seq({"agent", "debug", End}) /\ Len(outq') <= AudioMax
    <3> DEFINE Sounds == {"agent", "debug", End}
    <3>1. outq \in Seq(Sounds) /\ End \in Sounds
      BY <2>2
    <3> HIDE DEF Sounds
    <3>2. outq' \in Seq(Sounds) /\ Len(outq') <= AudioMax
      BY <1>1, <2>1, <2>2, <3>1, PutKept
    <3>3. QED
      BY <3>2 DEF Sounds
  <2>5. QED
    BY <1>3, <2>3, <2>4 DEF CloseBridge
<1>4. QED
  BY <1>2, <1>3

\* What push_audio() does to it.
LEMMA PushKeeps ==
    ASSUME BrowserAssumption, BrowserTypeOK, NEW c \in Clients, PushAudio(c)
    PROVE  /\ inq' \in Seq(Clients \cup {End}) /\ Len(inq') <= AudioMax
           /\ \/ inq' = inq
              \/ /\ bridgeOpen /\ connected
                 /\ \A i \in 1..Len(inq') : inq'[i] = c \/ \E j \in 1..Len(inq) : inq'[i] = inq[j]
<1>1. CASE ~(bridgeOpen /\ connected)
  BY <1>1 DEF PushAudio, BrowserTypeOK
<1>2. CASE bridgeOpen /\ connected
  <2>1. inq' = PutDroppingOldest(inq, <<c>>)
    BY <1>2 DEF PushAudio
  <2>2. <<c>> \in Seq(Clients \cup {End}) /\ Len(<<c>>) = 1 /\ <<c>>[1] = c
    OBVIOUS
  <2>3. /\ inq' \in Seq(Clients \cup {End}) /\ Len(inq') <= AudioMax
        /\ \A i \in 1..Len(inq') : \/ \E j \in 1..Len(inq) : inq'[i] = inq[j]
                                   \/ \E j \in 1..Len(<<c>>) : inq'[i] = <<c>>[j]
    <3> DEFINE AudioFrames == Clients \cup {End}
    <3>1. inq \in Seq(AudioFrames) /\ <<c>> \in Seq(AudioFrames)
      BY <2>2 DEF BrowserTypeOK
    <3> DEFINE one == <<c>>
    <3> HIDE DEF AudioFrames, one
    <3>2. inq' = PutDroppingOldest(inq, one) /\ one \in Seq(AudioFrames)
      BY <2>1, <3>1 DEF one
    <3>3. /\ inq' \in Seq(AudioFrames) /\ Len(inq') <= AudioMax
          /\ \A i \in 1..Len(inq') : \/ \E j \in 1..Len(inq) : inq'[i] = inq[j]
                                     \/ \E j \in 1..Len(one) : inq'[i] = one[j]
      BY <3>1, <3>2, NewestKept
    <3>4. QED
      BY <3>3 DEF AudioFrames, one
  <2>4. QED
    BY <1>2, <2>2, <2>3
<1>3. QED
  BY <1>1, <1>2

\* What audio_out() does to the speaker's.
LEMMA OutKeeps ==
    ASSUME BrowserAssumption, BrowserTypeOK, NEW f \in Seq({"agent", "debug"}), AudioOut(f)
    PROVE  outq' \in Seq({"agent", "debug", End}) /\ Len(outq') <= AudioMax
<1>1. f \in Seq({"agent", "debug", End})
  OBVIOUS
<1>2. QED
  BY <1>1, NewestKept DEF AudioOut, BrowserTypeOK

\* send_control keeps the control queue within its limit.
LEMMA NoteKeeps ==
    ASSUME BrowserAssumption, BrowserTypeOK, NEW m \in {"note", CallEnded}, SendControl(m)
    PROVE  control' \in Seq({"note", CallEnded}) /\ Len(control') <= ControlMax
<1>1. ControlMax \in Nat
  BY DEF BrowserAssumption
<1> DEFINE Notes == {"note", CallEnded}
<1>2. control \in Seq(Notes) /\ m \in Notes /\ Len(control) <= ControlMax
  BY DEF BrowserTypeOK
<1> HIDE DEF Notes
<1>3. control' \in Seq(Notes) /\ Len(control') <= ControlMax
  BY <1>1, <1>2, PutKept DEF SendControl
<1>4. QED
  BY <1>3 DEF Notes

-----------------------------------------------------------------------------
(* The initial states                                                      *)

\* Before anybody asked for a call the invariant holds.
LEMMA BrowserInitially == ASSUME BrowserAssumption, BrowserInit PROVE BrowserIInv
<1>1. /\ inq \in Seq(Clients \cup {End}) /\ Len(inq) = 0
      /\ outq \in Seq({"agent", "debug", End}) /\ Len(outq) = 0
      /\ control \in Seq({"note", CallEnded}) /\ Len(control) = 0
  BY EmptySeq DEF BrowserInit
<1>2. BrowserTypeOK
  <2>1. Len(inq) <= AudioMax /\ Len(outq) <= AudioMax /\ Len(control) <= ControlMax
    BY <1>1 DEF BrowserAssumption
  <2>2. QED
    BY <1>1, <2>1 DEF BrowserInit, BrowserTypeOK
<1>3. CallInv /\ ClientInv /\ VoiceInv /\ MarkInv
  BY <1>1 DEF BrowserInit, CallInv, ClientInv, VoiceInv, MarkInv, Present, Voiced, Tasks
<1>4. QED
  BY <1>2, <1>3 DEF BrowserIInv

-----------------------------------------------------------------------------
(* The steps                                                               *)

\* No step breaks a type.
LEMMA BrowserTypeStep == ASSUME BrowserAssumption, BrowserIInv, [BrowserNext]_browserVars PROVE BrowserTypeOK'
<1> USE DEF BrowserIInv, browserVars, bridge, queues, sockets, counts
<1>1. ASSUME Create PROVE BrowserTypeOK'
  BY <1>1 DEF Create, Connect, AttachAudioBridge, BrowserTypeOK, Tasks
<1>2. ASSUME CreateRefused PROVE BrowserTypeOK'
  BY <1>2 DEF CreateRefused, BrowserTypeOK, Tasks
<1>3. ASSUME GeminiReady PROVE BrowserTypeOK'
  BY <1>3 DEF GeminiReady, BrowserTypeOK, Tasks
<1>4. ASSUME GeminiFails PROVE BrowserTypeOK'
  BY <1>4 DEF GeminiFails, BrowserTypeOK, Tasks
<1>5. ASSUME NEW c \in Clients, Attach(c) PROVE BrowserTypeOK'
  BY <1>5 DEF Attach, BrowserTypeOK, Tasks
<1>6. ASSUME NEW c \in Clients, Accept(c) PROVE BrowserTypeOK'
  BY <1>6 DEF Accept, BrowserTypeOK, Tasks
<1>7. ASSUME NEW c \in Clients, Receive(c) PROVE BrowserTypeOK'
  <2>1. inq' \in Seq(Clients \cup {End}) /\ Len(inq') <= AudioMax
    BY <1>7, PushKeeps DEF Receive
  <2>2. QED
    BY <1>7, <2>1 DEF Receive, BrowserTypeOK
<1>8. ASSUME NEW c \in Clients, ReceiverEnds(c) PROVE BrowserTypeOK'
  BY <1>8 DEF ReceiverEnds, BrowserTypeOK, Tasks
<1>9. ASSUME NEW c \in Clients, Send(c) PROVE BrowserTypeOK'
  <2>1. outq' \in Seq({"agent", "debug", End}) /\ Len(outq') <= AudioMax
    BY <1>9, TailKept DEF Send, BrowserTypeOK, BrowserAssumption
  <2>2. task' \in [Clients -> [Tasks -> {"off", "on", "sent", "failed"}]]
    BY <1>9 DEF Send, BrowserTypeOK, Tasks
  <2>3. pipe' \in [Clients -> BOOLEAN]
    BY <1>9, Zenon DEF Send, BrowserTypeOK
  <2>4. QED
    BY <1>9, <2>1, <2>2, <2>3 DEF Send, BrowserTypeOK
<1>10. ASSUME NEW c \in Clients, SenderEnds(c) PROVE BrowserTypeOK'
  BY <1>10 DEF SenderEnds, Drained, BrowserTypeOK, Tasks
<1>11. ASSUME NEW c \in Clients, SendNote(c) PROVE BrowserTypeOK'
  <2>1. control' \in Seq({"note", CallEnded}) /\ Len(control') <= ControlMax
    BY <1>11, TailKept DEF SendNote, BrowserTypeOK, BrowserAssumption
  <2>2. task' \in [Clients -> [Tasks -> {"off", "on", "sent", "failed"}]]
    <3>1. \E v \in {"sent", "off"} : task' = [task EXCEPT ![c]["control"] = v]
      BY <1>11 DEF SendNote
    <3>2. QED
      BY <3>1 DEF BrowserTypeOK, Tasks
  <2>3. pipe' \in [Clients -> BOOLEAN]
    BY <1>11 DEF SendNote, BrowserTypeOK
  <2>4. QED
    BY <1>11, <2>1, <2>2, <2>3 DEF SendNote, BrowserTypeOK
<1>12. ASSUME NEW c \in Clients, ControlLoops(c) PROVE BrowserTypeOK'
  BY <1>12 DEF ControlLoops, BrowserTypeOK, Tasks
<1>13. ASSUME NEW c \in Clients, Leave(c) PROVE BrowserTypeOK'
  <2>1. CloseBridge
    BY <1>13 DEF Leave, DetachClient
  <2>2. QED
    BY <1>13, <2>1, CloseKeeps DEF Leave, DetachClient, BrowserTypeOK
<1>14. ASSUME NEW c \in Clients, Arrive(c) PROVE BrowserTypeOK'
  BY <1>14 DEF Arrive, BrowserTypeOK, Tasks
<1>15. ASSUME NEW c \in Clients, BrowserLeaves(c) PROVE BrowserTypeOK'
  BY <1>15 DEF BrowserLeaves, BrowserTypeOK, Tasks
<1>16. ASSUME NEW c \in Clients, LinkDrops(c) PROVE BrowserTypeOK'
  BY <1>16 DEF LinkDrops, BrowserTypeOK, Tasks
<1>17. ASSUME NEW c \in Clients, NEW rightToken \in BOOLEAN, Refuse(c, rightToken) PROVE BrowserTypeOK'
  BY <1>17 DEF Refuse, BrowserTypeOK, Tasks
<1>18. ASSUME AgentSpeaks PROVE BrowserTypeOK'
  <2>1. <<"agent">> \in Seq({"agent", "debug"})
    OBVIOUS
  <2>2. outq' \in Seq({"agent", "debug", End}) /\ Len(outq') <= AudioMax
    BY <1>18, <2>1, OutKeeps DEF AgentSpeaks
  <2>3. QED
    BY <1>18, <2>2 DEF AgentSpeaks, BrowserTypeOK
<1>19. ASSUME AgentNotes PROVE BrowserTypeOK'
  <2>1. control' \in Seq({"note", CallEnded}) /\ Len(control') <= ControlMax
    BY <1>19, NoteKeeps DEF AgentNotes
  <2>2. QED
    BY <1>19, <2>1 DEF AgentNotes, BrowserTypeOK
<1>20. ASSUME TestTone PROVE BrowserTypeOK'
  <2>1. [i \in 1..ToneChunks |-> "debug"] \in Seq({"agent", "debug"})
    BY IsASeq DEF BrowserAssumption
  <2>2. outq' \in Seq({"agent", "debug", End}) /\ Len(outq') <= AudioMax
    BY <1>20, <2>1, OutKeeps DEF TestTone
  <2>3. QED
    BY <1>20, <2>2 DEF TestTone, BrowserTypeOK
<1>21. ASSUME TestTtsStarts PROVE BrowserTypeOK'
  BY <1>21 DEF TestTtsStarts, BrowserTypeOK, Tasks
<1>22. ASSUME TestTtsChunk PROVE BrowserTypeOK'
  <2>1. <<"debug">> \in Seq({"agent", "debug"})
    OBVIOUS
  <2>2. outq' \in Seq({"agent", "debug", End}) /\ Len(outq') <= AudioMax
    BY <1>22, <2>1, OutKeeps DEF TestTtsChunk
  <2>3. QED
    BY <1>22, <2>2 DEF TestTtsChunk, BrowserTypeOK
<1>23. ASSUME TestTtsEnds PROVE BrowserTypeOK'
  BY <1>23 DEF TestTtsEnds, BrowserTypeOK, Tasks
<1>24. ASSUME Hear PROVE BrowserTypeOK'
  <2>1. inq' \in Seq(Clients \cup {End}) /\ Len(inq') <= AudioMax /\ Head(inq) \in Clients \cup {End}
    BY <1>24, TailKept DEF Hear, BrowserTypeOK, BrowserAssumption
  <2>2. QED
    BY <1>24, <2>1 DEF Hear, BrowserTypeOK
<1>25. ASSUME HearEnds PROVE BrowserTypeOK'
  BY <1>25 DEF HearEnds, Drained, BrowserTypeOK, Tasks
<1>26. ASSUME BridgeEndsSession PROVE BrowserTypeOK'
  BY <1>26 DEF BridgeEndsSession, BrowserTypeOK, Tasks
<1>27. ASSUME EndSession PROVE BrowserTypeOK'
  BY <1>27 DEF EndSession, BrowserTypeOK, Tasks
<1>28. ASSUME TellBrowser PROVE BrowserTypeOK'
  <2>1. control' \in Seq({"note", CallEnded}) /\ Len(control') <= ControlMax
    BY <1>28, NoteKeeps DEF TellBrowser
  <2>2. QED
    BY <1>28, <2>1 DEF TellBrowser, BrowserTypeOK
<1>29. ASSUME ShutBridge PROVE BrowserTypeOK'
  <2>1. CloseBridge
    BY <1>29 DEF ShutBridge
  <2>2. QED
    BY <1>29, <2>1, CloseKeeps DEF ShutBridge, BrowserTypeOK
<1>30. CASE UNCHANGED browserVars
  BY <1>30 DEF BrowserTypeOK, Tasks
<1>31. QED
  BY <1>1, <1>2, <1>3, <1>4, <1>5, <1>6, <1>7, <1>8, <1>9, <1>10, <1>11, <1>12, <1>13,
     <1>14, <1>15, <1>16, <1>17, <1>18, <1>19, <1>20, <1>21, <1>22, <1>23, <1>24, <1>25,
     <1>26, <1>27, <1>28, <1>29, <1>30 DEF BrowserNext

\* The call is created once.
LEMMA BrowserCallStep == ASSUME BrowserAssumption, BrowserIInv, [BrowserNext]_browserVars PROVE CallInv'
<1> USE DEF BrowserIInv, browserVars, bridge, queues, sockets, counts
<1>1. ASSUME Create PROVE CallInv'
  BY <1>1 DEF Create, Connect, AttachAudioBridge, CallInv, BrowserTypeOK
<1>2. ASSUME CreateRefused PROVE CallInv'
  BY <1>2 DEF CreateRefused, CallInv, BrowserTypeOK
<1>3. ASSUME GeminiReady PROVE CallInv'
  BY <1>3 DEF GeminiReady, CallInv, BrowserTypeOK
<1>4. ASSUME GeminiFails PROVE CallInv'
  BY <1>4 DEF GeminiFails, CallInv, BrowserTypeOK
<1>5. ASSUME NEW c \in Clients, Attach(c) PROVE CallInv'
  BY <1>5 DEF Attach, CallInv, BrowserTypeOK
<1>6. ASSUME NEW c \in Clients, Accept(c) PROVE CallInv'
  BY <1>6 DEF Accept, CallInv, BrowserTypeOK
<1>7. ASSUME NEW c \in Clients, Receive(c) PROVE CallInv'
  BY <1>7 DEF Receive, PushAudio, CallInv, BrowserTypeOK
<1>8. ASSUME NEW c \in Clients, ReceiverEnds(c) PROVE CallInv'
  BY <1>8 DEF ReceiverEnds, CallInv, BrowserTypeOK
<1>9. ASSUME NEW c \in Clients, Send(c) PROVE CallInv'
  BY <1>9 DEF Send, CallInv, BrowserTypeOK
<1>10. ASSUME NEW c \in Clients, SenderEnds(c) PROVE CallInv'
  BY <1>10 DEF SenderEnds, Drained, CallInv, BrowserTypeOK
<1>11. ASSUME NEW c \in Clients, SendNote(c) PROVE CallInv'
  BY <1>11 DEF SendNote, CallInv, BrowserTypeOK
<1>12. ASSUME NEW c \in Clients, ControlLoops(c) PROVE CallInv'
  BY <1>12 DEF ControlLoops, CallInv, BrowserTypeOK
<1>13. ASSUME NEW c \in Clients, Leave(c) PROVE CallInv'
  BY <1>13 DEF Leave, DetachClient, CloseBridge, GatherReturns, CallInv, BrowserTypeOK
<1>14. ASSUME NEW c \in Clients, Arrive(c) PROVE CallInv'
  BY <1>14 DEF Arrive, CallInv, BrowserTypeOK
<1>15. ASSUME NEW c \in Clients, BrowserLeaves(c) PROVE CallInv'
  BY <1>15 DEF BrowserLeaves, CallInv, BrowserTypeOK
<1>16. ASSUME NEW c \in Clients, LinkDrops(c) PROVE CallInv'
  BY <1>16 DEF LinkDrops, CallInv, BrowserTypeOK
<1>17. ASSUME NEW c \in Clients, NEW rightToken \in BOOLEAN, Refuse(c, rightToken) PROVE CallInv'
  BY <1>17 DEF Refuse, CallInv, BrowserTypeOK
<1>18. ASSUME AgentSpeaks PROVE CallInv'
  BY <1>18 DEF AgentSpeaks, AudioOut, CallInv, BrowserTypeOK
<1>19. ASSUME AgentNotes PROVE CallInv'
  BY <1>19 DEF AgentNotes, SendControl, CallInv, BrowserTypeOK
<1>20. ASSUME TestTone PROVE CallInv'
  BY <1>20 DEF TestTone, AudioOut, CallInv, BrowserTypeOK
<1>21. ASSUME TestTtsStarts PROVE CallInv'
  BY <1>21 DEF TestTtsStarts, CallInv, BrowserTypeOK
<1>22. ASSUME TestTtsChunk PROVE CallInv'
  BY <1>22 DEF TestTtsChunk, AudioOut, CallInv, BrowserTypeOK
<1>23. ASSUME TestTtsEnds PROVE CallInv'
  BY <1>23 DEF TestTtsEnds, CallInv, BrowserTypeOK
<1>24. ASSUME Hear PROVE CallInv'
  BY <1>24 DEF Hear, CallInv, BrowserTypeOK
<1>25. ASSUME HearEnds PROVE CallInv'
  BY <1>25 DEF HearEnds, Drained, CallInv, BrowserTypeOK
<1>26. ASSUME BridgeEndsSession PROVE CallInv'
  BY <1>26 DEF BridgeEndsSession, CallInv, BrowserTypeOK
<1>27. ASSUME EndSession PROVE CallInv'
  BY <1>27 DEF EndSession, CallInv, BrowserTypeOK
<1>28. ASSUME TellBrowser PROVE CallInv'
  BY <1>28 DEF TellBrowser, SendControl, CallInv, BrowserTypeOK
<1>29. ASSUME ShutBridge PROVE CallInv'
  BY <1>29 DEF ShutBridge, CloseBridge, CallInv, BrowserTypeOK
<1>30. CASE UNCHANGED browserVars
  BY <1>30 DEF CallInv, BrowserTypeOK
<1>31. QED
  BY <1>1, <1>2, <1>3, <1>4, <1>5, <1>6, <1>7, <1>8, <1>9, <1>10, <1>11, <1>12, <1>13,
     <1>14, <1>15, <1>16, <1>17, <1>18, <1>19, <1>20, <1>21, <1>22, <1>23, <1>24, <1>25,
     <1>26, <1>27, <1>28, <1>29, <1>30 DEF BrowserNext

\* One handler at a time.
LEMMA BrowserClientStep == ASSUME BrowserAssumption, BrowserIInv, [BrowserNext]_browserVars PROVE ClientInv'
<1> USE DEF BrowserIInv, browserVars, bridge, queues, sockets, counts
<1>1. ASSUME Create PROVE ClientInv'
  BY <1>1 DEF Create, Connect, AttachAudioBridge, ClientInv, CallInv, Present,
     BrowserTypeOK,
        Tasks
<1>2. ASSUME CreateRefused PROVE ClientInv'
  BY <1>2 DEF CreateRefused, ClientInv, CallInv, Present, BrowserTypeOK, Tasks
<1>3. ASSUME GeminiReady PROVE ClientInv'
  BY <1>3 DEF GeminiReady, ClientInv, CallInv, Present, BrowserTypeOK, Tasks
<1>4. ASSUME GeminiFails PROVE ClientInv'
  BY <1>4 DEF GeminiFails, ClientInv, CallInv, Present, BrowserTypeOK, Tasks
<1>5. ASSUME NEW c \in Clients, Attach(c) PROVE ClientInv'
  BY <1>5 DEF Attach, ClientInv, CallInv, Present, BrowserTypeOK, Tasks
<1>6. ASSUME NEW c \in Clients, Accept(c) PROVE ClientInv'
  BY <1>6 DEF Accept, ClientInv, CallInv, Present, BrowserTypeOK, Tasks
<1>7. ASSUME NEW c \in Clients, Receive(c) PROVE ClientInv'
  BY <1>7 DEF Receive, PushAudio, ClientInv, CallInv, Present, BrowserTypeOK, Tasks
<1>8. ASSUME NEW c \in Clients, ReceiverEnds(c) PROVE ClientInv'
  BY <1>8 DEF ReceiverEnds, ClientInv, CallInv, Present, BrowserTypeOK, Tasks
<1>9. ASSUME NEW c \in Clients, Send(c) PROVE ClientInv'
  BY <1>9 DEF Send, ClientInv, CallInv, Present, BrowserTypeOK, Tasks
<1>10. ASSUME NEW c \in Clients, SenderEnds(c) PROVE ClientInv'
  BY <1>10 DEF SenderEnds, Drained, ClientInv, CallInv, Present, BrowserTypeOK, Tasks
<1>11. ASSUME NEW c \in Clients, SendNote(c) PROVE ClientInv'
  <2>1. \A d \in Clients : task'[d]["receiver"] = task[d]["receiver"]
    <3>1. \E v \in {"sent", "off"} : task' = [task EXCEPT ![c]["control"] = v]
      BY <1>11 DEF SendNote
    <3>2. QED
      BY <3>1 DEF BrowserTypeOK, Tasks
  <2>2. UNCHANGED <<phase, connected, bridgeOpen>>
    BY <1>11 DEF SendNote
  <2>3. QED
    BY <2>1, <2>2 DEF ClientInv, Present
<1>12. ASSUME NEW c \in Clients, ControlLoops(c) PROVE ClientInv'
  BY <1>12 DEF ControlLoops, ClientInv, CallInv, Present, BrowserTypeOK, Tasks
<1>13. ASSUME NEW c \in Clients, Leave(c) PROVE ClientInv'
  <2>1. bridgeOpen' = FALSE
    BY <1>13, CloseKeeps DEF Leave, DetachClient
  <2>2. QED
    BY <1>13, <2>1 DEF Leave, DetachClient, GatherReturns, ClientInv, Present,
       BrowserTypeOK, Tasks
<1>14. ASSUME NEW c \in Clients, Arrive(c) PROVE ClientInv'
  BY <1>14 DEF Arrive, ClientInv, CallInv, Present, BrowserTypeOK, Tasks
<1>15. ASSUME NEW c \in Clients, BrowserLeaves(c) PROVE ClientInv'
  BY <1>15 DEF BrowserLeaves, ClientInv, CallInv, Present, BrowserTypeOK, Tasks
<1>16. ASSUME NEW c \in Clients, LinkDrops(c) PROVE ClientInv'
  BY <1>16 DEF LinkDrops, ClientInv, CallInv, Present, BrowserTypeOK, Tasks
<1>17. ASSUME NEW c \in Clients, NEW rightToken \in BOOLEAN, Refuse(c, rightToken) PROVE ClientInv'
  BY <1>17 DEF Refuse, ClientInv, CallInv, Present, BrowserTypeOK, Tasks
<1>18. ASSUME AgentSpeaks PROVE ClientInv'
  BY <1>18 DEF AgentSpeaks, AudioOut, ClientInv, CallInv, Present, BrowserTypeOK, Tasks
<1>19. ASSUME AgentNotes PROVE ClientInv'
  BY <1>19 DEF AgentNotes, SendControl, ClientInv, CallInv, Present, BrowserTypeOK, Tasks
<1>20. ASSUME TestTone PROVE ClientInv'
  BY <1>20 DEF TestTone, AudioOut, ClientInv, CallInv, Present, BrowserTypeOK, Tasks
<1>21. ASSUME TestTtsStarts PROVE ClientInv'
  BY <1>21 DEF TestTtsStarts, ClientInv, CallInv, Present, BrowserTypeOK, Tasks
<1>22. ASSUME TestTtsChunk PROVE ClientInv'
  BY <1>22 DEF TestTtsChunk, AudioOut, ClientInv, CallInv, Present, BrowserTypeOK, Tasks
<1>23. ASSUME TestTtsEnds PROVE ClientInv'
  BY <1>23 DEF TestTtsEnds, ClientInv, CallInv, Present, BrowserTypeOK, Tasks
<1>24. ASSUME Hear PROVE ClientInv'
  BY <1>24 DEF Hear, ClientInv, CallInv, Present, BrowserTypeOK, Tasks
<1>25. ASSUME HearEnds PROVE ClientInv'
  BY <1>25 DEF HearEnds, Drained, ClientInv, CallInv, Present, BrowserTypeOK, Tasks
<1>26. ASSUME BridgeEndsSession PROVE ClientInv'
  BY <1>26 DEF BridgeEndsSession, ClientInv, CallInv, Present, BrowserTypeOK, Tasks
<1>27. ASSUME EndSession PROVE ClientInv'
  BY <1>27 DEF EndSession, ClientInv, CallInv, Present, BrowserTypeOK, Tasks
<1>28. ASSUME TellBrowser PROVE ClientInv'
  BY <1>28 DEF TellBrowser, SendControl, ClientInv, CallInv, Present, BrowserTypeOK, Tasks
<1>29. ASSUME ShutBridge PROVE ClientInv'
  BY <1>29, CloseKeeps DEF ShutBridge, ClientInv, Present
<1>30. CASE UNCHANGED browserVars
  BY <1>30 DEF ClientInv, CallInv, Present, BrowserTypeOK, Tasks
<1>31. QED
  BY <1>1, <1>2, <1>3, <1>4, <1>5, <1>6, <1>7, <1>8, <1>9, <1>10, <1>11, <1>12, <1>13,
     <1>14, <1>15, <1>16, <1>17, <1>18, <1>19, <1>20, <1>21, <1>22, <1>23, <1>24, <1>25,
     <1>26, <1>27, <1>28, <1>29, <1>30 DEF BrowserNext

\* The end mark is nobody's voice.
LEMMA CloseVoices ==
    ASSUME BrowserAssumption, BrowserTypeOK, CloseBridge, voices' = voices
    PROVE  \A c \in Clients : Voiced(c)' => Voiced(c)
<1>1. Len(inq) \in Nat
  BY LenProperties DEF BrowserTypeOK
<1>2. SUFFICES ASSUME NEW c \in Clients, NEW i \in 1..Len(inq'), inq'[i] = c
               PROVE  \E j \in 1..Len(inq) : inq[j] = c
  BY DEF Voiced
<1>3. CASE inq' = inq
  BY <1>2, <1>3
<1>4. CASE /\ Len(inq') = Len(inq) + 1 /\ inq'[Len(inq')] = End
           /\ \A j \in 1..Len(inq) : inq'[j] = inq[j]
  <2>1. i # Len(inq')
    BY <1>2, <1>4 DEF BrowserAssumption
  <2>2. i \in 1..Len(inq)
    BY <1>1, <1>4, <2>1
  <2>3. QED
    BY <1>2, <1>4, <2>2
<1>5. QED
  BY <1>3, <1>4, CloseKeeps

\* Nobody but the browser that is attached to the open bridge is put into its queue.
LEMMA BrowserVoiceStep == ASSUME BrowserAssumption, BrowserIInv, [BrowserNext]_browserVars PROVE VoiceInv'
<1> USE DEF BrowserIInv, browserVars, bridge, queues, sockets, counts
<1>1. ASSUME Create PROVE VoiceInv'
  BY <1>1 DEF Create, Connect, AttachAudioBridge, VoiceInv, Voiced, CallInv, ClientInv,
        Present
<1>2. ASSUME CreateRefused PROVE VoiceInv'
  BY <1>2 DEF CreateRefused, VoiceInv, Voiced, CallInv, ClientInv, Present
<1>3. ASSUME GeminiReady PROVE VoiceInv'
  BY <1>3 DEF GeminiReady, VoiceInv, Voiced, CallInv, ClientInv, Present
<1>4. ASSUME GeminiFails PROVE VoiceInv'
  BY <1>4 DEF GeminiFails, VoiceInv, Voiced, CallInv, ClientInv, Present
<1>5. ASSUME NEW c \in Clients, Attach(c) PROVE VoiceInv'
  BY <1>5 DEF Attach, VoiceInv, Voiced, CallInv, ClientInv, Present
<1>6. ASSUME NEW c \in Clients, Accept(c) PROVE VoiceInv'
  BY <1>6 DEF Accept, VoiceInv, Voiced, CallInv, ClientInv, Present
<1>7. ASSUME NEW c \in Clients, Receive(c) PROVE VoiceInv'
  <2>1. CASE inq' = inq
    BY <1>7, <2>1 DEF Receive, VoiceInv, Voiced
  <2>2. CASE /\ bridgeOpen /\ connected
             /\ \A i \in 1..Len(inq') : inq'[i] = c \/ \E j \in 1..Len(inq) : inq'[i] = inq[j]
    <3>1. \A d \in Clients : Voiced(d)' => Voiced(d) \/ d = c
      BY <1>7, <2>2 DEF Receive, Voiced
    <3>2. phase[c] = "talking"
      BY <1>7, <2>2 DEF Receive, ClientInv
    <3>3. \A d \in Clients : Voiced(d) => d = c
      BY <2>2, <3>2 DEF VoiceInv, ClientInv, Present
    <3>4. QED
      BY <1>7, <3>1, <3>2, <3>3 DEF Receive, VoiceInv
  <2>3. QED
    BY <1>7, <2>1, <2>2, PushKeeps DEF Receive
<1>8. ASSUME NEW c \in Clients, ReceiverEnds(c) PROVE VoiceInv'
  BY <1>8 DEF ReceiverEnds, VoiceInv, Voiced, CallInv, ClientInv, Present
<1>9. ASSUME NEW c \in Clients, Send(c) PROVE VoiceInv'
  <2>1. UNCHANGED <<inq, voices, phase, bridgeOpen>>
    BY <1>9 DEF Send
  <2>2. QED
    BY <2>1 DEF VoiceInv, Voiced
<1>10. ASSUME NEW c \in Clients, SenderEnds(c) PROVE VoiceInv'
  BY <1>10 DEF SenderEnds, Drained, VoiceInv, Voiced, CallInv, ClientInv, Present
<1>11. ASSUME NEW c \in Clients, SendNote(c) PROVE VoiceInv'
  BY <1>11 DEF SendNote, VoiceInv, Voiced, CallInv, ClientInv, Present
<1>12. ASSUME NEW c \in Clients, ControlLoops(c) PROVE VoiceInv'
  BY <1>12 DEF ControlLoops, VoiceInv, Voiced, CallInv, ClientInv, Present
<1>13. ASSUME NEW c \in Clients, Leave(c) PROVE VoiceInv'
  <2>1. CloseBridge
    BY <1>13 DEF Leave, DetachClient
  <2>2. \A d \in Clients : Voiced(d)' => Voiced(d)
    BY <1>13, <2>1, CloseVoices DEF Leave
  <2>3. QED
    BY <2>1, <2>2, CloseKeeps DEF VoiceInv
<1>14. ASSUME NEW c \in Clients, Arrive(c) PROVE VoiceInv'
  BY <1>14 DEF Arrive, VoiceInv, Voiced, CallInv, ClientInv, Present
<1>15. ASSUME NEW c \in Clients, BrowserLeaves(c) PROVE VoiceInv'
  BY <1>15 DEF BrowserLeaves, VoiceInv, Voiced, CallInv, ClientInv, Present
<1>16. ASSUME NEW c \in Clients, LinkDrops(c) PROVE VoiceInv'
  BY <1>16 DEF LinkDrops, VoiceInv, Voiced, CallInv, ClientInv, Present
<1>17. ASSUME NEW c \in Clients, NEW rightToken \in BOOLEAN, Refuse(c, rightToken) PROVE VoiceInv'
  BY <1>17 DEF Refuse, VoiceInv, Voiced, CallInv, ClientInv, Present
<1>18. ASSUME AgentSpeaks PROVE VoiceInv'
  BY <1>18 DEF AgentSpeaks, AudioOut, VoiceInv, Voiced, CallInv, ClientInv, Present
<1>19. ASSUME AgentNotes PROVE VoiceInv'
  BY <1>19 DEF AgentNotes, SendControl, VoiceInv, Voiced, CallInv, ClientInv, Present
<1>20. ASSUME TestTone PROVE VoiceInv'
  BY <1>20 DEF TestTone, AudioOut, VoiceInv, Voiced, CallInv, ClientInv, Present
<1>21. ASSUME TestTtsStarts PROVE VoiceInv'
  BY <1>21 DEF TestTtsStarts, VoiceInv, Voiced, CallInv, ClientInv, Present
<1>22. ASSUME TestTtsChunk PROVE VoiceInv'
  BY <1>22 DEF TestTtsChunk, AudioOut, VoiceInv, Voiced, CallInv, ClientInv, Present
<1>23. ASSUME TestTtsEnds PROVE VoiceInv'
  BY <1>23 DEF TestTtsEnds, VoiceInv, Voiced, CallInv, ClientInv, Present
<1>24. ASSUME Hear PROVE VoiceInv'
  <2>1. \A d \in Clients : Voiced(d)' => Voiced(d)
    <3>1. /\ \A i \in 1..Len(inq') : i + 1 \in 1..Len(inq) /\ inq'[i] = inq[i + 1]
          /\ 1 \in 1..Len(inq) /\ Head(inq) = inq[1]
      BY <1>24, TailKept DEF Hear, BrowserTypeOK
    <3>2. \A d \in Clients : d \in voices' => d \in voices \/ d = inq[1]
      BY <1>24, <3>1 DEF Hear
    <3>3. QED
      BY <3>1, <3>2 DEF Voiced
  <2>2. QED
    BY <1>24, <2>1 DEF Hear, VoiceInv
<1>25. ASSUME HearEnds PROVE VoiceInv'
  BY <1>25 DEF HearEnds, Drained, VoiceInv, Voiced, CallInv, ClientInv, Present
<1>26. ASSUME BridgeEndsSession PROVE VoiceInv'
  BY <1>26 DEF BridgeEndsSession, VoiceInv, Voiced, CallInv, ClientInv, Present
<1>27. ASSUME EndSession PROVE VoiceInv'
  BY <1>27 DEF EndSession, VoiceInv, Voiced, CallInv, ClientInv, Present
<1>28. ASSUME TellBrowser PROVE VoiceInv'
  BY <1>28 DEF TellBrowser, SendControl, VoiceInv, Voiced, CallInv, ClientInv, Present
<1>29. ASSUME ShutBridge PROVE VoiceInv'
  <2>1. CloseBridge
    BY <1>29 DEF ShutBridge
  <2>2. \A d \in Clients : Voiced(d)' => Voiced(d)
    BY <1>29, <2>1, CloseVoices DEF ShutBridge
  <2>3. QED
    BY <2>1, <2>2, CloseKeeps DEF VoiceInv
<1>30. CASE UNCHANGED browserVars
  BY <1>30 DEF VoiceInv, Voiced, CallInv, ClientInv, Present
<1>31. QED
  BY <1>1, <1>2, <1>3, <1>4, <1>5, <1>6, <1>7, <1>8, <1>9, <1>10, <1>11, <1>12, <1>13,
     <1>14, <1>15, <1>16, <1>17, <1>18, <1>19, <1>20, <1>21, <1>22, <1>23, <1>24, <1>25,
     <1>26, <1>27, <1>28, <1>29, <1>30 DEF BrowserNext

\* The end mark that close() puts is the last of the queue.
LEMMA CloseMarks ==
    ASSUME BrowserAssumption, BrowserIInv, CloseBridge, UNCHANGED <<session, micReader>> \/ session' # "up"
    PROVE  MarkInv'
<1>1. BrowserTypeOK /\ MarkInv
  BY DEF BrowserIInv
<1>2. Len(inq) \in Nat
  BY <1>1, LenProperties DEF BrowserTypeOK
<1>3. \A i \in 1..Len(inq') : inq'[i] = End => i = Len(inq') /\ ~bridgeOpen'
  <2>1. CASE inq' = inq
    BY <1>1, <2>1, CloseKeeps DEF MarkInv
  <2>2. CASE /\ bridgeOpen /\ Len(inq') = Len(inq) + 1 /\ inq'[Len(inq')] = End
             /\ \A i \in 1..Len(inq) : inq'[i] = inq[i]
    BY <1>1, <1>2, <2>2, CloseKeeps DEF MarkInv
  <2>3. QED
    BY <1>1, <2>1, <2>2, CloseKeeps
<1>4. session' = "up" /\ micReader' = "done" => inq' = <<>> /\ ~bridgeOpen'
  BY <1>1, CloseKeeps DEF MarkInv
<1>5. QED
  BY <1>3, <1>4 DEF MarkInv

\* The reader finds the end mark, or the closed bridge, last.
LEMMA BrowserMarkStep == ASSUME BrowserAssumption, BrowserIInv, [BrowserNext]_browserVars PROVE MarkInv'
<1> USE DEF BrowserIInv, browserVars, bridge, queues, sockets, counts
<1>1. ASSUME Create PROVE MarkInv'
  BY <1>1 DEF Create, Connect, AttachAudioBridge, MarkInv, CallInv
<1>2. ASSUME CreateRefused PROVE MarkInv'
  BY <1>2 DEF CreateRefused, MarkInv, CallInv
<1>3. ASSUME GeminiReady PROVE MarkInv'
  BY <1>3 DEF GeminiReady, MarkInv, CallInv
<1>4. ASSUME GeminiFails PROVE MarkInv'
  BY <1>4 DEF GeminiFails, MarkInv, CallInv
<1>5. ASSUME NEW c \in Clients, Attach(c) PROVE MarkInv'
  BY <1>5 DEF Attach, MarkInv, CallInv
<1>6. ASSUME NEW c \in Clients, Accept(c) PROVE MarkInv'
  BY <1>6 DEF Accept, MarkInv, CallInv
<1>7. ASSUME NEW c \in Clients, Receive(c) PROVE MarkInv'
  <2>1. CASE inq' = inq
    BY <1>7, <2>1 DEF Receive, MarkInv
  <2>2. CASE /\ bridgeOpen /\ connected
             /\ \A i \in 1..Len(inq') : inq'[i] = c \/ \E j \in 1..Len(inq) : inq'[i] = inq[j]
    <3>1. \A i \in 1..Len(inq') : inq'[i] # End
      BY <2>2 DEF MarkInv, BrowserAssumption
    <3>2. QED
      BY <1>7, <2>2, <3>1 DEF Receive, MarkInv
  <2>3. QED
    BY <1>7, <2>1, <2>2, PushKeeps DEF Receive
<1>8. ASSUME NEW c \in Clients, ReceiverEnds(c) PROVE MarkInv'
  BY <1>8 DEF ReceiverEnds, MarkInv, CallInv
<1>9. ASSUME NEW c \in Clients, Send(c) PROVE MarkInv'
  BY <1>9 DEF Send, MarkInv, CallInv
<1>10. ASSUME NEW c \in Clients, SenderEnds(c) PROVE MarkInv'
  BY <1>10 DEF SenderEnds, Drained, MarkInv, CallInv
<1>11. ASSUME NEW c \in Clients, SendNote(c) PROVE MarkInv'
  BY <1>11 DEF SendNote, MarkInv, CallInv
<1>12. ASSUME NEW c \in Clients, ControlLoops(c) PROVE MarkInv'
  BY <1>12 DEF ControlLoops, MarkInv, CallInv
<1>13. ASSUME NEW c \in Clients, Leave(c) PROVE MarkInv'
  <2>1. CloseBridge /\ UNCHANGED <<session, micReader>>
    BY <1>13 DEF Leave, DetachClient
  <2>2. QED
    BY <2>1, CloseMarks
<1>14. ASSUME NEW c \in Clients, Arrive(c) PROVE MarkInv'
  BY <1>14 DEF Arrive, MarkInv, CallInv
<1>15. ASSUME NEW c \in Clients, BrowserLeaves(c) PROVE MarkInv'
  BY <1>15 DEF BrowserLeaves, MarkInv, CallInv
<1>16. ASSUME NEW c \in Clients, LinkDrops(c) PROVE MarkInv'
  BY <1>16 DEF LinkDrops, MarkInv, CallInv
<1>17. ASSUME NEW c \in Clients, NEW rightToken \in BOOLEAN, Refuse(c, rightToken) PROVE MarkInv'
  BY <1>17 DEF Refuse, MarkInv, CallInv
<1>18. ASSUME AgentSpeaks PROVE MarkInv'
  BY <1>18 DEF AgentSpeaks, AudioOut, MarkInv, CallInv
<1>19. ASSUME AgentNotes PROVE MarkInv'
  BY <1>19 DEF AgentNotes, SendControl, MarkInv, CallInv
<1>20. ASSUME TestTone PROVE MarkInv'
  BY <1>20 DEF TestTone, AudioOut, MarkInv, CallInv
<1>21. ASSUME TestTtsStarts PROVE MarkInv'
  BY <1>21 DEF TestTtsStarts, MarkInv, CallInv
<1>22. ASSUME TestTtsChunk PROVE MarkInv'
  BY <1>22 DEF TestTtsChunk, AudioOut, MarkInv, CallInv
<1>23. ASSUME TestTtsEnds PROVE MarkInv'
  BY <1>23 DEF TestTtsEnds, MarkInv, CallInv
<1>24. ASSUME Hear PROVE MarkInv'
  <2>1. /\ inq' \in Seq(Clients \cup {End}) /\ Len(inq') = Len(inq) - 1 /\ Len(inq) \in Nat \ {0}
        /\ \A i \in 1..Len(inq') : i + 1 \in 1..Len(inq) /\ inq'[i] = inq[i + 1]
        /\ Head(inq) = inq[1]
    <3>1. inq' = Tail(inq) /\ inq # <<>> /\ inq \in Seq(Clients \cup {End})
      BY <1>24 DEF Hear, BrowserTypeOK
    <3>2. QED
      BY <3>1, TailKept
  <2>2. \A i \in 1..Len(inq') : inq'[i] = End => i = Len(inq') /\ ~bridgeOpen'
    <3>1. UNCHANGED bridgeOpen
      BY <1>24 DEF Hear
    <3>2. QED
      BY <2>1, <3>1 DEF MarkInv
  <2>3. ASSUME session' = "up", micReader' = "done" PROVE inq' = <<>> /\ ~bridgeOpen'
    <3>1. Head(inq) = End /\ UNCHANGED bridgeOpen
      BY <1>24, <2>3 DEF Hear
    <3>2. Len(inq) = 1 /\ ~bridgeOpen
      BY <2>1, <3>1 DEF MarkInv
    <3>3. QED
      BY <1>24, <2>1, <3>2, EmptySeq DEF Hear
  <2>4. QED
    BY <2>2, <2>3 DEF MarkInv
<1>25. ASSUME HearEnds PROVE MarkInv'
  BY <1>25 DEF HearEnds, Drained, MarkInv, CallInv
<1>26. ASSUME BridgeEndsSession PROVE MarkInv'
  BY <1>26 DEF BridgeEndsSession, MarkInv, CallInv
<1>27. ASSUME EndSession PROVE MarkInv'
  BY <1>27 DEF EndSession, MarkInv, CallInv
<1>28. ASSUME TellBrowser PROVE MarkInv'
  BY <1>28 DEF TellBrowser, SendControl, MarkInv, CallInv
<1>29. ASSUME ShutBridge PROVE MarkInv'
  <2>1. CloseBridge /\ session' # "up"
    BY <1>29 DEF ShutBridge
  <2>2. QED
    BY <2>1, CloseMarks
<1>30. CASE UNCHANGED browserVars
  BY <1>30 DEF MarkInv, CallInv
<1>31. QED
  BY <1>1, <1>2, <1>3, <1>4, <1>5, <1>6, <1>7, <1>8, <1>9, <1>10, <1>11, <1>12, <1>13,
     <1>14, <1>15, <1>16, <1>17, <1>18, <1>19, <1>20, <1>21, <1>22, <1>23, <1>24, <1>25,
     <1>26, <1>27, <1>28, <1>29, <1>30 DEF BrowserNext
-----------------------------------------------------------------------------
(* The theorems                                                            *)

\* The invariant holds in every reachable state of BrowserCall, whatever the number
\* of browsers that hold the call's token.
THEOREM BrowserInvariance == BrowserSpec => []BrowserIInv
<1>0. BrowserInit => BrowserIInv
  BY BrowserAssumption, BrowserInitially
<1>1. BrowserIInv /\ [BrowserNext]_browserVars => BrowserIInv'
  BY BrowserAssumption, BrowserTypeStep, BrowserCallStep, BrowserClientStep,
     BrowserVoiceStep, BrowserMarkStep DEF BrowserIInv
<1>2. QED
  BY <1>0, <1>1, PTL DEF BrowserSpec

\* The queues, the handlers of the websockets and their tasks keep their types.
THEOREM BrowserTypeCorrect == BrowserSpec => []BrowserTypeOK
<1>1. BrowserIInv => BrowserTypeOK
  BY DEF BrowserIInv
<1>2. QED
  BY <1>1, BrowserInvariance, PTL

\* The agent hears one browser only: one that comes after another is attached to the
\* same bridge, which never carries its microphone.
THEOREM OneBrowserHeard == BrowserSpec => []OneVoice
<1>1. BrowserIInv => OneVoice
  BY DEF BrowserIInv, BrowserTypeOK, VoiceInv, Voiced, OneVoice
<1>2. QED
  BY <1>1, BrowserInvariance, PTL

\* When _bridge_audio_reader has come to the end of the bridge of a session nobody
\* has stopped, it has left no microphone frame in the queue.
THEOREM NothingLeftUnheard == BrowserSpec => []TailHeard
<1>1. BrowserIInv => TailHeard
  BY DEF BrowserIInv, MarkInv, TailHeard
<1>2. QED
  BY <1>1, BrowserInvariance, PTL
=============================================================================
