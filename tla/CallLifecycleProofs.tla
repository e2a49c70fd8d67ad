------------------------- MODULE CallLifecycleProofs -------------------------
(***************************************************************************)
(* Proofs of the safety properties of CallLifecycle for every value of its *)
(* constants, and that it implements CallStatus.                           *)
(***************************************************************************)
EXTENDS CallLifecycle, FiniteSetTheorems, TLAPS

-----------------------------------------------------------------------------
(* The inductive invariant                                                 *)

\* What the pc of a request says about the rest of its local state.
ReqInv ==
    \A r \in Requests :
      /\ req[r].call = NoCall <=> req[r].pc = "idle"
      /\ req[r].pc = "idle" => req[r] = Idle
      /\ req[r].kind = "create" <=> req[r].pc \in {"dial", "insert"}
      /\ req[r].pc \in {"dial", "insert"} => req[r].route \in {"vapi", "direct", "stub"}
      /\ req[r].pc = "dial" => req[r].st = "none"
      /\ req[r].pc = "insert" => req[r].st \in {"QUEUED", "IN_PROGRESS"}
      /\ req[r].pc = "await" => req[r].kind = "stop" /\ req[r].route = "direct"
      /\ req[r].pc = "save" => req[r].st = "STOPPED"
      /\ req[r].pc = "probe" => req[r].st # "STOPPED"

\* A call has no row until its creation commits, nobody else has to do with it
\* until then, and its route is the one it was made with from then on.
RowInv ==
    /\ \A c \in Calls : row[c].st = "none" <=> row[c].route = "none"
    /\ \A r \in Requests :
         /\ req[r].kind = "create" =>
              /\ row[req[r].call].st = "none"
              /\ \A q \in Requests : req[q].call = req[r].call => q = r
         /\ req[r].call # NoCall /\ req[r].kind # "create" =>
              /\ row[req[r].call].st # "none"
              /\ req[r].route = row[req[r].call].route
              /\ req[r].st # "none"

\* Legs: the one a call was made with, on its own unless an answer was lost.
LegInv ==
    /\ \A c \in Calls :
         /\ row[c].route = "vapi" => vapi[c] # "none"
         /\ sess[c] # "none" => row[c].route \in {"none", "direct"}
         /\ sess[c] = "live" => fin[c].pc = "none"
         /\ fin[c].pc # "none" => sess[c] = "gone" /\ fin[c].st \in Terminal
         /\ fin[c].pc = "write" => row[c].st # "none"
         /\ c \notin lost =>
              /\ vapi[c] = "none" \/ sess[c] = "none"
              /\ vapi[c] # "none" \/ sess[c] # "none" =>
                   \/ row[c].st # "none"
                   \/ \E r \in Requests : req[r].call = c /\ req[r].pc = "insert"
    /\ \A r \in Requests :
         /\ req[r].pc = "insert" /\ req[r].route = "vapi" => vapi[req[r].call] # "none"
         /\ req[r].kind = "create" /\ sess[req[r].call] # "none" =>
              req[r].pc = "insert" /\ req[r].route = "direct"
         /\ req[r].pc = "dial" /\ req[r].call \notin lost => vapi[req[r].call] = "none"
         /\ req[r].pc = "await" => fin[req[r].call].pc # "none"

\* What is on its way was sent by Vapi.
HookInv == \A h \in hooks : h.kind = "status-update" => h.val \in VapiStatuses

\* A stop that is to be written was heard, or counted as unheard.
StopInv ==
    /\ StopHeard
    /\ \A r \in Requests :
         req[r].st = "STOPPED" =>
             req[r].call \in unheard \/ ~LegUp(req[r].call, req[r].route)

\* While the writers of a row take turns nobody who holds a status of a call has
\* missed its end, but the stop that has ended it itself.
TurnInv ==
    Serial =>
      /\ \A r, q \in Requests : req[r].call # NoCall /\ req[r].call = req[q].call => r = q
      /\ \A r, q \in Requests : req[r].kind = "create" /\ req[q].kind = "create" => r = q
      /\ \A r \in Requests :
           /\ req[r].pc = "await" => fin[req[r].call].st = "STOPPED"
           /\ req[r].call # NoCall /\ req[r].kind # "create" =>
                \/ Live(req[r].call)
                \/ /\ row[req[r].call].st = "STOPPED"
                   /\ req[r].pc = "await" \/ req[r].st = "STOPPED"
      /\ \A c \in Calls : fin[c].pc = "write" =>
           Live(c) /\ \A r \in Writers(c) : req[r].pc = "await"

LiveCalls == {c \in Calls : Live(c)}

\* A creation under way keeps a place free.
CapInv ==
    Serial =>
      /\ IsFiniteSet(LiveCalls)
      /\ Cardinality(LiveCalls) <= Cap
      /\ (\E r \in Requests : req[r].kind = "create") => Cardinality(LiveCalls) < Cap

IInv == TypeOK /\ ReqInv /\ RowInv /\ LegInv /\ HookInv /\ StopInv /\ TurnInv /\ CapInv

-----------------------------------------------------------------------------
(* The initial states                                                      *)

\* The invariant holds before the first call.
LEMMA InitIInv == Init => IInv
<1>1. SUFFICES ASSUME Init PROVE IInv
  OBVIOUS
<1>2. TypeOK
  <2>1. up \in SUBSET {"vapi", "direct"} /\ faults \in 0..MaxFaults
    BY <1>1, ConfigsAssumption, MaxFaultsAssumption DEF Init
  <2>2. QED
    BY <1>1, <2>1 DEF Init, TypeOK, Rows, Routes, Locals, Finals, Idle
<1>3. ReqInv /\ RowInv
  BY <1>1, NoneAssumption DEF Init, ReqInv, RowInv, Idle
<1>4. LegInv /\ HookInv
  BY <1>1 DEF Init, LegInv, HookInv, Idle
<1>5. StopInv
  BY <1>1 DEF Init, StopInv, StopHeard, Idle
<1>6. TurnInv
  BY <1>1 DEF Init, TurnInv, Idle
<1>7. CapInv
  <2>1. LiveCalls = {}
    BY <1>1 DEF Init, LiveCalls, Live
  <2>2. IsFiniteSet(LiveCalls) /\ Cardinality(LiveCalls) = 0
    BY <2>1, FS_EmptySet
  <2>3. QED
    BY <1>1, <2>2, CapAssumption DEF Init, CapInv, Idle
<1>8. QED
  BY <1>2, <1>3, <1>4, <1>5, <1>6, <1>7 DEF IInv

-----------------------------------------------------------------------------
(* What the steps of a request do                                          *)

\* The end of a request.
LEMMA DoneEffect ==
    ASSUME TypeOK, NEW r \in Requests, Done(r)
    PROVE  /\ req' \in [Requests -> Locals]
           /\ lock' \in [Calls -> Requests \cup {NoRequest}]
           /\ req'[r] = Idle
           /\ \A q \in Requests \ {r} : req'[q] = req[q]
<1>1. Idle \in Locals
  BY DEF Idle, Locals, Routes
<1>2. QED
  BY <1>1 DEF Done, TypeOK

\* A request gets a new local state.
LEMMA PutType ==
    ASSUME TypeOK, NEW r \in Requests, NEW v \in Locals, req' = [req EXCEPT ![r] = v]
    PROVE  /\ req' \in [Requests -> Locals]
           /\ req'[r] = v
           /\ \A q \in Requests \ {r} : req'[q] = req[q]
  BY DEF TypeOK

\* The next route is Direct after Vapi, or none and the creation is over.
LEMMA NextRouteEffect ==
    ASSUME TypeOK, NEW r \in Requests, NextRoute(r)
    PROVE  /\ req' \in [Requests -> Locals]
           /\ lock' \in [Calls -> Requests \cup {NoRequest}]
           /\ \A q \in Requests \ {r} : req'[q] = req[q]
           /\ \/ req'[r] = Idle
              \/ /\ req[r].route = "vapi" /\ req'[r].route = "direct"
                 /\ req'[r].pc = req[r].pc /\ req'[r].kind = req[r].kind
                 /\ req'[r].call = req[r].call /\ req'[r].st = req[r].st
<1>1. CASE Done(r)
  BY <1>1, DoneEffect
<1>2. CASE req[r].route = "vapi" /\ req' = [req EXCEPT ![r].route = "direct"] /\ UNCHANGED lock
  <2>1. [req[r] EXCEPT !.route = "direct"] \in Locals
    BY DEF TypeOK, Locals, Routes
  <2>2. req' = [req EXCEPT ![r] = [req[r] EXCEPT !.route = "direct"]]
    BY <1>2
  <2>3. QED
    BY <1>2, <2>1, <2>2, PutType DEF TypeOK, Locals
<1>3. QED
  BY <1>1, <1>2 DEF NextRoute, Fallback

\* The engine of a route is the route's own or the stub.
LEMMA EngineRoute ==
    ASSUME NEW route
    PROVE  Engine(route) = route \/ Engine(route) = "stub"
  BY DEF Engine

\* The status a request may learn for a call is one, and never STOPPED unless it
\* had it already.
LEMMA LiveStatusType ==
    ASSUME TypeOK, LegInv, NEW c \in Calls, NEW route, NEW st \in Statuses,
           route = "vapi" => vapi[c] # "none"
    PROVE  LiveStatus(c, route, st) \subseteq (Statuses \ {"STOPPED"}) \cup {st}
<1>1. CASE Engine(route) = "vapi"
  <2>1. vapi[c] \in VapiStatuses
    BY <1>1 DEF Engine, TypeOK
  <2>2. StatusOf(vapi[c]) \in Statuses \ {"STOPPED"}
    BY <2>1 DEF StatusOf, VapiStatuses, Statuses, Terminal
  <2>3. QED
    BY <1>1, <2>2 DEF LiveStatus, VapiAnswer
<1>2. CASE Engine(route) = "direct"
  BY <1>2 DEF LiveStatus, DirectAnswer, LegInv, Statuses, Terminal
<1>3. CASE Engine(route) # "vapi" /\ Engine(route) # "direct"
  BY <1>3 DEF LiveStatus
<1>4. QED
  BY <1>1, <1>2, <1>3

\* The engine's answer changes the status and the place of a request only.
LEMMA ProbeEffect ==
    ASSUME TypeOK, ReqInv, RowInv, LegInv, NEW r \in Requests, Probe(r)
    PROVE  /\ req' \in [Requests -> Locals]
           /\ \A q \in Requests \ {r} : req'[q] = req[q]
           /\ req[r].pc = "probe" /\ req'[r].pc \in {"flush", "commit", "act"}
           /\ req'[r].kind = req[r].kind /\ req'[r].call = req[r].call /\ req'[r].route = req[r].route
           /\ req'[r].st \in Statuses
           /\ req'[r].st # "STOPPED" \/ req'[r].st = req[r].st
<1>1. req[r].pc = "probe" /\ req[r].kind # "create" /\ req[r].call \in Calls
  BY DEF Probe, ReqInv, TypeOK, Locals
<1>2. req[r].st \in Statuses
  BY <1>1, NoneAssumption DEF RowInv, TypeOK, Locals
<1>3. req[r].route = "vapi" => vapi[req[r].call] # "none"
  BY <1>1, NoneAssumption DEF RowInv, LegInv
<1>4. PICK st \in LiveStatus(req[r].call, req[r].route, req[r].st) \cup {req[r].st} :
        req' = [req EXCEPT ![r].st = st,
                           ![r].pc = IF st # req[r].st THEN "flush" ELSE AfterGet(req[r].kind)]
  BY DEF Probe
<1>5. st \in Statuses /\ (st # "STOPPED" \/ st = req[r].st)
  BY <1>1, <1>2, <1>3, <1>4, LiveStatusType
<1> DEFINE at == IF st # req[r].st THEN "flush" ELSE AfterGet(req[r].kind)
           v == [req[r] EXCEPT !.st = st, !.pc = at]
<1>6. at \in {"flush", "commit", "act"}
  BY DEF AfterGet
<1>7. req' = [req EXCEPT ![r] = v]
  BY <1>4
<1> HIDE DEF at
<1>8. v \in Locals /\ v.kind = req[r].kind /\ v.call = req[r].call /\ v.route = req[r].route
      /\ v.st = st /\ v.pc = at
  BY <1>5, <1>6 DEF TypeOK, Locals
<1> HIDE DEF v
<1>9. QED
  BY <1>1, <1>5, <1>6, <1>7, <1>8, PutType

\* What a webhook says of a call is a status, and not STOPPED.
LEMMA NewStatusType ==
    ASSUME TypeOK, HookInv, NEW h \in hooks
    PROVE  NewStatus(h) \in Statuses \ {"STOPPED"}
<1>1. h.kind \in HookKinds
  BY DEF TypeOK, Hooks
<1>2. CASE h.kind = "status-update"
  <2>1. StatusOf(h.val) \in Statuses \ {"STOPPED"}
    BY <1>2 DEF HookInv, StatusOf, VapiStatuses, Statuses, Terminal
  <2>2. QED
    BY <1>2, <2>1 DEF NewStatus
<1>3. CASE h.kind # "status-update"
  BY <1>1, <1>3 DEF NewStatus, EndOfCall, HookKinds, Statuses, Terminal
<1>4. QED
  BY <1>2, <1>3

\* A webhook is dropped, or the request holds what it says of a live call that
\* was made with Vapi.
LEMMA DeliverEffect ==
    ASSUME TypeOK, HookInv, NEW r \in Requests, NEW h \in hooks, NEW again \in BOOLEAN, Deliver(r, h, again)
    PROVE  /\ req' \in [Requests -> Locals]
           /\ hooks' \subseteq hooks
           /\ req[r] = Idle
           /\ h.call \in Calls
           /\ \A q \in Requests \ {r} : req'[q] = req[q]
           /\ \/ req'[r] = Idle
              \/ /\ Turn(h.call) /\ Live(h.call) /\ row[h.call].route = "vapi"
                 /\ req'[r].pc = "flush" /\ req'[r].kind = "hook" /\ req'[r].call = h.call
                 /\ req'[r].route = "vapi" /\ req'[r].st \in Statuses \ {"STOPPED"}
<1>1. NewStatus(h) \in Statuses \ {"STOPPED"} /\ h.call \in Calls
  BY NewStatusType DEF TypeOK, Hooks
<1> DEFINE v == [pc |-> "flush", kind |-> "hook", call |-> h.call, st |-> NewStatus(h), route |-> "vapi"]
<1>2. v \in Locals
  BY <1>1 DEF Locals, Routes
<1>3. req[r] = Idle /\ Turn(h.call) /\ hooks' \subseteq hooks
  BY DEF Deliver
<1>4. CASE HookApplies(h)
  <2>1. req' = [req EXCEPT ![r] = v]
    BY <1>4 DEF Deliver
  <2>2. QED
    BY <1>1, <1>2, <1>3, <1>4, <2>1, PutType DEF HookApplies
<1>5. CASE ~HookApplies(h)
  <2>1. req' = req
    BY <1>5 DEF Deliver
  <2>2. QED
    BY <1>1, <1>3, <2>1 DEF TypeOK
<1>6. QED
  BY <1>4, <1>5

\* A request goes to another place, perhaps with another status.
Moves(r, pc, st) ==
    /\ req' \in [Requests -> Locals]
    /\ \A q \in Requests \ {r} : req'[q] = req[q]
    /\ req'[r].pc = pc /\ req'[r].st = st
    /\ req'[r].kind = req[r].kind /\ req'[r].call = req[r].call /\ req'[r].route = req[r].route

\* A request that goes to another place with a new status keeps the rest of its fields.
LEMMA MoveEffect ==
    ASSUME TypeOK, NEW r \in Requests, NEW pc \in {"insert", "act", "await", "save", "commit"},
           NEW st \in Statuses \cup {"none"}, req' = [req EXCEPT ![r].pc = pc, ![r].st = st]
    PROVE  Moves(r, pc, st)
<1> DEFINE v == [req[r] EXCEPT !.pc = pc, !.st = st]
<1>1. /\ v \in Locals /\ v.pc = pc /\ v.st = st /\ v.kind = req[r].kind /\ v.call = req[r].call
      /\ v.route = req[r].route
  BY DEF TypeOK, Locals
<1>2. req' = [req EXCEPT ![r] = v]
  OBVIOUS
<1> HIDE DEF v
<1>3. QED
  BY <1>1, <1>2, PutType DEF Moves

\* A request that only goes to another place keeps its status, too.
LEMMA GotoEffect ==
    ASSUME TypeOK, NEW r \in Requests, NEW pc \in {"act", "await", "commit"}, Goto(r, pc)
    PROVE  Moves(r, pc, req[r].st)
<1> DEFINE v == [req[r] EXCEPT !.pc = pc]
<1>1. /\ v \in Locals /\ v.pc = pc /\ v.st = req[r].st /\ v.kind = req[r].kind /\ v.call = req[r].call
      /\ v.route = req[r].route
  BY DEF TypeOK, Locals
<1>2. req' = [req EXCEPT ![r] = v]
  BY DEF Goto
<1> HIDE DEF v
<1>3. QED
  BY <1>1, <1>2, PutType DEF Moves

\* The steps that only move their request.
LEMMA StepMoves ==
    ASSUME TypeOK, NEW r \in Requests
    PROVE  /\ DialVapi(r) => /\ req[r].pc = "dial" /\ req[r].route = "vapi"
                             /\ Moves(r, "insert", "QUEUED")
           /\ DialStub(r) => /\ req[r].pc = "dial" /\ req[r].route = "stub"
                             /\ Moves(r, "insert", "QUEUED")
           /\ DialDirect(r) => /\ req[r].pc = "dial" /\ req[r].route = "direct"
                               /\ Moves(r, "insert", "IN_PROGRESS")
           /\ Flush(r) => /\ req[r].pc = "flush"
                          /\ Moves(r, "commit", req[r].st) \/ Moves(r, "act", req[r].st)
           /\ Steer(r) => req[r].pc = "act" /\ Moves(r, "commit", req[r].st)
           /\ Save(r) => req[r].pc = "save" /\ Moves(r, "commit", req[r].st)
           /\ Stopped(r) => /\ req[r].pc = "await" /\ fin[req[r].call].pc = "done"
                            /\ Moves(r, "save", "STOPPED")
           /\ StopVapi(r) => /\ req[r].pc = "act" /\ req[r].route = "vapi"
                             /\ Moves(r, "save", "STOPPED")
           /\ StopNobody(r) => req[r].pc = "act" /\ Moves(r, "save", "STOPPED")
           /\ StopDirect(r) => /\ req[r].pc = "act" /\ req[r].kind = "stop" /\ req[r].route = "direct"
                               /\ Moves(r, "await", req[r].st)
<1>1. {"QUEUED", "IN_PROGRESS", "STOPPED"} \subseteq Statuses
  BY DEF Statuses, Terminal
<1>2. DialVapi(r) => /\ req[r].pc = "dial" /\ req[r].route = "vapi"
                     /\ Moves(r, "insert", "QUEUED")
  BY <1>1, MoveEffect DEF DialVapi
<1>3. DialStub(r) => /\ req[r].pc = "dial" /\ req[r].route = "stub"
                     /\ Moves(r, "insert", "QUEUED")
  BY <1>1, MoveEffect DEF DialStub
<1>4. DialDirect(r) => /\ req[r].pc = "dial" /\ req[r].route = "direct"
                       /\ Moves(r, "insert", "IN_PROGRESS")
  BY <1>1, MoveEffect DEF DialDirect
<1>5. Flush(r) => /\ req[r].pc = "flush"
                  /\ Moves(r, "commit", req[r].st) \/ Moves(r, "act", req[r].st)
  BY GotoEffect DEF Flush, AfterGet
<1>6. Steer(r) => req[r].pc = "act" /\ Moves(r, "commit", req[r].st)
  BY GotoEffect DEF Steer
<1>7. Save(r) => req[r].pc = "save" /\ Moves(r, "commit", req[r].st)
  BY GotoEffect DEF Save
<1>8. Stopped(r) => /\ req[r].pc = "await" /\ fin[req[r].call].pc = "done"
                    /\ Moves(r, "save", "STOPPED")
  BY <1>1, MoveEffect DEF Stopped
<1>9. StopVapi(r) => /\ req[r].pc = "act" /\ req[r].route = "vapi"
                     /\ Moves(r, "save", "STOPPED")
  BY <1>1, MoveEffect, EngineRoute DEF StopVapi
<1>10. StopNobody(r) => req[r].pc = "act" /\ Moves(r, "save", "STOPPED")
  BY <1>1, MoveEffect DEF StopNobody
<1>11. StopDirect(r) => /\ req[r].pc = "act" /\ req[r].kind = "stop" /\ req[r].route = "direct"
                        /\ Moves(r, "await", req[r].st)
  BY GotoEffect, EngineRoute DEF StopDirect
<1>12. QED
  BY <1>2, <1>3, <1>4, <1>5, <1>6, <1>7, <1>8, <1>9, <1>10, <1>11

\* The steps that end their request, or a route of it.
Ends(r) == req'[r] = Idle /\ \A q \in Requests \ {r} : req'[q] = req[q]

Reroutes(r) ==
    /\ \A q \in Requests \ {r} : req'[q] = req[q]
    /\ req[r].route = "vapi" /\ req'[r].route = "direct"
    /\ req'[r].pc = "dial" /\ req'[r].kind = req[r].kind
    /\ req'[r].call = req[r].call /\ req'[r].st = req[r].st

\* The steps that end a request, or send it to the other engine.
LEMMA StepEnds ==
    ASSUME TypeOK, NEW r \in Requests
    PROVE  /\ CommitCreate(r) \/ CommitCreateFails(r) => req[r].pc = "insert" /\ Ends(r)
           /\ Commit(r) => req[r].pc = "commit" /\ Ends(r)
           /\ StopVapiFails(r) => req[r].pc = "act" /\ Ends(r)
           /\ DialRefused(r) => req[r].pc = "dial" /\ (Ends(r) \/ Reroutes(r))
           /\ DialAnswerLost(r) => /\ req[r].pc = "dial" /\ req[r].route = "vapi"
                                   /\ Ends(r) \/ Reroutes(r)
<1>1. CommitCreate(r) \/ CommitCreateFails(r) => req[r].pc = "insert" /\ Ends(r)
  BY DoneEffect DEF CommitCreate, CommitCreateFails, Ends
<1>2. Commit(r) => req[r].pc = "commit" /\ Ends(r)
  BY DoneEffect DEF Commit, Ends
<1>3. StopVapiFails(r) => req[r].pc = "act" /\ Ends(r)
  BY DoneEffect DEF StopVapiFails, Ends
<1>4. DialRefused(r) => req[r].pc = "dial" /\ (Ends(r) \/ Reroutes(r))
  BY NextRouteEffect DEF DialRefused, Ends, Reroutes
<1>5. DialAnswerLost(r) => /\ req[r].pc = "dial" /\ req[r].route = "vapi"
                           /\ Ends(r) \/ Reroutes(r)
  BY NextRouteEffect DEF DialAnswerLost, Ends, Reroutes
<1>6. QED
  BY <1>1, <1>2, <1>3, <1>4, <1>5

\* A request begins.
LEMMA BeginEffect ==
    ASSUME TypeOK, NEW r \in Requests, NEW c \in Calls, NEW kind \in {"get", "stop", "steer"},
           Begin(r, c, kind)
    PROVE  /\ req' \in [Requests -> Locals]
           /\ \A q \in Requests \ {r} : req'[q] = req[q]
           /\ req[r] = Idle /\ Live(c) /\ Turn(c)
           /\ req'[r].pc = "probe" /\ req'[r].kind = kind /\ req'[r].call = c
           /\ req'[r].st = row[c].st /\ req'[r].route = row[c].route
<1> DEFINE v == [pc |-> "probe", kind |-> kind, call |-> c, st |-> row[c].st, route |-> row[c].route]
<1>1. v \in Locals
  BY DEF TypeOK, Rows, Locals
<1>2. req' = [req EXCEPT ![r] = v] /\ req[r] = Idle /\ Live(c) /\ Turn(c)
  BY DEF Begin
<1>3. QED
  BY <1>1, <1>2, PutType

\* What a creation knows when it begins to dial.
LEMMA CreateEffect ==
    ASSUME TypeOK, NEW r \in Requests, NEW c \in Calls, Create(r, c)
    PROVE  /\ req' \in [Requests -> Locals]
           /\ \A q \in Requests \ {r} : req'[q] = req[q]
           /\ req[r] = Idle
           /\ req'[r].pc = "dial" /\ req'[r].kind = "create" /\ req'[r].call = c
           /\ req'[r].st = "none" /\ req'[r].route \in {"vapi", "direct", "stub"}
<1>1. PICK mode \in {"auto", "vapi", "direct"} : \E route \in Select(mode) :
        req' = [req EXCEPT ![r] = [pc |-> "dial", kind |-> "create", call |-> c, st |-> "none", route |-> route]]
  BY DEF Create
<1>2. Select(mode) \subseteq {"vapi", "direct", "stub"}
  BY DEF Select, TypeOK
<1>3. PICK route \in {"vapi", "direct", "stub"} :
        req' = [req EXCEPT ![r] = [pc |-> "dial", kind |-> "create", call |-> c, st |-> "none", route |-> route]]
  BY <1>1, <1>2
<1> DEFINE v == [pc |-> "dial", kind |-> "create", call |-> c, st |-> "none", route |-> route]
<1>4. v \in Locals
  BY DEF Locals, Routes
<1>5. req' = [req EXCEPT ![r] = v] /\ req[r] = Idle
  BY <1>3 DEF Create
<1>6. QED
  BY <1>4, <1>5, PutType

-----------------------------------------------------------------------------
(* The types                                                               *)

\* Every action keeps the types of the variables.
LEMMA TypeStep == TypeOK /\ ReqInv /\ RowInv /\ LegInv /\ HookInv /\ [Next]_vars => TypeOK'
<1>1. SUFFICES ASSUME TypeOK, ReqInv, RowInv, LegInv, HookInv, [Next]_vars PROVE TypeOK'
  OBVIOUS
<1> USE <1>1
<1>2. ASSUME NEW r \in Requests, DialVapi(r) PROVE TypeOK'
  BY <1>2, StepMoves DEF DialVapi, Moves, TypeOK, VapiStatuses
<1>3. ASSUME NEW r \in Requests, DialDirect(r) PROVE TypeOK'
  BY <1>3, StepMoves DEF DialDirect, Moves, TypeOK
<1>4. ASSUME NEW r \in Requests, DialStub(r) PROVE TypeOK'
  BY <1>4, StepMoves DEF DialStub, Moves, TypeOK
<1>5. ASSUME NEW r \in Requests, DialRefused(r) PROVE TypeOK'
  BY <1>5, NextRouteEffect DEF DialRefused, TypeOK
<1>6. ASSUME NEW r \in Requests, DialAnswerLost(r) PROVE TypeOK'
  <2>1. req[r].call \in Calls
    BY <1>6, NoneAssumption DEF DialAnswerLost, ReqInv, TypeOK, Locals
  <2>2. faults' \in 0..MaxFaults
    BY <1>6, MaxFaultsAssumption DEF DialAnswerLost, Fault, TypeOK
  <2>3. QED
    BY <1>6, <2>1, <2>2, NextRouteEffect DEF DialAnswerLost, VapiStatuses, TypeOK
<1>7. ASSUME NEW r \in Requests, CommitCreate(r) PROVE TypeOK'
  <2>1. [st |-> req[r].st, route |-> req[r].route] \in Rows
    BY DEF TypeOK, Locals, Rows
  <2>2. row' \in [Calls -> Rows]
    BY <1>7, <2>1 DEF CommitCreate, TypeOK
  <2>3. QED
    BY <1>7, <2>2, DoneEffect DEF CommitCreate, TypeOK
<1>8. ASSUME NEW r \in Requests, CommitCreateFails(r) PROVE TypeOK'
  <2>1. req[r].call \in Calls
    BY <1>8, NoneAssumption DEF CommitCreateFails, ReqInv, TypeOK, Locals
  <2>2. faults' \in 0..MaxFaults
    BY <1>8, MaxFaultsAssumption DEF CommitCreateFails, Fault, TypeOK
  <2>3. QED
    BY <1>8, <2>1, <2>2, DoneEffect DEF CommitCreateFails, TypeOK
<1>9. ASSUME NEW r \in Requests, Probe(r) PROVE TypeOK'
  BY <1>9, ProbeEffect DEF Probe, TypeOK
<1>10. ASSUME NEW r \in Requests, Flush(r) PROVE TypeOK'
  BY <1>10, StepMoves DEF Flush, Moves, TypeOK
<1>11. ASSUME NEW r \in Requests, Steer(r) PROVE TypeOK'
  BY <1>11, StepMoves DEF Steer, Moves, TypeOK
<1>12. ASSUME NEW r \in Requests, Stopped(r) PROVE TypeOK'
  BY <1>12, StepMoves DEF Stopped, Moves, TypeOK
<1>13. ASSUME NEW r \in Requests, Save(r) PROVE TypeOK'
  BY <1>13, StepMoves DEF Save, Moves, TypeOK
<1>14. ASSUME NEW r \in Requests, Commit(r) PROVE TypeOK'
  <2>1. \A c \in Calls : [row[c] EXCEPT !.st = req[r].st] \in Rows
    BY DEF TypeOK, Locals, Rows
  <2>2. row' = row \/ row' = [row EXCEPT ![req[r].call] = [row[req[r].call] EXCEPT !.st = req[r].st]]
    BY <1>14 DEF Commit
  <2>3. row' \in [Calls -> Rows]
    BY <2>1, <2>2 DEF TypeOK
  <2>4. QED
    BY <1>14, <2>3, DoneEffect DEF Commit, TypeOK
<1>15. ASSUME NEW r \in Requests, StopVapi(r) PROVE TypeOK'
  <2>1. EndHooks(req[r].call) \subseteq Hooks
    BY DEF EndHooks
  <2>2. hooks' \in SUBSET Hooks /\ vapi' \in [Calls -> VapiStatuses \cup {"none"}]
    BY <1>15, <2>1 DEF StopVapi, TypeOK, VapiStatuses
  <2>3. QED
    BY <1>15, <2>2, StepMoves DEF StopVapi, Moves, TypeOK
<1>16. ASSUME NEW r \in Requests, StopVapiFails(r) PROVE TypeOK'
  BY <1>16, DoneEffect DEF StopVapiFails, TypeOK
<1>17. ASSUME NEW r \in Requests, StopDirect(r) PROVE TypeOK'
  <2>1. req[r].call \in Calls
    BY <1>17, NoneAssumption DEF StopDirect, ReqInv, TypeOK, Locals
  <2>2. [pc |-> "due", st |-> "STOPPED"] \in Finals
    BY DEF Finals, Statuses, Terminal
  <2>3. fin' \in [Calls -> Finals] /\ sess' \in [Calls -> {"none", "live", "gone"}]
    BY <1>17, <2>1, <2>2 DEF StopDirect, TypeOK
  <2>4. QED
    BY <1>17, <2>3, StepMoves DEF StopDirect, Moves, TypeOK
<1>18. ASSUME NEW r \in Requests, StopNobody(r) PROVE TypeOK'
  <2>1. req[r].call \in Calls
    BY <1>18, NoneAssumption DEF StopNobody, ReqInv, TypeOK, Locals
  <2>2. QED
    BY <1>18, <2>1, StepMoves DEF StopNobody, Moves, TypeOK
<1>19. ASSUME NEW r \in Requests, NEW c \in Calls, Create(r, c) PROVE TypeOK'
  BY <1>19, CreateEffect DEF Create, TypeOK
<1>20. ASSUME NEW r \in Requests, NEW c \in Calls, NEW kind \in {"get", "stop", "steer"}, Begin(r, c, kind) PROVE TypeOK'
  BY <1>20, BeginEffect DEF Begin, TypeOK
<1>21. ASSUME NEW r \in Requests, NEW h \in hooks, NEW again \in BOOLEAN, Deliver(r, h, again) PROVE TypeOK'
  <2>1. missed' \in SUBSET Calls
    <3>1. h.call \in Calls
      BY <1>21, DeliverEffect
    <3>2. missed' = missed \/ missed' = missed \cup {h.call}
      BY <1>21 DEF Deliver
    <3>3. QED
      BY <3>1, <3>2 DEF TypeOK
  <2>2. QED
    BY <1>21, <2>1, DeliverEffect DEF Deliver, TypeOK
<1>22. ASSUME NEW c \in Calls, SessionEnds(c) PROVE TypeOK'
  <2>1. PICK st \in {"COMPLETED", "FAILED"} : fin' = [fin EXCEPT ![c] = [pc |-> "due", st |-> st]]
    BY <1>22 DEF SessionEnds
  <2>2. [pc |-> "due", st |-> st] \in Finals
    BY DEF Finals, Statuses, Terminal
  <2>3. fin' \in [Calls -> Finals]
    BY <2>1, <2>2 DEF TypeOK
  <2>4. QED
    BY <1>22, <2>3 DEF SessionEnds, TypeOK
<1>23. ASSUME NEW c \in Calls, FinalizeRead(c) PROVE TypeOK'
  <2>1. [fin[c] EXCEPT !.pc = IF Live(c) THEN "write" ELSE "done"] \in Finals
    BY DEF TypeOK, Finals
  <2>2. fin' = [fin EXCEPT ![c] = [fin[c] EXCEPT !.pc = IF Live(c) THEN "write" ELSE "done"]]
    BY <1>23 DEF FinalizeRead
  <2>3. fin' \in [Calls -> Finals]
    BY <2>1, <2>2 DEF TypeOK
  <2>4. QED
    BY <1>23, <2>3 DEF FinalizeRead, TypeOK
<1>24. ASSUME NEW c \in Calls, FinalizeWrite(c) PROVE TypeOK'
  <2>1. [fin[c] EXCEPT !.pc = "done"] \in Finals /\ [row[c] EXCEPT !.st = fin[c].st] \in Rows
    BY DEF TypeOK, Finals, Rows
  <2>2. /\ fin' = [fin EXCEPT ![c] = [fin[c] EXCEPT !.pc = "done"]]
        /\ row' = [row EXCEPT ![c] = [row[c] EXCEPT !.st = fin[c].st]]
    BY <1>24 DEF FinalizeWrite
  <2>3. fin' \in [Calls -> Finals] /\ row' \in [Calls -> Rows]
    BY <2>1, <2>2 DEF TypeOK
  <2>4. QED
    BY <1>24, <2>3 DEF FinalizeWrite, TypeOK
<1>25. ASSUME NEW c \in Calls, FinalizeFails(c) PROVE TypeOK'
  <2>1. [fin[c] EXCEPT !.pc = "done"] \in Finals
    BY DEF TypeOK, Finals
  <2>2. fin' = [fin EXCEPT ![c] = [fin[c] EXCEPT !.pc = "done"]]
    BY <1>25 DEF FinalizeFails
  <2>3. fin' \in [Calls -> Finals]
    BY <2>1, <2>2 DEF TypeOK
  <2>4. faults' \in 0..MaxFaults
    BY <1>25, MaxFaultsAssumption DEF FinalizeFails, Fault, TypeOK
  <2>5. QED
    BY <1>25, <2>3, <2>4 DEF FinalizeFails, TypeOK
<1>26. ASSUME NEW c \in Calls, HandOver(c) PROVE TypeOK'
  <2>1. [row[c] EXCEPT !.st = "CONNECTED_TO_MANAGER"] \in Rows
    BY DEF TypeOK, Rows, Statuses
  <2>2. row' = [row EXCEPT ![c] = [row[c] EXCEPT !.st = "CONNECTED_TO_MANAGER"]]
    BY <1>26 DEF HandOver
  <2>3. row' \in [Calls -> Rows]
    BY <2>1, <2>2 DEF TypeOK
  <2>4. QED
    BY <1>26, <2>3 DEF HandOver, TypeOK
<1>27. ASSUME NEW c \in Calls, VapiMoves(c) PROVE TypeOK'
  <2>1. PICK s \in {"ringing", "in-progress", "forwarding"} :
          vapi' = [vapi EXCEPT ![c] = s] /\ hooks' = hooks \cup Sent(c, "status-update", s)
    BY <1>27, StagesAssumption DEF VapiMoves
  <2>2. Sent(c, "status-update", s) \subseteq Hooks
    BY DEF Sent, Hooks, HookKinds, VapiStatuses
  <2>3. QED
    BY <1>27, <2>1, <2>2 DEF VapiMoves, VapiStatuses, TypeOK
<1>28. ASSUME NEW c \in Calls, VapiAsksForManager(c) PROVE TypeOK'
  <2>1. Sent(c, "transfer-destination-request", "none") \subseteq Hooks
    BY DEF Sent, Hooks, HookKinds, VapiStatuses
  <2>2. QED
    BY <1>28, <2>1 DEF VapiAsksForManager, TypeOK
<1>29. ASSUME NEW c \in Calls, VapiEnds(c) PROVE TypeOK'
  <2>1. PICK reason \in {"ok", "error"} :
          hooks' = hooks \cup Sent(c, "status-update", "ended") \cup Sent(c, "end-of-call-report", reason)
                         \cup (IF reason = "ok" THEN Sent(c, "hang", "none") ELSE {})
    BY <1>29 DEF VapiEnds
  <2>2. Sent(c, "status-update", "ended") \cup Sent(c, "end-of-call-report", reason)
        \cup Sent(c, "hang", "none") \subseteq Hooks
    BY DEF Sent, Hooks, HookKinds, VapiStatuses
  <2>3. QED
    BY <1>29, <2>1, <2>2 DEF VapiEnds, VapiStatuses, TypeOK
<1>30. CASE Reconfigure
  BY <1>30, ConfigsAssumption DEF Reconfigure, TypeOK
<1>31. CASE UNCHANGED vars
  BY <1>31 DEF vars, TypeOK
<1> HIDE DEF TypeOK
<1>32. QED
  BY <1>1, <1>2, <1>3, <1>4, <1>5, <1>6, <1>7, <1>8, <1>9, <1>10, <1>11, <1>12, <1>13, <1>14, <1>15,
     <1>16, <1>17, <1>18, <1>19, <1>20, <1>21, <1>22, <1>23, <1>24, <1>25, <1>26, <1>27, <1>28,
     <1>29, <1>30, <1>31, Zenon DEF Next, Step, Finalize

-----------------------------------------------------------------------------
(* Requests, rows and legs                                                 *)

\* The local states stay consistent.
LEMMA ReqStep == TypeOK /\ ReqInv /\ RowInv /\ LegInv /\ HookInv /\ [Next]_vars => ReqInv'
<1>1. SUFFICES ASSUME TypeOK, ReqInv, RowInv, LegInv, HookInv, [Next]_vars PROVE ReqInv'
  OBVIOUS
<1> USE <1>1 DEF ReqInv
<1>2. ASSUME NEW r \in Requests, DialVapi(r) PROVE ReqInv'
  BY <1>2, StepMoves, NoneAssumption DEF Moves, Idle
<1>3. ASSUME NEW r \in Requests, DialDirect(r) PROVE ReqInv'
  BY <1>3, StepMoves, NoneAssumption DEF Moves, Idle
<1>4. ASSUME NEW r \in Requests, DialStub(r) PROVE ReqInv'
  BY <1>4, StepMoves, NoneAssumption DEF Moves, Idle
<1>5. ASSUME NEW r \in Requests, DialRefused(r) PROVE ReqInv'
  BY <1>5, StepEnds, NoneAssumption DEF Ends, Reroutes, Idle
<1>6. ASSUME NEW r \in Requests, DialAnswerLost(r) PROVE ReqInv'
  BY <1>6, StepEnds, NoneAssumption DEF Ends, Reroutes, Idle
<1>7. ASSUME NEW r \in Requests, CommitCreate(r) PROVE ReqInv'
  BY <1>7, StepEnds, NoneAssumption DEF Ends, Idle
<1>8. ASSUME NEW r \in Requests, CommitCreateFails(r) PROVE ReqInv'
  BY <1>8, StepEnds, NoneAssumption DEF Ends, Idle
<1>9. ASSUME NEW r \in Requests, Probe(r) PROVE ReqInv'
  BY <1>9, ProbeEffect, NoneAssumption DEF Idle
<1>10. ASSUME NEW r \in Requests, Flush(r) PROVE ReqInv'
  BY <1>10, StepMoves, NoneAssumption DEF Moves, Idle
<1>11. ASSUME NEW r \in Requests, Steer(r) PROVE ReqInv'
  BY <1>11, StepMoves, NoneAssumption DEF Moves, Idle
<1>12. ASSUME NEW r \in Requests, Stopped(r) PROVE ReqInv'
  BY <1>12, StepMoves, NoneAssumption DEF Moves, Idle
<1>13. ASSUME NEW r \in Requests, Save(r) PROVE ReqInv'
  BY <1>13, StepMoves, NoneAssumption DEF Moves, Idle
<1>14. ASSUME NEW r \in Requests, Commit(r) PROVE ReqInv'
  BY <1>14, StepEnds, NoneAssumption DEF Ends, Idle
<1>15. ASSUME NEW r \in Requests, StopVapi(r) PROVE ReqInv'
  BY <1>15, StepMoves, NoneAssumption DEF Moves, Idle
<1>16. ASSUME NEW r \in Requests, StopVapiFails(r) PROVE ReqInv'
  BY <1>16, StepEnds, NoneAssumption DEF Ends, Idle
<1>17. ASSUME NEW r \in Requests, StopDirect(r) PROVE ReqInv'
  BY <1>17, StepMoves, NoneAssumption DEF Moves, Idle
<1>18. ASSUME NEW r \in Requests, StopNobody(r) PROVE ReqInv'
  BY <1>18, StepMoves, NoneAssumption DEF Moves, Idle
<1>19. ASSUME NEW r \in Requests, NEW c \in Calls, Create(r, c) PROVE ReqInv'
  BY <1>19, CreateEffect, NoneAssumption DEF Idle
<1>20. ASSUME NEW r \in Requests, NEW c \in Calls, NEW kind \in {"get", "stop", "steer"}, Begin(r, c, kind) PROVE ReqInv'
  BY <1>20, BeginEffect, NoneAssumption DEF Idle, Live, Terminal
<1>21. ASSUME NEW r \in Requests, NEW h \in hooks, NEW again \in BOOLEAN, Deliver(r, h, again) PROVE ReqInv'
  BY <1>21, DeliverEffect, NoneAssumption DEF Idle
<1>22. ASSUME NEW c \in Calls, SessionEnds(c) PROVE ReqInv'
  BY <1>22 DEF SessionEnds
<1>23. ASSUME NEW c \in Calls, FinalizeRead(c) PROVE ReqInv'
  BY <1>23 DEF FinalizeRead
<1>24. ASSUME NEW c \in Calls, FinalizeWrite(c) PROVE ReqInv'
  BY <1>24 DEF FinalizeWrite
<1>25. ASSUME NEW c \in Calls, FinalizeFails(c) PROVE ReqInv'
  BY <1>25 DEF FinalizeFails
<1>26. ASSUME NEW c \in Calls, HandOver(c) PROVE ReqInv'
  BY <1>26 DEF HandOver
<1>27. ASSUME NEW c \in Calls, VapiMoves(c) PROVE ReqInv'
  BY <1>27 DEF VapiMoves
<1>28. ASSUME NEW c \in Calls, VapiAsksForManager(c) PROVE ReqInv'
  BY <1>28 DEF VapiAsksForManager
<1>29. ASSUME NEW c \in Calls, VapiEnds(c) PROVE ReqInv'
  BY <1>29 DEF VapiEnds
<1>30. CASE Reconfigure
  BY <1>30 DEF Reconfigure
<1>31. CASE UNCHANGED vars
  BY <1>31 DEF vars
<1> HIDE DEF ReqInv
<1>32. QED
  BY <1>1, <1>2, <1>3, <1>4, <1>5, <1>6, <1>7, <1>8, <1>9, <1>10, <1>11, <1>12, <1>13, <1>14, <1>15,
     <1>16, <1>17, <1>18, <1>19, <1>20, <1>21, <1>22, <1>23, <1>24, <1>25, <1>26, <1>27, <1>28,
     <1>29, <1>30, <1>31, Zenon DEF Next, Step, Finalize

\* The call of a request is a call, or there is none.
LEMMA CallOf == TypeOK => \A q \in Requests : req[q].call \in Calls \cup {NoCall}
  BY DEF TypeOK, Locals

\* The steps that write a row.
Writes(c, st) ==
    /\ row'[c].st = st /\ row'[c].route = row[c].route
    /\ \A d \in Calls \ {c} : row'[d] = row[d]

\* What the steps that write rows do to them: no step touches the row of another call.
LEMMA WriteEffect ==
    ASSUME TypeOK, ReqInv
    PROVE  /\ \A r \in Requests : CommitCreate(r) =>
                /\ req[r].call \in Calls
                /\ row'[req[r].call].st = req[r].st /\ row'[req[r].call].route = req[r].route
                /\ \A d \in Calls \ {req[r].call} : row'[d] = row[d]
           /\ \A r \in Requests : Commit(r) =>
                /\ req[r].call \in Calls
                /\ row' = row \/ Writes(req[r].call, req[r].st)
           /\ \A c \in Calls : FinalizeWrite(c) => Writes(c, fin[c].st)
           /\ \A c \in Calls : HandOver(c) => Writes(c, "CONNECTED_TO_MANAGER")
<1>1. ASSUME NEW r \in Requests, req[r].pc \in {"insert", "commit"} PROVE req[r].call \in Calls
  BY <1>1 DEF TypeOK, ReqInv, Locals
<1>2. ASSUME NEW c \in Calls, NEW st, row' = [row EXCEPT ![c].st = st] PROVE Writes(c, st)
  BY <1>2 DEF TypeOK, Rows, Writes
<1>3. ASSUME NEW r \in Requests, CommitCreate(r)
      PROVE  /\ req[r].call \in Calls
             /\ row'[req[r].call].st = req[r].st /\ row'[req[r].call].route = req[r].route
             /\ \A d \in Calls \ {req[r].call} : row'[d] = row[d]
  BY <1>1, <1>3 DEF CommitCreate, TypeOK
<1>4. ASSUME NEW r \in Requests, Commit(r)
      PROVE  /\ req[r].call \in Calls
             /\ row' = row \/ Writes(req[r].call, req[r].st)
  <2>1. req[r].call \in Calls
    BY <1>1, <1>4 DEF Commit
  <2>2. row' = row \/ row' = [row EXCEPT ![req[r].call].st = req[r].st]
    BY <1>4 DEF Commit
  <2>3. QED
    BY <1>2, <2>1, <2>2
<1>5. ASSUME NEW c \in Calls, FinalizeWrite(c) PROVE Writes(c, fin[c].st)
  BY <1>2, <1>5 DEF FinalizeWrite
<1>6. ASSUME NEW c \in Calls, HandOver(c) PROVE Writes(c, "CONNECTED_TO_MANAGER")
  BY <1>2, <1>6 DEF HandOver
<1>7. QED
  BY <1>3, <1>4, <1>5, <1>6

\* A creation keeps its call to itself, and a route never changes.
LEMMA RowStep == TypeOK /\ ReqInv /\ RowInv /\ LegInv /\ HookInv /\ [Next]_vars => RowInv'
<1>1. SUFFICES ASSUME TypeOK, ReqInv, RowInv, LegInv, HookInv, [Next]_vars PROVE RowInv'
  OBVIOUS
<1> USE <1>1
<1>2. ASSUME NEW r \in Requests, DialVapi(r) PROVE RowInv'
  <2>1. UNCHANGED row
    BY <1>2 DEF DialVapi
  <2>2. QED
    BY <1>2, <2>1, StepMoves, NoneAssumption DEF Moves, RowInv, ReqInv, Idle
<1>3. ASSUME NEW r \in Requests, DialDirect(r) PROVE RowInv'
  <2>1. UNCHANGED row
    BY <1>3 DEF DialDirect
  <2>2. QED
    BY <1>3, <2>1, StepMoves, NoneAssumption DEF Moves, RowInv, ReqInv, Idle
<1>4. ASSUME NEW r \in Requests, DialStub(r) PROVE RowInv'
  <2>1. UNCHANGED row
    BY <1>4 DEF DialStub
  <2>2. QED
    BY <1>4, <2>1, StepMoves, NoneAssumption DEF Moves, RowInv, ReqInv, Idle
<1>5. ASSUME NEW r \in Requests, DialRefused(r) PROVE RowInv'
  <2>1. UNCHANGED row
    BY <1>5 DEF DialRefused
  <2>2. QED
    BY <1>5, <2>1, StepEnds, NoneAssumption DEF Ends, Reroutes, RowInv, ReqInv, Idle
<1>6. ASSUME NEW r \in Requests, DialAnswerLost(r) PROVE RowInv'
  <2>1. UNCHANGED row
    BY <1>6 DEF DialAnswerLost
  <2>2. QED
    BY <1>6, <2>1, StepEnds, NoneAssumption DEF Ends, Reroutes, RowInv, ReqInv, Idle
<1>7. ASSUME NEW r \in Requests, CommitCreate(r) PROVE RowInv'
  BY <1>7, WriteEffect, StepEnds, CallOf, NoneAssumption DEF Ends, RowInv, ReqInv, Idle
<1>8. ASSUME NEW r \in Requests, CommitCreateFails(r) PROVE RowInv'
  <2>1. UNCHANGED row
    BY <1>8 DEF CommitCreateFails
  <2>2. QED
    BY <1>8, <2>1, StepEnds, NoneAssumption DEF Ends, RowInv, ReqInv, Idle
<1>9. ASSUME NEW r \in Requests, Probe(r) PROVE RowInv'
  <2>1. UNCHANGED row
    BY <1>9 DEF Probe
  <2>2. "none" \notin Statuses
    BY DEF Statuses, Terminal
  <2>3. QED
    BY <1>9, <2>1, <2>2, ProbeEffect, NoneAssumption DEF RowInv, ReqInv, Idle
<1>10. ASSUME NEW r \in Requests, Flush(r) PROVE RowInv'
  <2>1. UNCHANGED row
    BY <1>10 DEF Flush
  <2>2. QED
    BY <1>10, <2>1, StepMoves, NoneAssumption DEF Moves, RowInv, ReqInv, Idle
<1>11. ASSUME NEW r \in Requests, Steer(r) PROVE RowInv'
  <2>1. UNCHANGED row
    BY <1>11 DEF Steer
  <2>2. QED
    BY <1>11, <2>1, StepMoves, NoneAssumption DEF Moves, RowInv, ReqInv, Idle
<1>12. ASSUME NEW r \in Requests, Stopped(r) PROVE RowInv'
  <2>1. UNCHANGED row
    BY <1>12 DEF Stopped
  <2>2. QED
    BY <1>12, <2>1, StepMoves, NoneAssumption DEF Moves, RowInv, ReqInv, Idle
<1>13. ASSUME NEW r \in Requests, Save(r) PROVE RowInv'
  <2>1. UNCHANGED row
    BY <1>13 DEF Save
  <2>2. QED
    BY <1>13, <2>1, StepMoves, NoneAssumption DEF Moves, RowInv, ReqInv, Idle
<1>14. ASSUME NEW r \in Requests, Commit(r) PROVE RowInv'
  BY <1>14, WriteEffect, StepEnds, CallOf, NoneAssumption DEF Ends, Writes, RowInv, ReqInv, Idle
<1>15. ASSUME NEW r \in Requests, StopVapi(r) PROVE RowInv'
  <2>1. UNCHANGED row
    BY <1>15 DEF StopVapi
  <2>2. QED
    BY <1>15, <2>1, StepMoves, NoneAssumption DEF Moves, RowInv, ReqInv, Idle
<1>16. ASSUME NEW r \in Requests, StopVapiFails(r) PROVE RowInv'
  <2>1. UNCHANGED row
    BY <1>16 DEF StopVapiFails
  <2>2. QED
    BY <1>16, <2>1, StepEnds, NoneAssumption DEF Ends, RowInv, ReqInv, Idle
<1>17. ASSUME NEW r \in Requests, StopDirect(r) PROVE RowInv'
  <2>1. UNCHANGED row
    BY <1>17 DEF StopDirect
  <2>2. QED
    BY <1>17, <2>1, StepMoves, NoneAssumption DEF Moves, RowInv, ReqInv, Idle
<1>18. ASSUME NEW r \in Requests, StopNobody(r) PROVE RowInv'
  <2>1. UNCHANGED row
    BY <1>18 DEF StopNobody
  <2>2. QED
    BY <1>18, <2>1, StepMoves, NoneAssumption DEF Moves, RowInv, ReqInv, Idle
<1>19. ASSUME NEW r \in Requests, NEW c \in Calls, Create(r, c) PROVE RowInv'
  <2>1. UNCHANGED row /\ row[c].st = "none" /\ \A q \in Requests : req[q].call # c
    BY <1>19 DEF Create
  <2>2. QED
    BY <1>19, <2>1, CreateEffect, NoneAssumption DEF RowInv, ReqInv, Idle
<1>20. ASSUME NEW r \in Requests, NEW c \in Calls, NEW kind \in {"get", "stop", "steer"}, Begin(r, c, kind) PROVE RowInv'
  <2>1. UNCHANGED row
    BY <1>20 DEF Begin
  <2>2. QED
    BY <1>20, <2>1, BeginEffect, NoneAssumption DEF RowInv, ReqInv, Idle, Live
<1>21. ASSUME NEW r \in Requests, NEW h \in hooks, NEW again \in BOOLEAN, Deliver(r, h, again) PROVE RowInv'
  <2>1. UNCHANGED row
    BY <1>21 DEF Deliver
  <2>2. "none" \notin Statuses
    BY DEF Statuses, Terminal
  <2>3. QED
    BY <1>21, <2>1, <2>2, DeliverEffect, NoneAssumption DEF RowInv, ReqInv, Idle, Live
<1>22. ASSUME NEW c \in Calls, SessionEnds(c) PROVE RowInv'
  BY <1>22 DEF SessionEnds, RowInv
<1>23. ASSUME NEW c \in Calls, FinalizeRead(c) PROVE RowInv'
  BY <1>23 DEF FinalizeRead, RowInv
<1>24. ASSUME NEW c \in Calls, FinalizeWrite(c) PROVE RowInv'
  <2>1. UNCHANGED req /\ fin[c].pc = "write"
    BY <1>24 DEF FinalizeWrite
  <2>2. fin[c].st # "none" /\ row[c].st # "none"
    BY <2>1 DEF LegInv, Terminal
  <2>3. QED
    BY <1>24, <2>1, <2>2, WriteEffect, CallOf, NoneAssumption DEF Writes, RowInv, ReqInv
<1>25. ASSUME NEW c \in Calls, FinalizeFails(c) PROVE RowInv'
  BY <1>25 DEF FinalizeFails, RowInv
<1>26. ASSUME NEW c \in Calls, HandOver(c) PROVE RowInv'
  <2>1. UNCHANGED req /\ row[c].st = "IN_PROGRESS"
    BY <1>26 DEF HandOver
  <2>2. QED
    BY <1>26, <2>1, WriteEffect, CallOf, NoneAssumption DEF Writes, RowInv, ReqInv
<1>27. ASSUME NEW c \in Calls, VapiMoves(c) PROVE RowInv'
  BY <1>27 DEF VapiMoves, RowInv
<1>28. ASSUME NEW c \in Calls, VapiAsksForManager(c) PROVE RowInv'
  BY <1>28 DEF VapiAsksForManager, RowInv
<1>29. ASSUME NEW c \in Calls, VapiEnds(c) PROVE RowInv'
  BY <1>29 DEF VapiEnds, RowInv
<1>30. CASE Reconfigure
  BY <1>30 DEF Reconfigure, RowInv
<1>31. CASE UNCHANGED vars
  BY <1>31 DEF vars, RowInv
<1> HIDE DEF RowInv
<1>32. QED
  BY <1>1, <1>2, <1>3, <1>4, <1>5, <1>6, <1>7, <1>8, <1>9, <1>10, <1>11, <1>12, <1>13, <1>14, <1>15,
     <1>16, <1>17, <1>18, <1>19, <1>20, <1>21, <1>22, <1>23, <1>24, <1>25, <1>26, <1>27, <1>28,
     <1>29, <1>30, <1>31, Zenon DEF Next, Step, Finalize

\* The legs and finalizers of calls are functions on the calls.
LEMMA VapiFun ==
    TypeOK => /\ vapi = [c \in Calls |-> vapi[c]] /\ sess = [c \in Calls |-> sess[c]]
              /\ fin = [c \in Calls |-> fin[c]]
  BY DEF TypeOK

\* A finalizer moves on and keeps the status it is to write.
FinMoves(c, pc) ==
    /\ fin'[c].pc = pc /\ fin'[c].st = fin[c].st
    /\ \A d \in Calls \ {c} : fin'[d] = fin[d]

\* The places of the finaliser of a Direct session.
LEMMA FinEffect ==
    ASSUME TypeOK, NEW c \in Calls
    PROVE  /\ FinalizeRead(c) => /\ fin[c].pc = "due"
                                 /\ \/ Live(c) /\ FinMoves(c, "write")
                                    \/ ~Live(c) /\ FinMoves(c, "done")
           /\ FinalizeWrite(c) => fin[c].pc = "write" /\ FinMoves(c, "done")
           /\ FinalizeFails(c) => fin[c].pc \in {"due", "write"} /\ FinMoves(c, "done")
<1>1. ASSUME NEW pc, fin' = [fin EXCEPT ![c].pc = pc] PROVE FinMoves(c, pc)
  BY <1>1 DEF TypeOK, Finals, FinMoves
<1>2. FinalizeRead(c) => /\ fin[c].pc = "due"
                         /\ \/ Live(c) /\ FinMoves(c, "write")
                            \/ ~Live(c) /\ FinMoves(c, "done")
  BY <1>1 DEF FinalizeRead
<1>3. FinalizeWrite(c) => fin[c].pc = "write" /\ FinMoves(c, "done")
  BY <1>1 DEF FinalizeWrite
<1>4. FinalizeFails(c) => fin[c].pc \in {"due", "write"} /\ FinMoves(c, "done")
  BY <1>1 DEF FinalizeFails
<1>5. QED
  BY <1>2, <1>3, <1>4

\* A call keeps to the leg it was made with.
LEMMA LegStep == TypeOK /\ ReqInv /\ RowInv /\ LegInv /\ HookInv /\ [Next]_vars => LegInv'
<1>1. SUFFICES ASSUME TypeOK, ReqInv, RowInv, LegInv, HookInv, [Next]_vars PROVE LegInv'
  OBVIOUS
<1> USE <1>1
<1>2. ASSUME NEW r \in Requests, DialVapi(r) PROVE LegInv'
  <2>1. /\ UNCHANGED <<row, sess, fin, lost>>
        /\ vapi' = [vapi EXCEPT ![req[r].call] = "queued"]
    BY <1>2 DEF DialVapi
  <2>2. QED
    BY <1>2, <2>1, StepMoves, CallOf, VapiFun, NoneAssumption DEF Moves, LegInv, RowInv, ReqInv, Idle
<1>3. ASSUME NEW r \in Requests, DialDirect(r) PROVE LegInv'
  <2>1. /\ UNCHANGED <<row, vapi, fin, lost>>
        /\ sess' = [sess EXCEPT ![req[r].call] = "live"]
    BY <1>3 DEF DialDirect
  <2>2. QED
    BY <1>3, <2>1, StepMoves, CallOf, VapiFun, NoneAssumption DEF Moves, LegInv, RowInv, ReqInv, Idle
<1>4. ASSUME NEW r \in Requests, DialStub(r) PROVE LegInv'
  <2>1. UNCHANGED <<row, vapi, sess, fin, lost>>
    BY <1>4 DEF DialStub
  <2>2. QED
    BY <1>4, <2>1, StepMoves, CallOf, NoneAssumption DEF Moves, LegInv, RowInv, ReqInv, Idle
<1>5. ASSUME NEW r \in Requests, DialRefused(r) PROVE LegInv'
  <2>1. UNCHANGED <<row, vapi, sess, fin, lost>>
    BY <1>5 DEF DialRefused
  <2>2. QED
    BY <1>5, <2>1, StepEnds, CallOf, NoneAssumption DEF Ends, Reroutes, LegInv, RowInv, ReqInv, Idle
<1>6. ASSUME NEW r \in Requests, DialAnswerLost(r) PROVE LegInv'
  <2>1. /\ UNCHANGED <<row, sess, fin>>
        /\ vapi' = [vapi EXCEPT ![req[r].call] = "queued"] /\ lost' = lost \cup {req[r].call}
    BY <1>6 DEF DialAnswerLost
  <2>2. QED
    BY <1>6, <2>1, StepEnds, CallOf, VapiFun, NoneAssumption DEF Ends, Reroutes, LegInv, RowInv, ReqInv, Idle
<1>7. ASSUME NEW r \in Requests, CommitCreate(r) PROVE LegInv'
  <2>1. UNCHANGED <<vapi, sess, fin, lost>>
    BY <1>7 DEF CommitCreate
  <2>2. QED
    BY <1>7, <2>1, StepEnds, WriteEffect, CallOf, NoneAssumption DEF Ends, LegInv, RowInv, ReqInv, Idle
<1>8. ASSUME NEW r \in Requests, CommitCreateFails(r) PROVE LegInv'
  <2>1. /\ UNCHANGED <<row, vapi, sess, fin>>
        /\ lost' = lost \cup {req[r].call}
    BY <1>8 DEF CommitCreateFails
  <2>2. QED
    BY <1>8, <2>1, StepEnds, CallOf, NoneAssumption DEF Ends, LegInv, RowInv, ReqInv, Idle
<1>9. ASSUME NEW r \in Requests, Probe(r) PROVE LegInv'
  <2>1. UNCHANGED <<row, vapi, sess, fin, lost>>
    BY <1>9 DEF Probe
  <2>2. QED
    BY <1>9, <2>1, ProbeEffect, CallOf, NoneAssumption DEF LegInv, RowInv, ReqInv, Idle
<1>10. ASSUME NEW r \in Requests, Flush(r) PROVE LegInv'
  <2>1. UNCHANGED <<row, vapi, sess, fin, lost>>
    BY <1>10 DEF Flush
  <2>2. QED
    BY <1>10, <2>1, StepMoves, CallOf, NoneAssumption DEF Moves, LegInv, RowInv, ReqInv, Idle
<1>11. ASSUME NEW r \in Requests, Steer(r) PROVE LegInv'
  <2>1. UNCHANGED <<row, vapi, sess, fin, lost>>
    BY <1>11 DEF Steer
  <2>2. QED
    BY <1>11, <2>1, StepMoves, CallOf, NoneAssumption DEF Moves, LegInv, RowInv, ReqInv, Idle
<1>12. ASSUME NEW r \in Requests, Stopped(r) PROVE LegInv'
  <2>1. UNCHANGED <<row, vapi, sess, fin, lost>>
    BY <1>12 DEF Stopped
  <2>2. QED
    BY <1>12, <2>1, StepMoves, CallOf, NoneAssumption DEF Moves, LegInv, RowInv, ReqInv, Idle
<1>13. ASSUME NEW r \in Requests, Save(r) PROVE LegInv'
  <2>1. UNCHANGED <<row, vapi, sess, fin, lost>>
    BY <1>13 DEF Save
  <2>2. QED
    BY <1>13, <2>1, StepMoves, CallOf, NoneAssumption DEF Moves, LegInv, RowInv, ReqInv, Idle
<1>14. ASSUME NEW r \in Requests, Commit(r) PROVE LegInv'
  <2>1. UNCHANGED <<vapi, sess, fin, lost>>
    BY <1>14 DEF Commit
  <2>2. QED
    BY <1>14, <2>1, StepEnds, WriteEffect, CallOf, NoneAssumption DEF Ends, Writes, LegInv, RowInv, ReqInv, Idle
<1>15. ASSUME NEW r \in Requests, StopVapi(r) PROVE LegInv'
  <2>1. /\ UNCHANGED <<row, sess, fin, lost>>
        /\ vapi' = [vapi EXCEPT ![req[r].call] = "ended"]
    BY <1>15 DEF StopVapi
  <2>2. QED
    BY <1>15, <2>1, StepMoves, CallOf, VapiFun, NoneAssumption DEF Moves, LegInv, RowInv, ReqInv, Idle
<1>16. ASSUME NEW r \in Requests, StopVapiFails(r) PROVE LegInv'
  <2>1. UNCHANGED <<row, vapi, sess, fin, lost>>
    BY <1>16 DEF StopVapiFails
  <2>2. QED
    BY <1>16, <2>1, StepEnds, CallOf, NoneAssumption DEF Ends, LegInv, RowInv, ReqInv, Idle
<1>17. ASSUME NEW r \in Requests, StopDirect(r) PROVE LegInv'
  <2>1. /\ UNCHANGED <<row, vapi, lost>> /\ sess[req[r].call] = "live"
        /\ sess' = [sess EXCEPT ![req[r].call] = "gone"]
        /\ fin' = [fin EXCEPT ![req[r].call] = [pc |-> "due", st |-> "STOPPED"]]
    BY <1>17 DEF StopDirect
  <2>2. req[r].call \in Calls /\ \A c \in Calls \ {req[r].call} : sess'[c] = sess[c] /\ fin'[c] = fin[c]
    BY <1>17, <2>1, StepMoves, CallOf, VapiFun DEF ReqInv
  <2>3. sess'[req[r].call] = "gone" /\ fin'[req[r].call].pc = "due" /\ fin'[req[r].call].st = "STOPPED"
    BY <2>1, <2>2, VapiFun
  <2> HIDE <2>1
  <2>4. UNCHANGED <<row, vapi, lost>> /\ sess[req[r].call] = "live"
    BY <2>1
  <2>5. QED
    BY <1>17, <2>2, <2>3, <2>4, StepMoves, CallOf, NoneAssumption DEF Moves, Terminal, LegInv, RowInv, ReqInv, Idle
<1>18. ASSUME NEW r \in Requests, StopNobody(r) PROVE LegInv'
  <2>1. UNCHANGED <<row, vapi, sess, fin, lost>>
    BY <1>18 DEF StopNobody
  <2>2. QED
    BY <1>18, <2>1, StepMoves, CallOf, NoneAssumption DEF Moves, LegInv, RowInv, ReqInv, Idle
<1>19. ASSUME NEW r \in Requests, NEW c \in Calls, Create(r, c) PROVE LegInv'
  <2>1. /\ UNCHANGED <<row, vapi, sess, fin, lost>>
        /\ vapi[c] = "none" /\ sess[c] = "none"
    BY <1>19 DEF Create
  <2>2. QED
    BY <1>19, <2>1, CreateEffect, CallOf, NoneAssumption DEF LegInv, RowInv, ReqInv, Idle
<1>20. ASSUME NEW r \in Requests, NEW c \in Calls, NEW kind \in {"get", "stop", "steer"}, Begin(r, c, kind) PROVE LegInv'
  <2>1. UNCHANGED <<row, vapi, sess, fin, lost>>
    BY <1>20 DEF Begin
  <2>2. QED
    BY <1>20, <2>1, BeginEffect, CallOf, NoneAssumption DEF LegInv, RowInv, ReqInv, Idle
<1>21. ASSUME NEW r \in Requests, NEW h \in hooks, NEW again \in BOOLEAN, Deliver(r, h, again) PROVE LegInv'
  <2>1. UNCHANGED <<row, vapi, sess, fin, lost>>
    BY <1>21 DEF Deliver
  <2>2. QED
    BY <1>21, <2>1, DeliverEffect, CallOf, NoneAssumption DEF LegInv, RowInv, ReqInv, Idle
<1>22. ASSUME NEW c \in Calls, SessionEnds(c) PROVE LegInv'
  <2>1. PICK st \in {"COMPLETED", "FAILED"} : fin' = [fin EXCEPT ![c] = [pc |-> "due", st |-> st]]
    BY <1>22 DEF SessionEnds
  <2>2. /\ UNCHANGED <<row, req, vapi, lost>> /\ sess[c] = "live" /\ sess'[c] = "gone"
        /\ \A d \in Calls \ {c} : sess'[d] = sess[d]
    BY <1>22, VapiFun DEF SessionEnds
  <2>3. /\ fin'[c].pc = "due" /\ fin'[c].st = st
        /\ \A d \in Calls \ {c} : fin'[d] = fin[d]
    BY <2>1, VapiFun
  <2>4. QED
    BY <2>2, <2>3, CallOf, NoneAssumption DEF LegInv, ReqInv, Terminal
<1>23. ASSUME NEW c \in Calls, FinalizeRead(c) PROVE LegInv'
  <2>1. UNCHANGED <<row, req, vapi, sess, lost>>
    BY <1>23 DEF FinalizeRead
  <2>2. QED
    BY <1>23, <2>1, FinEffect, CallOf, NoneAssumption DEF FinMoves, LegInv, RowInv, ReqInv, Live
<1>24. ASSUME NEW c \in Calls, FinalizeWrite(c) PROVE LegInv'
  <2>1. UNCHANGED <<req, vapi, sess, lost>>
    BY <1>24 DEF FinalizeWrite
  <2>2. fin[c].pc = "write" /\ FinMoves(c, "done") /\ Writes(c, fin[c].st)
    BY <1>24, FinEffect, WriteEffect
  <2>3. fin[c].st \in Terminal /\ fin[c].st # "none"
    BY <2>2 DEF LegInv, Terminal
  <2>4. QED
    BY <2>1, <2>2, <2>3, CallOf, NoneAssumption DEF FinMoves, Writes, LegInv, ReqInv
<1>25. ASSUME NEW c \in Calls, FinalizeFails(c) PROVE LegInv'
  <2>1. UNCHANGED <<row, req, vapi, sess, lost>>
    BY <1>25 DEF FinalizeFails
  <2>2. QED
    BY <1>25, <2>1, FinEffect, CallOf, NoneAssumption DEF FinMoves, LegInv, RowInv, ReqInv, Live
<1>26. ASSUME NEW c \in Calls, HandOver(c) PROVE LegInv'
  <2>1. UNCHANGED <<req, vapi, sess, fin, lost>> /\ row[c].st = "IN_PROGRESS"
    BY <1>26 DEF HandOver
  <2>2. QED
    BY <1>26, <2>1, WriteEffect, CallOf, NoneAssumption DEF Writes, LegInv, RowInv, ReqInv
<1>27. ASSUME NEW c \in Calls, VapiMoves(c) PROVE LegInv'
  <2>1. PICK s \in {"ringing", "in-progress", "forwarding"} :
          vapi[c] \in Before(s) /\ vapi' = [vapi EXCEPT ![c] = s]
    BY <1>27, StagesAssumption DEF VapiMoves
  <2>2. vapi[c] # "none"
    BY <2>1 DEF Before
  <2>3. UNCHANGED <<row, req, sess, fin, lost>>
    BY <1>27 DEF VapiMoves
  <2>4. vapi'[c] # "none" /\ \A d \in Calls \ {c} : vapi'[d] = vapi[d]
    BY <2>1, VapiFun
  <2>5. QED
    BY <2>2, <2>3, <2>4, CallOf, NoneAssumption DEF LegInv, ReqInv
<1>28. ASSUME NEW c \in Calls, VapiAsksForManager(c) PROVE LegInv'
  BY <1>28 DEF VapiAsksForManager, LegInv
<1>29. ASSUME NEW c \in Calls, VapiEnds(c) PROVE LegInv'
  <2>1. /\ vapi[c] # "none" /\ UNCHANGED <<row, req, sess, fin, lost>>
        /\ vapi'[c] # "none" /\ \A d \in Calls \ {c} : vapi'[d] = vapi[d]
    BY <1>29, VapiFun DEF VapiEnds
  <2>2. QED
    BY <2>1, CallOf, NoneAssumption DEF LegInv, ReqInv
<1>30. CASE Reconfigure
  BY <1>30 DEF Reconfigure, LegInv
<1>31. CASE UNCHANGED vars
  BY <1>31 DEF vars, LegInv
<1> HIDE DEF LegInv
<1>32. QED
  BY <1>1, <1>2, <1>3, <1>4, <1>5, <1>6, <1>7, <1>8, <1>9, <1>10, <1>11, <1>12, <1>13, <1>14, <1>15,
     <1>16, <1>17, <1>18, <1>19, <1>20, <1>21, <1>22, <1>23, <1>24, <1>25, <1>26, <1>27, <1>28,
     <1>29, <1>30, <1>31, Zenon DEF Next, Step, Finalize

-----------------------------------------------------------------------------
(* Webhooks and stops                                                      *)

\* Every step keeps HookInv.
LEMMA HookStep == TypeOK /\ HookInv /\ [Next]_vars => HookInv'
<1>1. SUFFICES ASSUME TypeOK, HookInv, [Next]_vars PROVE HookInv'
  OBVIOUS
<1> USE <1>1
<1>2. ASSUME NEW r \in Requests, DialVapi(r) PROVE HookInv'
  BY <1>2 DEF DialVapi, HookInv
<1>3. ASSUME NEW r \in Requests, DialDirect(r) PROVE HookInv'
  BY <1>3 DEF DialDirect, HookInv
<1>4. ASSUME NEW r \in Requests, DialStub(r) PROVE HookInv'
  BY <1>4 DEF DialStub, HookInv
<1>5. ASSUME NEW r \in Requests, DialRefused(r) PROVE HookInv'
  BY <1>5 DEF DialRefused, HookInv
<1>6. ASSUME NEW r \in Requests, DialAnswerLost(r) PROVE HookInv'
  BY <1>6 DEF DialAnswerLost, HookInv
<1>7. ASSUME NEW r \in Requests, CommitCreate(r) PROVE HookInv'
  BY <1>7 DEF CommitCreate, HookInv
<1>8. ASSUME NEW r \in Requests, CommitCreateFails(r) PROVE HookInv'
  BY <1>8 DEF CommitCreateFails, HookInv
<1>9. ASSUME NEW r \in Requests, Probe(r) PROVE HookInv'
  BY <1>9 DEF Probe, HookInv
<1>10. ASSUME NEW r \in Requests, Flush(r) PROVE HookInv'
  BY <1>10 DEF Flush, HookInv
<1>11. ASSUME NEW r \in Requests, Steer(r) PROVE HookInv'
  BY <1>11 DEF Steer, HookInv
<1>12. ASSUME NEW r \in Requests, Stopped(r) PROVE HookInv'
  BY <1>12 DEF Stopped, HookInv
<1>13. ASSUME NEW r \in Requests, Save(r) PROVE HookInv'
  BY <1>13 DEF Save, HookInv
<1>14. ASSUME NEW r \in Requests, Commit(r) PROVE HookInv'
  BY <1>14 DEF Commit, HookInv
<1>15. ASSUME NEW r \in Requests, StopVapi(r) PROVE HookInv'
  <2>1. \A h \in EndHooks(req[r].call) : h.kind = "status-update" => h.val \in VapiStatuses
    BY DEF EndHooks, VapiStatuses
  <2>2. hooks' \subseteq hooks \cup EndHooks(req[r].call)
    BY <1>15 DEF StopVapi
  <2>3. QED
    BY <2>1, <2>2 DEF HookInv
<1>16. ASSUME NEW r \in Requests, StopVapiFails(r) PROVE HookInv'
  BY <1>16 DEF StopVapiFails, HookInv
<1>17. ASSUME NEW r \in Requests, StopDirect(r) PROVE HookInv'
  BY <1>17 DEF StopDirect, HookInv
<1>18. ASSUME NEW r \in Requests, StopNobody(r) PROVE HookInv'
  BY <1>18 DEF StopNobody, HookInv
<1>19. ASSUME NEW r \in Requests, NEW c \in Calls, Create(r, c) PROVE HookInv'
  BY <1>19 DEF Create, HookInv
<1>20. ASSUME NEW r \in Requests, NEW c \in Calls, NEW kind \in {"get", "stop", "steer"}, Begin(r, c, kind) PROVE HookInv'
  BY <1>20 DEF Begin, HookInv
<1>21. ASSUME NEW r \in Requests, NEW h \in hooks, NEW again \in BOOLEAN, Deliver(r, h, again) PROVE HookInv'
  BY <1>21, DeliverEffect DEF HookInv
<1>22. ASSUME NEW c \in Calls, SessionEnds(c) PROVE HookInv'
  BY <1>22 DEF SessionEnds, HookInv
<1>23. ASSUME NEW c \in Calls, FinalizeRead(c) PROVE HookInv'
  BY <1>23 DEF FinalizeRead, HookInv
<1>24. ASSUME NEW c \in Calls, FinalizeWrite(c) PROVE HookInv'
  BY <1>24 DEF FinalizeWrite, HookInv
<1>25. ASSUME NEW c \in Calls, FinalizeFails(c) PROVE HookInv'
  BY <1>25 DEF FinalizeFails, HookInv
<1>26. ASSUME NEW c \in Calls, HandOver(c) PROVE HookInv'
  BY <1>26 DEF HandOver, HookInv
<1>27. ASSUME NEW c \in Calls, VapiMoves(c) PROVE HookInv'
  <2>1. PICK s \in {"ringing", "in-progress", "forwarding"} : hooks' = hooks \cup Sent(c, "status-update", s)
    BY <1>27, StagesAssumption DEF VapiMoves
  <2>2. \A h \in Sent(c, "status-update", s) : h.val \in VapiStatuses
    BY DEF Sent, VapiStatuses
  <2>3. QED
    BY <2>1, <2>2 DEF HookInv
<1>28. ASSUME NEW c \in Calls, VapiAsksForManager(c) PROVE HookInv'
  <2>1. \A h \in Sent(c, "transfer-destination-request", "none") : h.kind # "status-update"
    BY DEF Sent
  <2>2. QED
    BY <1>28, <2>1 DEF VapiAsksForManager, HookInv
<1>29. ASSUME NEW c \in Calls, VapiEnds(c) PROVE HookInv'
  <2>1. PICK reason \in {"ok", "error"} :
          hooks' \subseteq hooks \cup Sent(c, "status-update", "ended")
                         \cup Sent(c, "end-of-call-report", reason) \cup Sent(c, "hang", "none")
    BY <1>29 DEF VapiEnds
  <2>2. \A h \in Sent(c, "status-update", "ended") : h.val \in VapiStatuses
    BY DEF Sent, VapiStatuses
  <2>3. \A h \in Sent(c, "end-of-call-report", reason) \cup Sent(c, "hang", "none") : h.kind # "status-update"
    BY DEF Sent
  <2>4. QED
    BY <2>1, <2>2, <2>3 DEF HookInv
<1>30. CASE Reconfigure
  BY <1>30 DEF Reconfigure, HookInv
<1>31. CASE UNCHANGED vars
  BY <1>31 DEF vars, HookInv
<1> HIDE DEF HookInv
<1>32. QED
  BY <1>1, <1>2, <1>3, <1>4, <1>5, <1>6, <1>7, <1>8, <1>9, <1>10, <1>11, <1>12, <1>13, <1>14, <1>15,
     <1>16, <1>17, <1>18, <1>19, <1>20, <1>21, <1>22, <1>23, <1>24, <1>25, <1>26, <1>27, <1>28,
     <1>29, <1>30, <1>31, Zenon DEF Next, Step, Finalize

\* A stop is written only when nobody is on the line, or nobody could be told.
LEMMA StopStep == TypeOK /\ ReqInv /\ RowInv /\ LegInv /\ HookInv /\ StopInv /\ [Next]_vars => StopInv'
<1>1. SUFFICES ASSUME TypeOK, ReqInv, RowInv, LegInv, HookInv, StopInv, [Next]_vars PROVE StopInv'
  OBVIOUS
<1> USE <1>1
<1>2. ASSUME NEW r \in Requests, DialVapi(r) PROVE StopInv'
  <2>1. /\ UNCHANGED <<row, sess, unheard>>
        /\ vapi' = [vapi EXCEPT ![req[r].call] = "queued"]
    BY <1>2 DEF DialVapi
  <2>2. QED
    BY <1>2, <2>1, StepMoves, CallOf, NoneAssumption, VapiFun DEF Moves, StopInv, StopHeard, LegUp, RowInv, ReqInv, Idle
<1>3. ASSUME NEW r \in Requests, DialDirect(r) PROVE StopInv'
  <2>1. /\ UNCHANGED <<row, vapi, unheard>>
        /\ sess' = [sess EXCEPT ![req[r].call] = "live"]
    BY <1>3 DEF DialDirect
  <2>2. QED
    BY <1>3, <2>1, StepMoves, CallOf, NoneAssumption, VapiFun DEF Moves, StopInv, StopHeard, LegUp, RowInv, ReqInv, Idle
<1>4. ASSUME NEW r \in Requests, DialStub(r) PROVE StopInv'
  <2>1. UNCHANGED <<row, vapi, sess, unheard>>
    BY <1>4 DEF DialStub
  <2>2. QED
    BY <1>4, <2>1, StepMoves, CallOf, NoneAssumption DEF Moves, StopInv, StopHeard, LegUp, RowInv, ReqInv, Idle
<1>5. ASSUME NEW r \in Requests, DialRefused(r) PROVE StopInv'
  <2>1. UNCHANGED <<row, vapi, sess, unheard>>
    BY <1>5 DEF DialRefused
  <2>2. QED
    BY <1>5, <2>1, StepEnds, CallOf, NoneAssumption DEF Ends, Reroutes, StopInv, StopHeard, LegUp, RowInv, ReqInv, Idle
<1>6. ASSUME NEW r \in Requests, DialAnswerLost(r) PROVE StopInv'
  <2>1. /\ UNCHANGED <<row, sess, unheard>>
        /\ vapi' = [vapi EXCEPT ![req[r].call] = "queued"]
    BY <1>6 DEF DialAnswerLost
  <2>2. QED
    BY <1>6, <2>1, StepEnds, CallOf, NoneAssumption, VapiFun DEF Ends, Reroutes, StopInv, StopHeard, LegUp, RowInv, ReqInv, Idle
<1>7. ASSUME NEW r \in Requests, CommitCreate(r) PROVE StopInv'
  <2>1. UNCHANGED <<vapi, sess, unheard>>
    BY <1>7 DEF CommitCreate
  <2>2. QED
    BY <1>7, <2>1, StepEnds, WriteEffect, CallOf, NoneAssumption DEF Ends, StopInv, StopHeard, LegUp, RowInv, ReqInv, Idle
<1>8. ASSUME NEW r \in Requests, CommitCreateFails(r) PROVE StopInv'
  <2>1. UNCHANGED <<row, vapi, sess, unheard>>
    BY <1>8 DEF CommitCreateFails
  <2>2. QED
    BY <1>8, <2>1, StepEnds, CallOf, NoneAssumption DEF Ends, StopInv, StopHeard, LegUp, RowInv, ReqInv, Idle
<1>9. ASSUME NEW r \in Requests, Probe(r) PROVE StopInv'
  <2>1. UNCHANGED <<row, vapi, sess, unheard>>
    BY <1>9 DEF Probe
  <2>2. QED
    BY <1>9, <2>1, ProbeEffect, CallOf, NoneAssumption DEF StopInv, StopHeard, LegUp, RowInv, ReqInv, Idle
<1>10. ASSUME NEW r \in Requests, Flush(r) PROVE StopInv'
  <2>1. UNCHANGED <<row, vapi, sess, unheard>>
    BY <1>10 DEF Flush
  <2>2. QED
    BY <1>10, <2>1, StepMoves, CallOf, NoneAssumption DEF Moves, StopInv, StopHeard, LegUp, RowInv, ReqInv, Idle
<1>11. ASSUME NEW r \in Requests, Steer(r) PROVE StopInv'
  <2>1. UNCHANGED <<row, vapi, sess, unheard>>
    BY <1>11 DEF Steer
  <2>2. QED
    BY <1>11, <2>1, StepMoves, CallOf, NoneAssumption DEF Moves, StopInv, StopHeard, LegUp, RowInv, ReqInv, Idle
<1>12. ASSUME NEW r \in Requests, Stopped(r) PROVE StopInv'
  <2>1. UNCHANGED <<row, vapi, sess, unheard>>
    BY <1>12 DEF Stopped
  <2>2. QED
    BY <1>12, <2>1, StepMoves, CallOf, NoneAssumption DEF Moves, LegInv, StopInv, StopHeard, LegUp, RowInv, ReqInv, Idle
<1>13. ASSUME NEW r \in Requests, Save(r) PROVE StopInv'
  <2>1. UNCHANGED <<row, vapi, sess, unheard>>
    BY <1>13 DEF Save
  <2>2. QED
    BY <1>13, <2>1, StepMoves, CallOf, NoneAssumption DEF Moves, StopInv, StopHeard, LegUp, RowInv, ReqInv, Idle
<1>14. ASSUME NEW r \in Requests, Commit(r) PROVE StopInv'
  <2>1. UNCHANGED <<vapi, sess, unheard>>
    BY <1>14 DEF Commit
  <2>2. QED
    BY <1>14, <2>1, StepEnds, WriteEffect, CallOf, NoneAssumption DEF Ends, Writes, StopInv, StopHeard, LegUp, RowInv, ReqInv, Idle
<1>15. ASSUME NEW r \in Requests, StopVapi(r) PROVE StopInv'
  <2>1. /\ UNCHANGED <<row, sess, unheard>>
        /\ vapi' = [vapi EXCEPT ![req[r].call] = "ended"]
    BY <1>15 DEF StopVapi
  <2>2. QED
    BY <1>15, <2>1, StepMoves, CallOf, NoneAssumption, VapiFun DEF Moves, StopInv, StopHeard, LegUp, RowInv, ReqInv, Idle
<1>16. ASSUME NEW r \in Requests, StopVapiFails(r) PROVE StopInv'
  <2>1. UNCHANGED <<row, vapi, sess, unheard>>
    BY <1>16 DEF StopVapiFails
  <2>2. QED
    BY <1>16, <2>1, StepEnds, CallOf, NoneAssumption DEF Ends, StopInv, StopHeard, LegUp, RowInv, ReqInv, Idle
<1>17. ASSUME NEW r \in Requests, StopDirect(r) PROVE StopInv'
  <2>1. /\ UNCHANGED <<row, vapi, unheard>>
        /\ sess' = [sess EXCEPT ![req[r].call] = "gone"]
    BY <1>17 DEF StopDirect
  <2>2. QED
    BY <1>17, <2>1, StepMoves, CallOf, NoneAssumption, VapiFun DEF Moves, StopInv, StopHeard, LegUp, RowInv, ReqInv, Idle
<1>18. ASSUME NEW r \in Requests, StopNobody(r) PROVE StopInv'
  <2>1. /\ UNCHANGED <<row, vapi, sess>>
        /\ unheard' = IF LegUp(req[r].call, req[r].route) THEN unheard \cup {req[r].call} ELSE unheard
    BY <1>18 DEF StopNobody
  <2>2. QED
    BY <1>18, <2>1, StepMoves, CallOf, NoneAssumption DEF Moves, StopInv, StopHeard, LegUp, RowInv, ReqInv, Idle
<1>19. ASSUME NEW r \in Requests, NEW c \in Calls, Create(r, c) PROVE StopInv'
  <2>1. UNCHANGED <<row, vapi, sess, unheard>>
    BY <1>19 DEF Create
  <2>2. QED
    BY <1>19, <2>1, CreateEffect, CallOf, NoneAssumption DEF StopInv, StopHeard, LegUp, RowInv, ReqInv, Idle
<1>20. ASSUME NEW r \in Requests, NEW c \in Calls, NEW kind \in {"get", "stop", "steer"}, Begin(r, c, kind) PROVE StopInv'
  <2>1. UNCHANGED <<row, vapi, sess, unheard>>
    BY <1>20 DEF Begin
  <2>2. QED
    BY <1>20, <2>1, BeginEffect, CallOf, NoneAssumption DEF Live, Terminal, StopInv, StopHeard, LegUp, RowInv, ReqInv, Idle
<1>21. ASSUME NEW r \in Requests, NEW h \in hooks, NEW again \in BOOLEAN, Deliver(r, h, again) PROVE StopInv'
  <2>1. UNCHANGED <<row, vapi, sess, unheard>>
    BY <1>21 DEF Deliver
  <2>2. QED
    BY <1>21, <2>1, DeliverEffect, CallOf, NoneAssumption DEF StopInv, StopHeard, LegUp, RowInv, ReqInv, Idle
<1>22. ASSUME NEW c \in Calls, SessionEnds(c) PROVE StopInv'
  <2>1. UNCHANGED <<row, req, vapi, unheard>> /\ sess' = [sess EXCEPT ![c] = "gone"]
    BY <1>22 DEF SessionEnds
  <2>2. QED
    BY <2>1, VapiFun, CallOf, NoneAssumption DEF StopInv, StopHeard, LegUp, ReqInv
<1>23. ASSUME NEW c \in Calls, FinalizeRead(c) PROVE StopInv'
  BY <1>23 DEF FinalizeRead, StopInv, StopHeard, LegUp
<1>24. ASSUME NEW c \in Calls, FinalizeWrite(c) PROVE StopInv'
  <2>1. UNCHANGED <<req, vapi, sess, unheard>>
    BY <1>24 DEF FinalizeWrite
  <2>2. fin[c].pc = "write" /\ Writes(c, fin[c].st)
    BY <1>24, FinEffect, WriteEffect
  <2>3. sess[c] = "gone" /\ row[c].route = "direct"
    BY <2>2 DEF LegInv, RowInv
  <2>4. QED
    BY <2>1, <2>2, <2>3, CallOf, NoneAssumption DEF Writes, StopInv, StopHeard, LegUp, ReqInv
<1>25. ASSUME NEW c \in Calls, FinalizeFails(c) PROVE StopInv'
  BY <1>25 DEF FinalizeFails, StopInv, StopHeard, LegUp
<1>26. ASSUME NEW c \in Calls, HandOver(c) PROVE StopInv'
  <2>1. UNCHANGED <<req, vapi, sess, unheard>>
    BY <1>26 DEF HandOver
  <2>2. QED
    BY <1>26, <2>1, WriteEffect, CallOf, NoneAssumption DEF Writes, StopInv, StopHeard, LegUp, ReqInv
<1>27. ASSUME NEW c \in Calls, VapiMoves(c) PROVE StopInv'
  <2>1. PICK s \in {"ringing", "in-progress", "forwarding"} :
          vapi[c] \in Before(s) /\ vapi' = [vapi EXCEPT ![c] = s]
    BY <1>27, StagesAssumption DEF VapiMoves
  <2>2. vapi[c] \notin {"none", "ended"}
    BY <2>1 DEF Before
  <2>3. UNCHANGED <<row, req, sess, unheard>>
    BY <1>27 DEF VapiMoves
  <2>4. vapi'[c] \notin {"none", "ended"} /\ \A d \in Calls \ {c} : vapi'[d] = vapi[d]
    BY <2>1, VapiFun
  <2>5. \A d \in Calls : \A route : LegUp(d, route)' <=> LegUp(d, route)
    BY <2>2, <2>3, <2>4 DEF LegUp
  <2>6. StopHeard'
    BY <2>3, <2>5 DEF StopInv, StopHeard
  <2>7. ASSUME NEW q \in Requests, req[q].st = "STOPPED"
        PROVE  req[q].call \in unheard \/ ~LegUp(req[q].call, req[q].route)'
    <3>1. req[q].call \in Calls
      BY <2>7, CallOf DEF ReqInv, Idle
    <3>2. QED
      BY <2>3, <2>5, <2>7, <3>1 DEF StopInv
  <2>8. QED
    BY <2>3, <2>6, <2>7 DEF StopInv, LegUp
<1>28. ASSUME NEW c \in Calls, VapiAsksForManager(c) PROVE StopInv'
  BY <1>28 DEF VapiAsksForManager, StopInv, StopHeard, LegUp
<1>29. ASSUME NEW c \in Calls, VapiEnds(c) PROVE StopInv'
  <2>1. UNCHANGED <<row, req, sess, unheard>> /\ vapi' = [vapi EXCEPT ![c] = "ended"]
    BY <1>29 DEF VapiEnds
  <2>2. QED
    BY <2>1, VapiFun, CallOf, NoneAssumption DEF StopInv, StopHeard, LegUp, ReqInv
<1>30. CASE Reconfigure
  BY <1>30 DEF Reconfigure, StopInv, StopHeard, LegUp
<1>31. CASE UNCHANGED vars
  BY <1>31 DEF vars, StopInv, StopHeard, LegUp
<1> HIDE DEF StopInv
<1>32. QED
  BY <1>1, <1>2, <1>3, <1>4, <1>5, <1>6, <1>7, <1>8, <1>9, <1>10, <1>11, <1>12, <1>13, <1>14, <1>15,
     <1>16, <1>17, <1>18, <1>19, <1>20, <1>21, <1>22, <1>23, <1>24, <1>25, <1>26, <1>27, <1>28,
     <1>29, <1>30, <1>31, Zenon DEF Next, Step, Finalize

-----------------------------------------------------------------------------
(* Writers that take turns, and the limit                                  *)

\* Writers that take turns never miss an end.
LEMMA TurnStep == TypeOK /\ ReqInv /\ RowInv /\ LegInv /\ HookInv /\ TurnInv /\ [Next]_vars => TurnInv'
<1>1. SUFFICES ASSUME TypeOK, ReqInv, RowInv, LegInv, HookInv, TurnInv, [Next]_vars PROVE TurnInv'
  OBVIOUS
<1> USE <1>1
<1>2. ASSUME NEW r \in Requests, DialVapi(r) PROVE TurnInv'
  <2>1. UNCHANGED <<row, fin>>
    BY <1>2 DEF DialVapi
  <2>2. QED
    BY <1>2, <2>1, StepMoves, CallOf, NoneAssumption DEF Moves, TurnInv, Writers, Live, RowInv, ReqInv, Idle
<1>3. ASSUME NEW r \in Requests, DialDirect(r) PROVE TurnInv'
  <2>1. UNCHANGED <<row, fin>>
    BY <1>3 DEF DialDirect
  <2>2. QED
    BY <1>3, <2>1, StepMoves, CallOf, NoneAssumption DEF Moves, TurnInv, Writers, Live, RowInv, ReqInv, Idle
<1>4. ASSUME NEW r \in Requests, DialStub(r) PROVE TurnInv'
  <2>1. UNCHANGED <<row, fin>>
    BY <1>4 DEF DialStub
  <2>2. QED
    BY <1>4, <2>1, StepMoves, CallOf, NoneAssumption DEF Moves, TurnInv, Writers, Live, RowInv, ReqInv, Idle
<1>5. ASSUME NEW r \in Requests, DialRefused(r) PROVE TurnInv'
  <2>1. UNCHANGED <<row, fin>>
    BY <1>5 DEF DialRefused
  <2>2. QED
    BY <1>5, <2>1, StepEnds, CallOf, NoneAssumption DEF Ends, Reroutes, TurnInv, Writers, Live, RowInv, ReqInv, Idle
<1>6. ASSUME NEW r \in Requests, DialAnswerLost(r) PROVE TurnInv'
  <2>1. UNCHANGED <<row, fin>>
    BY <1>6 DEF DialAnswerLost
  <2>2. QED
    BY <1>6, <2>1, StepEnds, CallOf, NoneAssumption DEF Ends, Reroutes, TurnInv, Writers, Live, RowInv, ReqInv, Idle
<1>7. ASSUME NEW r \in Requests, CommitCreate(r) PROVE TurnInv'
  <2>1. UNCHANGED fin
    BY <1>7 DEF CommitCreate
  <2>2. QED
    BY <1>7, <2>1, StepEnds, WriteEffect, CallOf, NoneAssumption DEF Ends, LegInv, TurnInv, Writers, Live, RowInv, ReqInv, Idle
<1>8. ASSUME NEW r \in Requests, CommitCreateFails(r) PROVE TurnInv'
  <2>1. UNCHANGED <<row, fin>>
    BY <1>8 DEF CommitCreateFails
  <2>2. QED
    BY <1>8, <2>1, StepEnds, CallOf, NoneAssumption DEF Ends, TurnInv, Writers, Live, RowInv, ReqInv, Idle
<1>9. ASSUME NEW r \in Requests, Probe(r) PROVE TurnInv'
  <2>1. UNCHANGED <<row, fin>>
    BY <1>9 DEF Probe
  <2>2. QED
    BY <1>9, <2>1, ProbeEffect, CallOf, NoneAssumption DEF TurnInv, Writers, Live, RowInv, ReqInv, Idle
<1>10. ASSUME NEW r \in Requests, Flush(r) PROVE TurnInv'
  <2>1. UNCHANGED <<row, fin>>
    BY <1>10 DEF Flush
  <2>2. QED
    BY <1>10, <2>1, StepMoves, CallOf, NoneAssumption DEF Moves, TurnInv, Writers, Live, RowInv, ReqInv, Idle
<1>11. ASSUME NEW r \in Requests, Steer(r) PROVE TurnInv'
  <2>1. UNCHANGED <<row, fin>>
    BY <1>11 DEF Steer
  <2>2. QED
    BY <1>11, <2>1, StepMoves, CallOf, NoneAssumption DEF Moves, TurnInv, Writers, Live, RowInv, ReqInv, Idle
<1>12. ASSUME NEW r \in Requests, Stopped(r) PROVE TurnInv'
  <2>1. UNCHANGED <<row, fin>>
    BY <1>12 DEF Stopped
  <2>2. QED
    BY <1>12, <2>1, StepMoves, CallOf, NoneAssumption DEF Moves, TurnInv, Writers, Live, RowInv, ReqInv, Idle
<1>13. ASSUME NEW r \in Requests, Save(r) PROVE TurnInv'
  <2>1. UNCHANGED <<row, fin>>
    BY <1>13 DEF Save
  <2>2. QED
    BY <1>13, <2>1, StepMoves, CallOf, NoneAssumption DEF Moves, TurnInv, Writers, Live, RowInv, ReqInv, Idle
<1>14. ASSUME NEW r \in Requests, Commit(r) PROVE TurnInv'
  <2>1. UNCHANGED fin
    BY <1>14 DEF Commit
  <2>2. QED
    BY <1>14, <2>1, StepEnds, WriteEffect, CallOf, NoneAssumption DEF Ends, Writes, TurnInv, Writers, Live, RowInv, ReqInv, Idle
<1>15. ASSUME NEW r \in Requests, StopVapi(r) PROVE TurnInv'
  <2>1. UNCHANGED <<row, fin>>
    BY <1>15 DEF StopVapi
  <2>2. QED
    BY <1>15, <2>1, StepMoves, CallOf, NoneAssumption DEF Moves, TurnInv, Writers, Live, RowInv, ReqInv, Idle
<1>16. ASSUME NEW r \in Requests, StopVapiFails(r) PROVE TurnInv'
  <2>1. UNCHANGED <<row, fin>>
    BY <1>16 DEF StopVapiFails
  <2>2. QED
    BY <1>16, <2>1, StepEnds, CallOf, NoneAssumption DEF Ends, TurnInv, Writers, Live, RowInv, ReqInv, Idle
<1>17. ASSUME NEW r \in Requests, StopDirect(r) PROVE TurnInv'
  <2>1. UNCHANGED row /\ fin' = [fin EXCEPT ![req[r].call] = [pc |-> "due", st |-> "STOPPED"]]
    BY <1>17 DEF StopDirect
  <2>2. req[r].call \in Calls /\ \A c \in Calls \ {req[r].call} : fin'[c] = fin[c]
    BY <1>17, <2>1, StepMoves, CallOf, VapiFun DEF ReqInv
  <2>3. fin'[req[r].call].pc = "due" /\ fin'[req[r].call].st = "STOPPED" /\ UNCHANGED row
    BY <2>1, <2>2, VapiFun
  <2> HIDE <2>1
  <2>4. QED
    BY <1>17, <2>2, <2>3, StepMoves, CallOf, NoneAssumption DEF Moves, TurnInv, Writers, Live, ReqInv
<1>18. ASSUME NEW r \in Requests, StopNobody(r) PROVE TurnInv'
  <2>1. UNCHANGED <<row, fin>>
    BY <1>18 DEF StopNobody
  <2>2. QED
    BY <1>18, <2>1, StepMoves, CallOf, NoneAssumption DEF Moves, TurnInv, Writers, Live, RowInv, ReqInv, Idle
<1>19. ASSUME NEW r \in Requests, NEW c \in Calls, Create(r, c) PROVE TurnInv'
  <2>1. /\ UNCHANGED <<row, fin>> /\ \A q \in Requests : req[q].call # c
        /\ Serial => \A q \in Requests : req[q].kind # "create"
    BY <1>19 DEF Create
  <2>2. QED
    BY <1>19, <2>1, CreateEffect, CallOf, NoneAssumption DEF TurnInv, Writers, Live, RowInv, ReqInv, Idle
<1>20. ASSUME NEW r \in Requests, NEW c \in Calls, NEW kind \in {"get", "stop", "steer"}, Begin(r, c, kind) PROVE TurnInv'
  <2>1. UNCHANGED <<row, fin>>
    BY <1>20 DEF Begin
  <2>2. QED
    BY <1>20, <2>1, BeginEffect, CallOf, NoneAssumption DEF Turn, TurnInv, Writers, Live, RowInv, ReqInv, Idle
<1>21. ASSUME NEW r \in Requests, NEW h \in hooks, NEW again \in BOOLEAN, Deliver(r, h, again) PROVE TurnInv'
  <2>1. UNCHANGED <<row, fin>>
    BY <1>21 DEF Deliver
  <2>2. QED
    BY <1>21, <2>1, DeliverEffect, CallOf, NoneAssumption DEF Turn, TurnInv, Writers, Live, RowInv, ReqInv, Idle
<1>22. ASSUME NEW c \in Calls, SessionEnds(c) PROVE TurnInv'
  <2>1. PICK st \in {"COMPLETED", "FAILED"} : fin' = [fin EXCEPT ![c] = [pc |-> "due", st |-> st]]
    BY <1>22 DEF SessionEnds
  <2>2. UNCHANGED <<row, req>> /\ sess[c] = "live"
    BY <1>22 DEF SessionEnds
  <2>3. fin'[c].pc = "due" /\ \A d \in Calls \ {c} : fin'[d] = fin[d]
    BY <2>1, VapiFun
  <2>4. \A q \in Requests : req[q].pc = "await" => req[q].call # c
    BY <2>2 DEF LegInv
  <2>5. QED
    BY <2>2, <2>3, <2>4, CallOf, NoneAssumption DEF TurnInv, Writers, Live, ReqInv
<1>23. ASSUME NEW c \in Calls, FinalizeRead(c) PROVE TurnInv'
  <2>1. UNCHANGED <<row, req>> /\ (Serial => \A q \in Writers(c) : req[q].pc = "await")
    BY <1>23 DEF FinalizeRead
  <2>2. QED
    BY <1>23, <2>1, FinEffect, CallOf, NoneAssumption DEF FinMoves, TurnInv, Writers, Live, ReqInv
<1>24. ASSUME NEW c \in Calls, FinalizeWrite(c) PROVE TurnInv'
  <2>1. UNCHANGED req
    BY <1>24 DEF FinalizeWrite
  <2>2. fin[c].pc = "write" /\ FinMoves(c, "done") /\ Writes(c, fin[c].st)
    BY <1>24, FinEffect, WriteEffect
  <2>3. QED
    BY <2>1, <2>2, CallOf, NoneAssumption DEF FinMoves, Writes, TurnInv, Writers, Live, ReqInv
<1>25. ASSUME NEW c \in Calls, FinalizeFails(c) PROVE TurnInv'
  <2>1. UNCHANGED <<row, req>>
    BY <1>25 DEF FinalizeFails
  <2>2. QED
    BY <1>25, <2>1, FinEffect, CallOf, NoneAssumption DEF FinMoves, TurnInv, Writers, Live, ReqInv
<1>26. ASSUME NEW c \in Calls, HandOver(c) PROVE TurnInv'
  <2>1. UNCHANGED <<req, fin>> /\ Turn(c)
    BY <1>26 DEF HandOver
  <2>2. Writes(c, "CONNECTED_TO_MANAGER")
    BY <1>26, WriteEffect
  <2>3. QED
    BY <2>1, <2>2, CallOf, NoneAssumption DEF Writes, Turn, TurnInv, Writers, Live, Terminal, ReqInv
<1>27. ASSUME NEW c \in Calls, VapiMoves(c) PROVE TurnInv'
  BY <1>27 DEF VapiMoves, TurnInv, Writers, Live
<1>28. ASSUME NEW c \in Calls, VapiAsksForManager(c) PROVE TurnInv'
  BY <1>28 DEF VapiAsksForManager, TurnInv, Writers, Live
<1>29. ASSUME NEW c \in Calls, VapiEnds(c) PROVE TurnInv'
  BY <1>29 DEF VapiEnds, TurnInv, Writers, Live
<1>30. CASE Reconfigure
  BY <1>30 DEF Reconfigure, TurnInv, Writers, Live
<1>31. CASE UNCHANGED vars
  BY <1>31 DEF vars, TurnInv, Writers, Live
<1> HIDE DEF TurnInv
<1>32. QED
  BY <1>1, <1>2, <1>3, <1>4, <1>5, <1>6, <1>7, <1>8, <1>9, <1>10, <1>11, <1>12, <1>13, <1>14, <1>15,
     <1>16, <1>17, <1>18, <1>19, <1>20, <1>21, <1>22, <1>23, <1>24, <1>25, <1>26, <1>27, <1>28,
     <1>29, <1>30, <1>31, Zenon DEF Next, Step, Finalize

\* No call becomes live and no creation begins: the limit is kept.
LEMMA FewerLive ==
    ASSUME CapInv, LiveCalls' \subseteq LiveCalls,
           \A r \in Requests : req'[r].kind = "create" => \E q \in Requests : req[q].kind = "create"
    PROVE  CapInv'
<1>1. CASE ~Serial
  BY <1>1 DEF CapInv
<1>2. CASE Serial
  <2>1. IsFiniteSet(LiveCalls) /\ Cardinality(LiveCalls) \in Nat
    BY <1>2, FS_CardinalityType DEF CapInv
  <2>2. IsFiniteSet(LiveCalls') /\ Cardinality(LiveCalls') <= Cardinality(LiveCalls)
    BY <2>1, FS_Subset, Zenon
  <2>3. Cardinality(LiveCalls') \in Nat
    BY <2>2, FS_CardinalityType
  <2>4. Cardinality(LiveCalls') <= Cap
    BY <1>2, <2>1, <2>2, <2>3, CapAssumption DEF CapInv
  <2>5. (\E r \in Requests : req'[r].kind = "create") => Cardinality(LiveCalls') < Cap
    BY <1>2, <2>1, <2>2, <2>3, CapAssumption DEF CapInv
  <2>6. QED
    BY <2>2, <2>4, <2>5 DEF CapInv
<1>3. QED
  BY <1>1, <1>2

\* A place is taken only while one is free.
LEMMA CapStep == TypeOK /\ ReqInv /\ RowInv /\ LegInv /\ HookInv /\ TurnInv /\ CapInv /\ [Next]_vars => CapInv'
<1>1. SUFFICES ASSUME TypeOK, ReqInv, RowInv, LegInv, HookInv, TurnInv, CapInv, [Next]_vars PROVE CapInv'
  OBVIOUS
<1> USE <1>1
<1>2. ASSUME NEW r \in Requests, DialVapi(r) PROVE CapInv'
  <2>1. LiveCalls' = LiveCalls
    BY <1>2 DEF DialVapi, LiveCalls, Live
  <2>2. \A q \in Requests : req'[q].kind = "create" => req[q].kind = "create"
    BY <1>2, StepMoves DEF Moves, ReqInv, Idle
  <2>3. QED
    BY <2>1, <2>2, FewerLive
<1>3. ASSUME NEW r \in Requests, DialDirect(r) PROVE CapInv'
  <2>1. LiveCalls' = LiveCalls
    BY <1>3 DEF DialDirect, LiveCalls, Live
  <2>2. \A q \in Requests : req'[q].kind = "create" => req[q].kind = "create"
    BY <1>3, StepMoves DEF Moves, ReqInv, Idle
  <2>3. QED
    BY <2>1, <2>2, FewerLive
<1>4. ASSUME NEW r \in Requests, DialStub(r) PROVE CapInv'
  <2>1. LiveCalls' = LiveCalls
    BY <1>4 DEF DialStub, LiveCalls, Live
  <2>2. \A q \in Requests : req'[q].kind = "create" => req[q].kind = "create"
    BY <1>4, StepMoves DEF Moves, ReqInv, Idle
  <2>3. QED
    BY <2>1, <2>2, FewerLive
<1>5. ASSUME NEW r \in Requests, DialRefused(r) PROVE CapInv'
  <2>1. LiveCalls' = LiveCalls
    BY <1>5 DEF DialRefused, LiveCalls, Live
  <2>2. \A q \in Requests : req'[q].kind = "create" => req[q].kind = "create"
    BY <1>5, StepEnds DEF Ends, Reroutes, ReqInv, Idle
  <2>3. QED
    BY <2>1, <2>2, FewerLive
<1>6. ASSUME NEW r \in Requests, DialAnswerLost(r) PROVE CapInv'
  <2>1. LiveCalls' = LiveCalls
    BY <1>6 DEF DialAnswerLost, LiveCalls, Live
  <2>2. \A q \in Requests : req'[q].kind = "create" => req[q].kind = "create"
    BY <1>6, StepEnds DEF Ends, Reroutes, ReqInv, Idle
  <2>3. QED
    BY <2>1, <2>2, FewerLive
<1>7. ASSUME NEW r \in Requests, CommitCreate(r) PROVE CapInv'
  <2>1. CASE ~Serial
    BY <2>1 DEF CapInv
  <2>2. CASE Serial
    <3> DEFINE c == req[r].call
    <3>1. req[r].kind = "create" /\ req[r].pc = "insert" /\ c \in Calls /\ row[c].st = "none"
      BY <1>7, StepEnds, WriteEffect DEF ReqInv, RowInv
    <3>2. LiveCalls' \subseteq LiveCalls \cup {c}
      BY <1>7, WriteEffect DEF LiveCalls, Live
    <3>3. /\ IsFiniteSet(LiveCalls) /\ Cardinality(LiveCalls) \in Nat
          /\ Cardinality(LiveCalls) < Cap
      BY <2>2, <3>1, FS_CardinalityType DEF CapInv
    <3>4. c \notin LiveCalls
      BY <3>1 DEF LiveCalls, Live
    <3>5. IsFiniteSet(LiveCalls \cup {c}) /\ Cardinality(LiveCalls \cup {c}) = Cardinality(LiveCalls) + 1
      BY <3>3, <3>4, FS_AddElement, Zenon
    <3>6. IsFiniteSet(LiveCalls') /\ Cardinality(LiveCalls') <= Cardinality(LiveCalls \cup {c})
      BY <3>2, <3>5, FS_Subset, Zenon
    <3>7. Cardinality(LiveCalls') \in Nat
      BY <3>6, FS_CardinalityType
    <3>8. Cardinality(LiveCalls') <= Cap
      BY <3>3, <3>5, <3>6, <3>7, CapAssumption
    <3>9. \A q \in Requests : req'[q].kind # "create"
      BY <1>7, <2>2, <3>1, StepEnds DEF Ends, TurnInv, Idle
    <3>10. QED
      BY <3>6, <3>8, <3>9 DEF CapInv
  <2>3. QED
    BY <2>1, <2>2
<1>8. ASSUME NEW r \in Requests, CommitCreateFails(r) PROVE CapInv'
  <2>1. LiveCalls' = LiveCalls
    BY <1>8 DEF CommitCreateFails, LiveCalls, Live
  <2>2. \A q \in Requests : req'[q].kind = "create" => req[q].kind = "create"
    BY <1>8, StepEnds DEF Ends, ReqInv, Idle
  <2>3. QED
    BY <2>1, <2>2, FewerLive
<1>9. ASSUME NEW r \in Requests, Probe(r) PROVE CapInv'
  <2>1. LiveCalls' = LiveCalls
    BY <1>9 DEF Probe, LiveCalls, Live
  <2>2. \A q \in Requests : req'[q].kind = "create" => req[q].kind = "create"
    BY <1>9, ProbeEffect DEF ReqInv, Idle
  <2>3. QED
    BY <2>1, <2>2, FewerLive
<1>10. ASSUME NEW r \in Requests, Flush(r) PROVE CapInv'
  <2>1. LiveCalls' = LiveCalls
    BY <1>10 DEF Flush, LiveCalls, Live
  <2>2. \A q \in Requests : req'[q].kind = "create" => req[q].kind = "create"
    BY <1>10, StepMoves DEF Moves, ReqInv, Idle
  <2>3. QED
    BY <2>1, <2>2, FewerLive
<1>11. ASSUME NEW r \in Requests, Steer(r) PROVE CapInv'
  <2>1. LiveCalls' = LiveCalls
    BY <1>11 DEF Steer, LiveCalls, Live
  <2>2. \A q \in Requests : req'[q].kind = "create" => req[q].kind = "create"
    BY <1>11, StepMoves DEF Moves, ReqInv, Idle
  <2>3. QED
    BY <2>1, <2>2, FewerLive
<1>12. ASSUME NEW r \in Requests, Stopped(r) PROVE CapInv'
  <2>1. LiveCalls' = LiveCalls
    BY <1>12 DEF Stopped, LiveCalls, Live
  <2>2. \A q \in Requests : req'[q].kind = "create" => req[q].kind = "create"
    BY <1>12, StepMoves DEF Moves, ReqInv, Idle
  <2>3. QED
    BY <2>1, <2>2, FewerLive
<1>13. ASSUME NEW r \in Requests, Save(r) PROVE CapInv'
  <2>1. LiveCalls' = LiveCalls
    BY <1>13 DEF Save, LiveCalls, Live
  <2>2. \A q \in Requests : req'[q].kind = "create" => req[q].kind = "create"
    BY <1>13, StepMoves DEF Moves, ReqInv, Idle
  <2>3. QED
    BY <2>1, <2>2, FewerLive
<1>14. ASSUME NEW r \in Requests, Commit(r) PROVE CapInv'
  <2>1. CASE ~Serial
    BY <2>1 DEF CapInv
  <2>2. CASE Serial
    <3>1. req[r].pc = "commit" /\ req[r].kind # "create" /\ req[r].call # NoCall
      BY <1>14, StepEnds DEF ReqInv
    <3>2. Live(req[r].call) \/ req[r].st = "STOPPED"
      BY <2>2, <3>1 DEF TurnInv
    <3>3. LiveCalls' \subseteq LiveCalls
      BY <1>14, <3>2, WriteEffect DEF Writes, LiveCalls, Live, Terminal
    <3>4. \A q \in Requests : req'[q].kind = "create" => req[q].kind = "create"
      BY <1>14, StepEnds DEF Ends, Idle
    <3>5. QED
      BY <3>3, <3>4, FewerLive
  <2>3. QED
    BY <2>1, <2>2
<1>15. ASSUME NEW r \in Requests, StopVapi(r) PROVE CapInv'
  <2>1. LiveCalls' = LiveCalls
    BY <1>15 DEF StopVapi, LiveCalls, Live
  <2>2. \A q \in Requests : req'[q].kind = "create" => req[q].kind = "create"
    BY <1>15, StepMoves DEF Moves, ReqInv, Idle
  <2>3. QED
    BY <2>1, <2>2, FewerLive
<1>16. ASSUME NEW r \in Requests, StopVapiFails(r) PROVE CapInv'
  <2>1. LiveCalls' = LiveCalls
    BY <1>16 DEF StopVapiFails, LiveCalls, Live
  <2>2. \A q \in Requests : req'[q].kind = "create" => req[q].kind = "create"
    BY <1>16, StepEnds DEF Ends, ReqInv, Idle
  <2>3. QED
    BY <2>1, <2>2, FewerLive
<1>17. ASSUME NEW r \in Requests, StopDirect(r) PROVE CapInv'
  <2>1. LiveCalls' = LiveCalls
    BY <1>17 DEF StopDirect, LiveCalls, Live
  <2>2. \A q \in Requests : req'[q].kind = "create" => req[q].kind = "create"
    BY <1>17, StepMoves DEF Moves, ReqInv, Idle
  <2>3. QED
    BY <2>1, <2>2, FewerLive
<1>18. ASSUME NEW r \in Requests, StopNobody(r) PROVE CapInv'
  <2>1. LiveCalls' = LiveCalls
    BY <1>18 DEF StopNobody, LiveCalls, Live
  <2>2. \A q \in Requests : req'[q].kind = "create" => req[q].kind = "create"
    BY <1>18, StepMoves DEF Moves, ReqInv, Idle
  <2>3. QED
    BY <2>1, <2>2, FewerLive
<1>19. ASSUME NEW r \in Requests, NEW c \in Calls, Create(r, c) PROVE CapInv'
  <2>1. LiveCalls' = LiveCalls /\ ~AtCapacity
    BY <1>19 DEF Create, LiveCalls, Live
  <2>2. ASSUME Serial PROVE Cardinality(LiveCalls) < Cap
    <3>1. Cardinality(LiveCalls) \in Nat
      BY <2>2, FS_CardinalityType DEF CapInv
    <3>2. QED
      BY <2>1, <3>1, CapAssumption DEF AtCapacity, LiveCalls
  <2>3. QED
    BY <2>1, <2>2 DEF CapInv
<1>20. ASSUME NEW r \in Requests, NEW c \in Calls, NEW kind \in {"get", "stop", "steer"}, Begin(r, c, kind) PROVE CapInv'
  <2>1. LiveCalls' = LiveCalls
    BY <1>20 DEF Begin, LiveCalls, Live
  <2>2. \A q \in Requests : req'[q].kind = "create" => req[q].kind = "create"
    BY <1>20, BeginEffect DEF ReqInv, Idle
  <2>3. QED
    BY <2>1, <2>2, FewerLive
<1>21. ASSUME NEW r \in Requests, NEW h \in hooks, NEW again \in BOOLEAN, Deliver(r, h, again) PROVE CapInv'
  <2>1. LiveCalls' = LiveCalls
    BY <1>21 DEF Deliver, LiveCalls, Live
  <2>2. \A q \in Requests : req'[q].kind = "create" => req[q].kind = "create"
    BY <1>21, DeliverEffect DEF ReqInv, Idle
  <2>3. QED
    BY <2>1, <2>2, FewerLive
<1>22. ASSUME NEW c \in Calls, SessionEnds(c) PROVE CapInv'
  <2>1. LiveCalls' = LiveCalls /\ UNCHANGED req
    BY <1>22 DEF SessionEnds, LiveCalls, Live
  <2>2. QED
    BY <2>1, FewerLive
<1>23. ASSUME NEW c \in Calls, FinalizeRead(c) PROVE CapInv'
  <2>1. LiveCalls' = LiveCalls /\ UNCHANGED req
    BY <1>23 DEF FinalizeRead, LiveCalls, Live
  <2>2. QED
    BY <2>1, FewerLive
<1>24. ASSUME NEW c \in Calls, FinalizeWrite(c) PROVE CapInv'
  <2>1. LiveCalls' \subseteq LiveCalls
    <3>1. fin[c].st \in Terminal
      BY <1>24, FinEffect DEF LegInv
    <3>2. QED
      BY <1>24, <3>1, WriteEffect DEF Writes, LiveCalls, Live
  <2>2. UNCHANGED req
    BY <1>24 DEF FinalizeWrite
  <2>3. QED
    BY <2>1, <2>2, FewerLive
<1>25. ASSUME NEW c \in Calls, FinalizeFails(c) PROVE CapInv'
  <2>1. LiveCalls' = LiveCalls /\ UNCHANGED req
    BY <1>25 DEF FinalizeFails, LiveCalls, Live
  <2>2. QED
    BY <2>1, FewerLive
<1>26. ASSUME NEW c \in Calls, HandOver(c) PROVE CapInv'
  <2>1. UNCHANGED req /\ Live(c)
    BY <1>26 DEF HandOver, Live, Terminal
  <2>2. LiveCalls' \subseteq LiveCalls
    BY <1>26, <2>1, WriteEffect DEF Writes, LiveCalls, Live
  <2>3. QED
    BY <2>1, <2>2, FewerLive
<1>27. ASSUME NEW c \in Calls, VapiMoves(c) PROVE CapInv'
  <2>1. LiveCalls' = LiveCalls /\ UNCHANGED req
    BY <1>27 DEF VapiMoves, LiveCalls, Live
  <2>2. QED
    BY <2>1, FewerLive
<1>28. ASSUME NEW c \in Calls, VapiAsksForManager(c) PROVE CapInv'
  <2>1. LiveCalls' = LiveCalls /\ UNCHANGED req
    BY <1>28 DEF VapiAsksForManager, LiveCalls, Live
  <2>2. QED
    BY <2>1, FewerLive
<1>29. ASSUME NEW c \in Calls, VapiEnds(c) PROVE CapInv'
  <2>1. LiveCalls' = LiveCalls /\ UNCHANGED req
    BY <1>29 DEF VapiEnds, LiveCalls, Live
  <2>2. QED
    BY <2>1, FewerLive
<1>30. CASE Reconfigure
  <2>1. LiveCalls' = LiveCalls /\ UNCHANGED req
    BY <1>30 DEF Reconfigure, LiveCalls, Live
  <2>2. QED
    BY <2>1, FewerLive
<1>31. CASE UNCHANGED vars
  <2>1. LiveCalls' = LiveCalls /\ UNCHANGED req
    BY <1>31 DEF vars, LiveCalls, Live
  <2>2. QED
    BY <2>1, FewerLive
<1> HIDE DEF CapInv
<1>32. QED
  BY <1>1, <1>2, <1>3, <1>4, <1>5, <1>6, <1>7, <1>8, <1>9, <1>10, <1>11, <1>12, <1>13, <1>14, <1>15,
     <1>16, <1>17, <1>18, <1>19, <1>20, <1>21, <1>22, <1>23, <1>24, <1>25, <1>26, <1>27, <1>28,
     <1>29, <1>30, <1>31, Zenon DEF Next, Step, Finalize

-----------------------------------------------------------------------------
(* What ends stays ended                                                   *)

\* A call that has settled is left as it is.
Untouched(d) == Settled(d)' /\ row'[d] = row[d]

\* No step takes a settled call out of its status.
LEMMA SettledStep == TypeOK /\ ReqInv /\ RowInv /\ LegInv /\ HookInv /\ [Next]_vars
                     => \A d \in Calls : Settled(d) => Untouched(d)
<1>1. SUFFICES ASSUME TypeOK, ReqInv, RowInv, LegInv, HookInv, [Next]_vars,
                      NEW d \in Calls, Settled(d)
               PROVE  Untouched(d)
  OBVIOUS
<1> USE <1>1
<1>2. ASSUME NEW r \in Requests, DialVapi(r) PROVE Untouched(d)
  <2>1. UNCHANGED <<row, fin>>
    BY <1>2 DEF DialVapi
  <2>2. QED
    BY <1>2, <2>1, StepMoves, CallOf, NoneAssumption DEF Moves, Untouched, Settled, Writers, RowInv, ReqInv, Idle
<1>3. ASSUME NEW r \in Requests, DialDirect(r) PROVE Untouched(d)
  <2>1. UNCHANGED <<row, fin>>
    BY <1>3 DEF DialDirect
  <2>2. QED
    BY <1>3, <2>1, StepMoves, CallOf, NoneAssumption DEF Moves, Untouched, Settled, Writers, RowInv, ReqInv, Idle
<1>4. ASSUME NEW r \in Requests, DialStub(r) PROVE Untouched(d)
  <2>1. UNCHANGED <<row, fin>>
    BY <1>4 DEF DialStub
  <2>2. QED
    BY <1>4, <2>1, StepMoves, CallOf, NoneAssumption DEF Moves, Untouched, Settled, Writers, RowInv, ReqInv, Idle
<1>5. ASSUME NEW r \in Requests, DialRefused(r) PROVE Untouched(d)
  <2>1. UNCHANGED <<row, fin>>
    BY <1>5 DEF DialRefused
  <2>2. QED
    BY <1>5, <2>1, StepEnds, CallOf, NoneAssumption DEF Ends, Reroutes, Untouched, Settled, Writers, RowInv, ReqInv, Idle
<1>6. ASSUME NEW r \in Requests, DialAnswerLost(r) PROVE Untouched(d)
  <2>1. UNCHANGED <<row, fin>>
    BY <1>6 DEF DialAnswerLost
  <2>2. QED
    BY <1>6, <2>1, StepEnds, CallOf, NoneAssumption DEF Ends, Reroutes, Untouched, Settled, Writers, RowInv, ReqInv, Idle
<1>7. ASSUME NEW r \in Requests, CommitCreate(r) PROVE Untouched(d)
  <2>1. UNCHANGED fin
    BY <1>7 DEF CommitCreate
  <2>2. QED
    BY <1>7, <2>1, StepEnds, WriteEffect, CallOf, NoneAssumption DEF Ends, Terminal, Untouched, Settled, Writers, RowInv, ReqInv, Idle
<1>8. ASSUME NEW r \in Requests, CommitCreateFails(r) PROVE Untouched(d)
  <2>1. UNCHANGED <<row, fin>>
    BY <1>8 DEF CommitCreateFails
  <2>2. QED
    BY <1>8, <2>1, StepEnds, CallOf, NoneAssumption DEF Ends, Untouched, Settled, Writers, RowInv, ReqInv, Idle
<1>9. ASSUME NEW r \in Requests, Probe(r) PROVE Untouched(d)
  <2>1. UNCHANGED <<row, fin>>
    BY <1>9 DEF Probe
  <2>2. QED
    BY <1>9, <2>1, ProbeEffect, CallOf, NoneAssumption DEF Untouched, Settled, Writers, RowInv, ReqInv, Idle
<1>10. ASSUME NEW r \in Requests, Flush(r) PROVE Untouched(d)
  <2>1. UNCHANGED <<row, fin>>
    BY <1>10 DEF Flush
  <2>2. QED
    BY <1>10, <2>1, StepMoves, CallOf, NoneAssumption DEF Moves, Untouched, Settled, Writers, RowInv, ReqInv, Idle
<1>11. ASSUME NEW r \in Requests, Steer(r) PROVE Untouched(d)
  <2>1. UNCHANGED <<row, fin>>
    BY <1>11 DEF Steer
  <2>2. QED
    BY <1>11, <2>1, StepMoves, CallOf, NoneAssumption DEF Moves, Untouched, Settled, Writers, RowInv, ReqInv, Idle
<1>12. ASSUME NEW r \in Requests, Stopped(r) PROVE Untouched(d)
  <2>1. UNCHANGED <<row, fin>>
    BY <1>12 DEF Stopped
  <2>2. QED
    BY <1>12, <2>1, StepMoves, CallOf, NoneAssumption DEF Moves, Untouched, Settled, Writers, RowInv, ReqInv, Idle
<1>13. ASSUME NEW r \in Requests, Save(r) PROVE Untouched(d)
  <2>1. UNCHANGED <<row, fin>>
    BY <1>13 DEF Save
  <2>2. QED
    BY <1>13, <2>1, StepMoves, CallOf, NoneAssumption DEF Moves, Untouched, Settled, Writers, RowInv, ReqInv, Idle
<1>14. ASSUME NEW r \in Requests, Commit(r) PROVE Untouched(d)
  <2>1. UNCHANGED fin
    BY <1>14 DEF Commit
  <2>2. QED
    BY <1>14, <2>1, StepEnds, WriteEffect, CallOf, NoneAssumption DEF Ends, Writes, Untouched, Settled, Writers, RowInv, ReqInv, Idle
<1>15. ASSUME NEW r \in Requests, StopVapi(r) PROVE Untouched(d)
  <2>1. UNCHANGED <<row, fin>>
    BY <1>15 DEF StopVapi
  <2>2. QED
    BY <1>15, <2>1, StepMoves, CallOf, NoneAssumption DEF Moves, Untouched, Settled, Writers, RowInv, ReqInv, Idle
<1>16. ASSUME NEW r \in Requests, StopVapiFails(r) PROVE Untouched(d)
  <2>1. UNCHANGED <<row, fin>>
    BY <1>16 DEF StopVapiFails
  <2>2. QED
    BY <1>16, <2>1, StepEnds, CallOf, NoneAssumption DEF Ends, Untouched, Settled, Writers, RowInv, ReqInv, Idle
<1>17. ASSUME NEW r \in Requests, StopDirect(r) PROVE Untouched(d)
  <2>1. UNCHANGED row /\ fin' = [fin EXCEPT ![req[r].call] = [pc |-> "due", st |-> "STOPPED"]]
    BY <1>17 DEF StopDirect
  <2>2. fin'[d].pc # "write" /\ UNCHANGED row
    BY <2>1, VapiFun DEF Settled
  <2> HIDE <2>1
  <2>3. QED
    BY <1>17, <2>2, StepMoves DEF Moves, Untouched, Settled, Writers
<1>18. ASSUME NEW r \in Requests, StopNobody(r) PROVE Untouched(d)
  <2>1. UNCHANGED <<row, fin>>
    BY <1>18 DEF StopNobody
  <2>2. QED
    BY <1>18, <2>1, StepMoves, CallOf, NoneAssumption DEF Moves, Untouched, Settled, Writers, RowInv, ReqInv, Idle
<1>19. ASSUME NEW r \in Requests, NEW c \in Calls, Create(r, c) PROVE Untouched(d)
  <2>1. UNCHANGED <<row, fin>>
    BY <1>19 DEF Create
  <2>2. QED
    BY <1>19, <2>1, CreateEffect, CallOf, NoneAssumption DEF Untouched, Settled, Writers, RowInv, ReqInv, Idle
<1>20. ASSUME NEW r \in Requests, NEW c \in Calls, NEW kind \in {"get", "stop", "steer"}, Begin(r, c, kind) PROVE Untouched(d)
  <2>1. UNCHANGED <<row, fin>>
    BY <1>20 DEF Begin
  <2>2. QED
    BY <1>20, <2>1, BeginEffect, CallOf, NoneAssumption DEF Live, Untouched, Settled, Writers, RowInv, ReqInv, Idle
<1>21. ASSUME NEW r \in Requests, NEW h \in hooks, NEW again \in BOOLEAN, Deliver(r, h, again) PROVE Untouched(d)
  <2>1. UNCHANGED <<row, fin>>
    BY <1>21 DEF Deliver
  <2>2. QED
    BY <1>21, <2>1, DeliverEffect, CallOf, NoneAssumption DEF Live, Untouched, Settled, Writers, RowInv, ReqInv, Idle
<1>22. ASSUME NEW c \in Calls, SessionEnds(c) PROVE Untouched(d)
  <2>1. PICK st \in {"COMPLETED", "FAILED"} : fin' = [fin EXCEPT ![c] = [pc |-> "due", st |-> st]]
    BY <1>22 DEF SessionEnds
  <2>2. UNCHANGED <<row, req>>
    BY <1>22 DEF SessionEnds
  <2>3. fin'[d].pc # "write"
    BY <2>1, VapiFun DEF Settled
  <2>4. QED
    BY <2>2, <2>3 DEF Untouched, Settled, Writers
<1>23. ASSUME NEW c \in Calls, FinalizeRead(c) PROVE Untouched(d)
  <2>1. UNCHANGED <<row, req>>
    BY <1>23 DEF FinalizeRead
  <2>2. QED
    BY <1>23, <2>1, FinEffect DEF FinMoves, Untouched, Settled, Writers, Live
<1>24. ASSUME NEW c \in Calls, FinalizeWrite(c) PROVE Untouched(d)
  <2>1. UNCHANGED <<req>>
    BY <1>24 DEF FinalizeWrite
  <2>2. QED
    BY <1>24, <2>1, FinEffect, WriteEffect DEF FinMoves, Writes, Untouched, Settled, Writers, Live
<1>25. ASSUME NEW c \in Calls, FinalizeFails(c) PROVE Untouched(d)
  <2>1. UNCHANGED <<row, req>>
    BY <1>25 DEF FinalizeFails
  <2>2. QED
    BY <1>25, <2>1, FinEffect DEF FinMoves, Untouched, Settled, Writers, Live
<1>26. ASSUME NEW c \in Calls, HandOver(c) PROVE Untouched(d)
  <2>1. UNCHANGED <<req, fin>> /\ row[c].st = "IN_PROGRESS"
    BY <1>26 DEF HandOver
  <2>2. QED
    BY <1>26, <2>1, WriteEffect DEF Writes, Untouched, Settled, Writers, Terminal
<1>27. ASSUME NEW c \in Calls, VapiMoves(c) PROVE Untouched(d)
  BY <1>27 DEF VapiMoves, Untouched, Settled, Writers
<1>28. ASSUME NEW c \in Calls, VapiAsksForManager(c) PROVE Untouched(d)
  BY <1>28 DEF VapiAsksForManager, Untouched, Settled, Writers
<1>29. ASSUME NEW c \in Calls, VapiEnds(c) PROVE Untouched(d)
  BY <1>29 DEF VapiEnds, Untouched, Settled, Writers
<1>30. CASE Reconfigure
  BY <1>30 DEF Reconfigure, Untouched, Settled, Writers
<1>31. CASE UNCHANGED vars
  BY <1>31 DEF vars, Untouched, Settled, Writers
<1> HIDE DEF Untouched
<1>32. QED
  BY <1>1, <1>2, <1>3, <1>4, <1>5, <1>6, <1>7, <1>8, <1>9, <1>10, <1>11, <1>12, <1>13, <1>14, <1>15,
     <1>16, <1>17, <1>18, <1>19, <1>20, <1>21, <1>22, <1>23, <1>24, <1>25, <1>26, <1>27, <1>28,
     <1>29, <1>30, <1>31, Zenon DEF Next, Step, Finalize

\* The status CallStatus speaks of.
Status == [c \in Calls |-> IF Live(c) THEN "live" ELSE row[c].st]

\* A step that writes no row, or leaves a live call live, is none of CallStatus.
LEMMA SameStatus ==
    ASSUME \A d \in Calls : (Live(d)' <=> Live(d)) /\ (row'[d].st = row[d].st \/ Live(d))
    PROVE  Status' = Status
  BY DEF Status

\* While the writers of a row take turns, every step is one of CallStatus.
LEMMA StatusStep ==
    ASSUME Serial, IInv, [Next]_vars PROVE [Abstract!Next]_Status
<1> USE DEF IInv
<1>1. CASE row' = row
  BY <1>1, SameStatus DEF Live
<1>2. ASSUME NEW r \in Requests, CommitCreate(r) PROVE Abstract!Next
  <2>0. PICK c \in Calls : c = req[r].call
    BY <1>2, WriteEffect
  <2>1. req[r].pc = "insert" /\ c \in Calls /\ row[c].st = "none" /\ req[r].st \in {"QUEUED", "IN_PROGRESS"}
    BY <1>2, <2>0, StepEnds, WriteEffect DEF ReqInv, RowInv
  <2>2. Live(c)' /\ ~Live(c)
    BY <1>2, <2>0, <2>1, WriteEffect DEF Live, Terminal
  <2>3. \A d \in Calls \ {c} : row'[d] = row[d]
    BY <1>2, <2>0, WriteEffect
  <2>4. Status' = [Status EXCEPT ![c] = "live"] /\ Status[c] = "none"
    BY <2>1, <2>2, <2>3 DEF Status, Live
  <2>5. Abstract!Appear(c)
    BY <2>4 DEF Abstract!Appear, Status
  <2>6. QED
    BY <2>1, <2>5 DEF Abstract!Next
<1>3. ASSUME NEW c \in Calls, NEW st \in Terminal, Live(c), Writes(c, st) PROVE Abstract!Next
  <2>1. ~Live(c)'
    BY <1>3 DEF Writes, Live
  <2>2. Status' = [Status EXCEPT ![c] = st] /\ Status[c] = "live"
    BY <1>3, <2>1 DEF Status, Live, Writes
  <2>3. Abstract!End(c)
    BY <2>2 DEF Abstract!End, Abstract!Terminal, Terminal, Status
  <2>4. QED
    BY <2>3 DEF Abstract!Next
<1>4. ASSUME NEW c \in Calls, NEW st \in Statuses \ Terminal, Live(c), Writes(c, st) PROVE Status' = Status
  <2>1. Live(c)'
    BY <1>4 DEF Writes, Live, Statuses, Terminal
  <2>2. QED
    BY <1>4, <2>1, SameStatus DEF Writes, Live
<1>5. ASSUME NEW r \in Requests, Commit(r) PROVE [Abstract!Next]_Status
  <2> DEFINE c == req[r].call
  <2>1. req[r].pc = "commit" /\ req[r].kind # "create" /\ c \in Calls /\ c # NoCall
    BY <1>5, StepEnds, WriteEffect DEF ReqInv
  <2>2. req[r].st \in Statuses
    BY <2>1 DEF RowInv, TypeOK, Locals
  <2>3. Live(c) \/ (row[c].st = "STOPPED" /\ req[r].st = "STOPPED")
    BY <2>1 DEF TurnInv
  <2>4. CASE Writes(c, req[r].st) /\ Live(c)
    BY <1>3, <1>4, <2>1, <2>2, <2>4
  <2>5. CASE Writes(c, req[r].st) /\ ~Live(c)
    <3>1. \A d \in Calls : row'[d].st = row[d].st
      BY <2>3, <2>5 DEF Writes
    <3>2. QED
      BY <3>1, SameStatus DEF Live
  <2>6. QED
    BY <1>1, <1>5, <2>4, <2>5, WriteEffect
<1>6. ASSUME NEW c \in Calls, FinalizeWrite(c) PROVE Abstract!Next
  <2>1. Live(c) /\ fin[c].st \in Terminal
    BY <1>6, FinEffect DEF TurnInv, LegInv
  <2>2. QED
    BY <1>3, <1>6, <2>1, WriteEffect
<1>7. ASSUME NEW c \in Calls, HandOver(c) PROVE Status' = Status
  <2>1. Live(c)
    BY <1>7 DEF HandOver, Live, Terminal
  <2>2. "CONNECTED_TO_MANAGER" \in Statuses \ Terminal
    BY DEF Statuses, Terminal
  <2>3. QED
    BY <1>4, <1>7, <2>1, <2>2, WriteEffect
<1>8. ASSUME NEW r \in Requests, DialVapi(r) PROVE row' = row
  BY <1>8 DEF DialVapi
<1>9. ASSUME NEW r \in Requests, DialDirect(r) PROVE row' = row
  BY <1>9 DEF DialDirect
<1>10. ASSUME NEW r \in Requests, DialStub(r) PROVE row' = row
  BY <1>10 DEF DialStub
<1>11. ASSUME NEW r \in Requests, DialRefused(r) PROVE row' = row
  BY <1>11 DEF DialRefused
<1>12. ASSUME NEW r \in Requests, DialAnswerLost(r) PROVE row' = row
  BY <1>12 DEF DialAnswerLost
<1>13. ASSUME NEW r \in Requests, CommitCreateFails(r) PROVE row' = row
  BY <1>13 DEF CommitCreateFails
<1>14. ASSUME NEW r \in Requests, Probe(r) PROVE row' = row
  BY <1>14 DEF Probe
<1>15. ASSUME NEW r \in Requests, Flush(r) PROVE row' = row
  BY <1>15 DEF Flush
<1>16. ASSUME NEW r \in Requests, Steer(r) PROVE row' = row
  BY <1>16 DEF Steer
<1>17. ASSUME NEW r \in Requests, Stopped(r) PROVE row' = row
  BY <1>17 DEF Stopped
<1>18. ASSUME NEW r \in Requests, Save(r) PROVE row' = row
  BY <1>18 DEF Save
<1>19. ASSUME NEW r \in Requests, StopVapi(r) PROVE row' = row
  BY <1>19 DEF StopVapi
<1>20. ASSUME NEW r \in Requests, StopVapiFails(r) PROVE row' = row
  BY <1>20 DEF StopVapiFails
<1>21. ASSUME NEW r \in Requests, StopDirect(r) PROVE row' = row
  BY <1>21 DEF StopDirect
<1>22. ASSUME NEW r \in Requests, StopNobody(r) PROVE row' = row
  BY <1>22 DEF StopNobody
<1>23. ASSUME NEW r \in Requests, NEW c \in Calls, Create(r, c) PROVE row' = row
  BY <1>23 DEF Create
<1>24. ASSUME NEW r \in Requests, NEW c \in Calls, NEW kind \in {"get", "stop", "steer"}, Begin(r, c, kind) PROVE row' = row
  BY <1>24 DEF Begin
<1>25. ASSUME NEW r \in Requests, NEW h \in hooks, NEW again \in BOOLEAN, Deliver(r, h, again) PROVE row' = row
  BY <1>25 DEF Deliver
<1>26. ASSUME NEW c \in Calls, SessionEnds(c) PROVE row' = row
  BY <1>26 DEF SessionEnds
<1>27. ASSUME NEW c \in Calls, FinalizeRead(c) PROVE row' = row
  BY <1>27 DEF FinalizeRead
<1>28. ASSUME NEW c \in Calls, FinalizeFails(c) PROVE row' = row
  BY <1>28 DEF FinalizeFails
<1>29. ASSUME NEW c \in Calls, VapiMoves(c) PROVE row' = row
  BY <1>29 DEF VapiMoves
<1>30. ASSUME NEW c \in Calls, VapiAsksForManager(c) PROVE row' = row
  BY <1>30 DEF VapiAsksForManager
<1>31. ASSUME NEW c \in Calls, VapiEnds(c) PROVE row' = row
  BY <1>31 DEF VapiEnds
<1>32. ASSUME Reconfigure PROVE row' = row
  BY <1>32 DEF Reconfigure
<1>33. ASSUME UNCHANGED vars PROVE row' = row
  BY <1>33 DEF vars
<1> HIDE DEF IInv
<1>34. QED
  BY <1>1, <1>2, <1>5, <1>6, <1>7, <1>8, <1>9, <1>10, <1>11, <1>12, <1>13, <1>14, <1>15, <1>16,
     <1>17, <1>18, <1>19, <1>20, <1>21, <1>22, <1>23, <1>24, <1>25, <1>26, <1>27, <1>28, <1>29,
     <1>30, <1>31, <1>32, <1>33, Zenon DEF Next, Step, Finalize

-----------------------------------------------------------------------------
(* The theorems                                                            *)

\* The inductive invariant holds of every state the application can reach.
THEOREM Invariance == Spec => []IInv
<1>1. Init => IInv
  BY InitIInv
<1>2. IInv /\ [Next]_vars => IInv'
  BY TypeStep, ReqStep, RowStep, LegStep, HookStep, StopStep, TurnStep, CapStep DEF IInv
<1>3. QED
  BY <1>1, <1>2, PTL DEF Spec

\* Every variable has its type: rows, requests, legs, finalizers and webhooks.
THEOREM TypeCorrect == Spec => []TypeOK
<1>1. IInv => TypeOK
  BY DEF IInv
<1>2. QED
  BY <1>1, Invariance, PTL

\* A call marked STOPPED is silent unless its stop reached no engine, for any
\* number of calls, requests and repeated webhooks (stop_call).
THEOREM StopIsHeard == Spec => []StopHeard
<1>1. IInv => StopHeard
  BY DEF IInv, StopInv
<1>2. QED
  BY <1>1, Invariance, PTL

\* One engine calls the customer, and a leg that is up can be stopped by its row,
\* unless an answer or the commit was lost (initiate_call, create_call).
THEOREM OneLegOnly == Spec => []OneLeg
<1>1. IInv => OneLeg
  <2>1. SUFFICES ASSUME IInv, NEW c \in Calls \ lost
                 PROVE  /\ ~(LegUp(c, "vapi") /\ LegUp(c, "direct"))
                        /\ (LegUp(c, "vapi") \/ LegUp(c, "direct")) =>
                              \/ row[c].st # "none"
                              \/ \E r \in Requests : req[r].call = c /\ req[r].kind = "create"
    BY DEF OneLeg
  <2>2. QED
    BY <2>1 DEF IInv, LegInv, ReqInv, LegUp
<1>2. QED
  BY <1>1, Invariance, PTL

\* There are never more live calls than the limit, whatever it is, as long as
\* creations take turns (_check_max_concurrent_calls).
THEOREM CapIsKept == Spec => []CapHolds
<1>1. IInv => CapHolds
  BY DEF IInv, CapInv, CapHolds, LiveCalls
<1>2. QED
  BY <1>1, Invariance, PTL

\* Nothing ever begins to write a call that has ended and whose writers are
\* through (the is_terminal checks of service, processor and finalizer).
THEOREM SettledForGood == Spec => SettledStays
<1>1. IInv /\ [Next]_vars => [\A c \in Calls : Settled(c) => Settled(c)' /\ row'[c] = row[c]]_vars
  BY SettledStep DEF IInv, Untouched
<1>2. QED
  BY <1>1, Invariance, PTL DEF Spec, SettledStays

\* As long as the writers of a row take turns, the status of a call is what
\* CallStatus promises: it appears once and keeps the status it ended in.
THEOREM Refinement == ASSUME Serial PROVE Spec => ImplementsCallStatus
<1>1. Init => Abstract!Init
  BY DEF Init, Abstract!Init, Live
<1>2. IInv /\ [Next]_vars => [Abstract!Next]_Status
  BY StatusStep
<1>3. QED
  BY <1>1, <1>2, Invariance, PTL DEF Spec, ImplementsCallStatus, Abstract!Spec, Status

=============================================================================
