# Verification of AMO CRM Voice

TLA+ models of the call-control core of this repository, TLC runs that check
them on small instances, and TLAPS proofs of the invariants that hold for every
instance. Paths below are relative to the repository (`app/...`, `docs/...`).

## 1. The system and its parts

AMO CRM Voice places and receives phone calls that a language model conducts.
An operator (HTTP API, Telegram bot, admin panel) creates a call; an engine
(Vapi, Direct, browser) runs it; the call may be handed to a human manager.
Several worker processes serve requests; they share PostgreSQL and Redis.

| Part | State | Operations | How it meets the others | Hard | Correct when | Module |
|---|---|---|---|---|---|---|
| Session ownership: `direct/session_coordinator.py`, `session_store.py` | Redis: lock with TTL, metadata hash, active set; heartbeat tasks | register, renew, release, reconcile at start | called by create/terminate of a session and by the start of a worker; writes `calls` | leases against crashes, creation racing termination, two starts at once | a session that renews is owned by its worker; no call of a live session is failed | `SessionLease` |
| Direct session control: `direct/session_manager.py`, `gemini_client.py`, `event_handler.py` | `_sessions`, a stop event, five kinds of task, socket, bridge, leg | create, audio loop, bridge reader, leg monitor, TTS tasks, terminate | telephony adapter, Gemini socket, transcript rows, `calls`, ownership | six causes of an end, observed by tasks that interleave with creation and teardown | taken apart once, with the right status, after the transcript is settled, leaving nothing behind | `DirectSession` |
| Direct audio plane (same files, `voice_strategy.py`) | bounded queues, turn state, active voice path | enqueue, drain, interrupt, suspend, fallback, response timeout | bridge, Gemini, TTS providers, transfer | stale capability checks, concurrent sentences, timers that outlive their reason | a suspended session does not speak; an interruption silences; an answer is voiced | `DirectAudio` |
| Warm transfer: `services/transfer_service.py`, `transfer_engine/mango.py`, `api/v1/transfers.py` | `transfer_records`, legs, one transaction per request | guard, reserve, dial, brief, bridge, fail | row lock on `calls`, manager rows, telephony, connection pool | concurrent requests, timeouts, hang-ups, rollback | one transfer of a call at a time; every request ends | `WarmTransfer` |
| Managers: `repositories/manager_repo.py`, `services/manager_availability.py` | `is_available`, `available_after` | reserve, cool down, restore | transfer requests, periodic loop, in-process timer | timers lost in a crash, restore of a manager in use | one manager in one conversation | `WarmTransfer` |
| Calls: `services/call_service.py`, `models/call.py`, `core/rate_limit.py` | the `calls` row, the count of live rows | create, read with refresh, steer, stop | engines, finaliser, transfer, webhooks all write the status | stale reads written back, rows invisible until the request commits, check-then-act limits | terminal statuses stay; a stopped call is silent; the limit holds | `CallLifecycle`, `CallStatus` |
| Routing: `call_engine/`; Vapi: `vapi/` | `route_used`; calls at the provider | pick, fall back; webhooks | engines; `calls` | a fallback after a half-done dial; duplicates, reordering | one leg per call; a late event does not reopen a call | `CallLifecycle` |
| Mango dial: `telephony/mango.py`, `mango_state_store.py`, `mango_freeswitch_correlation.py` | leg states, correlation hash | originate, wait, terminate | transfer, Direct sessions, ESL reader, webhooks | three writers, read-merge-write, ids that change | what connect reports has happened; a leg let go is down | `MangoDial` |
| Mango events, inbound calls: `mango_events.py`, `mango_webhooks.py`, `mango_inbound_call_service.py` | event ids seen, `calls`, transfers | deduplicate, correlate, apply, launch | Mango, the FreeSWITCH dialplan, call creation | duplicates, reordering, failures half-way, two webhooks of one leg | applied once; one session per leg; what is over stays over | `MangoEvents` |
| FreeSWITCH gateway: `media_gateway/`, `telephony/freeswitch_bridge.py` | tables of sessions, RTP sockets, ESL connection | attach, detach, events, reconnect, watchdog, probe | audio bridge, correlation | events before the attach, lost connection, tasks of a session that is gone | frames keep their order, a detached session is gone, a hang-up is noticed | `MediaGateway` |
| Browser calls: `browser/`, `api/v1/browser_calls.py` | queues, client flag, registry | create, attach, detach, audio, stop | Direct session | three tasks that wait for each other through full queues | one browser is heard, the tail is heard, an end releases everybody | `BrowserCall` |
| Readiness: `api/v1/telephony.py`, `services/preflight_service.py`, `core/config.py`, `main.py` | the settings | judge, advise | the call path decides by code of its own | four judges without shared code | green means that a call is dialled; advice leads to green | `Readiness` |
| Administration: `provider_settings_service.py`, `mango_telephony_service.py`, `agent_*_service.py`, `knowledge_base_service.py` | rows of settings, lines, agents, bindings | save, validate, sync, bind | remote services; inbound routing | read-ask-write without locks, changed encryption key, incomplete answers | shown as tested only if tested; lines as listed; no update undoes another | `Administration` |
| Everything else (widgets, summaries, voice clients, audio arithmetic, bot, admin panel, scripts, migrations) | rows | one request each | - | - | not modelled, see section 9 | |

`PROJECT.json` lists the same parts with their files, and the hazards of the
code with the line where each bites.

## 2. Plan

Done: the modules of the table, their runs, and a proof of every safety
property that a run checks. Proofs are in modules of their own
(`...Proofs`). Three of them hold two components each: `MangoProofs`
(`MangoEvents`, `MangoDial`), `AudioBridgeProofs` (`MediaGateway`,
`BrowserCall`) and `ConfigurationProofs` (`Administration`, `Readiness`). To be
extended together, `MangoDial`, `BrowserCall` and `Readiness` call their
specifications `DialSpec`, `BrowserSpec` and `ReadinessSpec`, and likewise their
`...Init`, `...Next`, `...TypeOK`; the first two have their inductive invariants
in `MangoDialInvariant` and `BrowserCallInvariant`.

How they fit together: the modules meet at interfaces that each of them states
as its environment. `CallLifecycle` has the end of a Direct session as one
action and its `finalize_call` as two; `DirectSession` is what happens inside,
and `SessionLease` what its worker keeps in Redis meanwhile. `WarmTransfer` and
`CallLifecycle` share the row of the call (`HandOver` is the commit of a
transfer). `DirectSession` and `WarmTransfer` take an answer or an end of a leg
from `MangoDial`, whose ESL events come from the reader of `MediaGateway` and
whose webhooks `MangoEvents` applies to the calls. `BrowserCall` replaces the
leg and the gateway for test calls. `Readiness` says which of these paths a
deployment takes at all.

Next, in this order:

1. The admission of several Direct sessions (`DIRECT_MAX_SESSIONS` across
   concurrent creations) and the delivery of steering between workers.
2. A composition of `DirectSession` with `WarmTransfer` and `DirectAudio`
   (suspension and hang-up during a transfer).

## 3. How the models are written

One action is one `await` together with the code up to the next one, because
all of the code is asyncio: between two awaits nothing of the same process
runs. What another process or the environment does is an action of its own.
A task that was created and has not run is state. Data is abstract: a status is
one of the classes the code distinguishes, an utterance is a number, audio and
texts do not appear. `misled`, `early`, `stranded`, `lost`, `raced` and the like
are history variables: each names one way in which the code is known to go
wrong, is set by the step that does, and lets a property say "except then". What
lies behind the exception is then shown by a configuration of its own, under
which TLC refutes the unconditional statement that the repository makes
(sections 4 and 8). Errors of the store, the database and the providers are
actions or alternatives wherever the code has a path for them; where they would only multiply states they are
capped by `MaxFaults`.

### SessionLease (`session_coordinator.py`, `session_store.py`, `main.py`)

Workers are process incarnations; a restart is another worker. Per session:
where `create_session`/`register_session` stands (`regPc`), where
`terminate_session`/`release_session` stands (`relPc`), the heartbeat task, and
the Redis keys `lock`/`ttl`/`meta`/`active`. Every Redis round trip of
`register_session`, `release_session`, `_heartbeat_loop` and
`startup_reconcile` is one action; the two steps of `update_status` (EXISTS,
HSET) and of `delete` are separate. Time is counted in heartbeat intervals
(`LockTTL = 3` is 30 s renewed every 10 s). Reconciliation has one database
transaction per worker: `recPend` is what it has written and not committed, and
the row locks it holds can deadlock with another reconciler (PostgreSQL aborts
one, `RecDeadlock`). Crash, shutdown, errors and time may come at every step.

### WarmTransfer (`transfer_service.py`, `transfer_engine/mango.py`, `manager_repo.py`)

Per request: its program counter, the status it has in its own SQLAlchemy
session (`view`), the candidates left and the manager tried. `db` is what other
transactions see; `row` is the row lock of `SELECT ... FOR UPDATE`. Manager rows
are written in transactions of their own and so appear at once. The connection
pool is modelled because a request holds one connection while it dials and
needs another to reserve and to mark. Beside the requests: `finalize_call`
(`FinRead`, `FinWrite`), which comes after the hang-up of the customer or after a
teardown whose hang-up command failed (`SessionEndsUnheard`: the error is logged,
the call is finalised all the same, and the leg, which is still up, joins
`stranded`), readers that write a live status back (`PollRead`,
`PollWrite`), the timer and the loop that restore managers, hang-ups, a crash.
`poached` is a history variable: managers who were given a cooldown while
somebody used them.

### DirectSession (`session_manager.py`, `gemini_client.py`, `event_handler.py`)

One session in its worker. `pc` follows `create_session` and the request around
it; `inDict` is membership in `_sessions`; `loop`, `reader`, `monitor`, `tts`
and `recv` are the tasks; `spawned` is the queue of tasks that `create_task`
made to end the session and that have not started; `term` is the stage of
`terminate_session`, with one action per stage. The causes of an end are the
operator's stop, the `end_call` tool, the closing of the Gemini socket, a
failed synthesis, send or read, the end of the stream, the hang-up seen by the
leg monitor and the missing answer of the model. Errors that the code catches
(attach, set-up, monitor, finalisation, registration) are alternatives of the
action.

`failure`, `undone` and `before` are history variables for the properties. A
stage of the teardown that finds nothing to wait for is still a step: the model
has a few interleavings that the code has not, never fewer.

### DirectAudio (`session_manager.py`, `gemini_client.py`, `voice_strategy.py`)

The conversation of one session, from the connection to Gemini until a failure
or a hang-up (a hang-up may come anywhere and simply ends the behaviour; what
follows it is `DirectSession`). `loop` is where `_run_audio_loop` stands: the
heads of the three drain functions and of the timeout check (`instr`, `in`,
`out`, `check`) and its awaits (`inject`, `send`, `play`, `sleep`). It goes
through the heads without interruption; everybody else - synthesis tasks, the
callbacks of the Gemini client, the bridge reader, the operator, the transfer -
acts only while it awaits. `drained` is the counter of the drain function it is
in.

| Variable | Code |
|---|---|
| `voice`, `path`, `fell` | `voice_state`: definition, `active_path`, `fallback_activated`. `Init` takes every valid setting of the three voice strategies |
| `caps` | `session.capabilities`, asked once per drain and by the callbacks |
| `awaiting`, `overdue`, `active` | `awaiting_model_response`, whether the timeout has passed since `last_model_request_at`, `model_turn_active` |
| `steer`, `inq`, `outq`, `tts`, `buf` | the three queues, `tts_tasks`, the text in `IncrementalTTSBuffer` |
| `asked`, `reply`, `spoken` | Gemini: what it was sent, what it is answering, whether any of that answer was voiced |
| `epoch`, `heard`, `late` | history: interruptions, greetings that reached the bridge, chunks sent after the suspension |

Sound is abstract: an outbound chunk is whose voice it is and how many
interruptions came before its text; an inbound chunk is dropped or sent, because
the voice gates look at samples and at the clock. A fragment of text completes a
sentence or not. A synthesis task puts any number of chunks into the queue and
then ends or fails; the aligner never holds a byte back there, since the
optimizer emits whole frames. An answer of a client that asked for
transcriptions comes as text (its sound is thrown away), any other as sound,
perhaps with a text part. The response timeout is taken to be switched on
(`direct_model_response_timeout_seconds > 0`); sessions without outbound audio
(strategy `disabled`, no bridge) have no conversation of this kind and are left
out.

### CallLifecycle and CallStatus (`call_service.py`, `call_engine/`, `vapi/`, `rate_limit.py`)

A request is a record: where it is (`pc`), what it was asked (`kind`) and the
row as its own SQLAlchemy session has it (`st`, `route`), which others see only
after `commit`. `row` is what is committed, `lock` the row lock that the flush of
a changed status takes. A creation checks the limit, picks an engine by the
route policy, dials (falling back to the other engine if the first raised),
inserts and commits; `get`, `steer` and `stop` read, ask the engine for the live
status (`probe`), flush it if it differs, and act. A webhook is a request of
kind `hook`. `vapi` is the call at the provider, `sess` and `fin` the Direct
session and its finaliser. `Reconfigure` is a restart with other engines.
`Serial` selects whether the writers of one row, and creations, take turns: with
it the specification implements `CallStatus` (a call appears, is live, ends
once), without it only what remains true in a race is checked.

### MangoDial (`mango.py`, `mango_state_store.py`, `mango_freeswitch_correlation.py`, `freeswitch.py`)

One leg and the three parties that write about it: the dialling coroutine
(`dial`), the ESL reader (`esl`), the webhook handler (`hook`). An update of the
correlation hash is two actions, `OpRead` and `OpWrite`, with the patch in
between. The hash is a function over its six `Fields`, with "none" for a field
that is absent; a patch leaves alone what it has as "none", as the code's merge
of two dictionaries does. The dialler follows `connect` through both routes (SIP over FreeSWITCH,
the REST API), through the leg store, the hash and the probe of the channel
until an answer, an end, a timeout or an error, and then `terminate_leg`. The
phone itself (`line`) is the environment: it rings, answers, is bridged and hangs
up, and what it does is reported late, twice or by an auxiliary channel
(`child`). The reply to `originate` may bring the disposition ANSWER before
anybody answered, which `_esl_reply_implies_answered` takes for an answer:
`early`.

### MangoEvents (`mango_events.py`, `mango_webhooks.py`, `mango_inbound_call_service.py`)

An event is what it says (state, bridge, whisper), how its call is found (own
id, leg, phone number) and by which id it is deduplicated. A request marks the
event in Redis, correlates it, applies it to the row it has read, looks for the
agent of the number, launches a session for an unknown incoming leg and commits;
an exception rolls the row back and leaves the mark and the session. `serial`
is chosen at the start: in half of the behaviours the requests take turns. The
transfer record has the statuses that `apply_call_state` tells apart: "open",
"unanswered" (FAILED_NO_ANSWER or FAILED_ALL_UNAVAILABLE, which an event may still
overwrite; today `transfer_service` raises and rolls them back, and the model
lets them occur), settled or absent. An
event is routed to an agent by the number that was called, so only events of the
incoming leg are (`RoutedAssumption`).

### MediaGateway (`freeswitch.py`, `esl_client.py`, `freeswitch_bridge.py`)

A session from `open()` to `close()` of its bridge, mode `esl_rtp`. Every await
of `attach_session` and `detach_session` is an action; so are the reader of the
one ESL connection and its reconnection, the steps of applying one event
(promotion to the real uuid, hang-up), a datagram, a round of the watchdog, the
end of the address probe, a frame of the agent and an event taken by the bridge.
Commands and the connection may fail `MaxFaults` times. `reader = "spinning"` is
the loop without an await that an EOF of the ESL stream leads to; nothing else
of the process runs then.

### BrowserCall (`browser/`, `browser_calls.py`)

One call, its bridge with three bounded queues, the session's reader and up to
`Clients` websockets that hold its token. A handler waits for all of its three
tasks; `link` is what the server's socket knows of the browser, which lags
behind `browser`. `close()` puts an end mark if there is room. `AudioMax` and
`ControlMax` are the limits of the queues; a frame is known by whose it is, and
no browser is called `End`, the mark.

### Readiness (`telephony.py`, `preflight_service.py`, `config.py`, `main.py`, `mango.py`)

Not a protocol but four judgements over the same settings, each written from its
own code: what the cards ask for and advise, what preflight counts, what the
start refuses, and what the call path needs. `ReadinessInit` picks one of
`Deployments`, any set of pairs of `Settings` and `World`
(`DeploymentsAssumption`), and the only action is the operator following the
advice, with every value it allows. The trunk has two readings in the code:
`settings.mango_sip_trunk_configured` (cards, preflight, registry) takes the
realm from MANGO_SIP_SERVER or from the login (`TrunkConfigured`),
`_is_mango_sip_trunk_configured` (the dial) wants the server (`DialsOverSip`).
So `trunk` is "none", "realm" (from the login only) or "server".

### Administration (`provider_settings_service.py`, `mango_telephony_service.py`, `agent_settings_service.py`)

Requests read, may ask the remote service, and commit, without locks; each kind
has a beginning, the remote answer where there is one, and a commit that writes
the columns that differ from what was loaded. The process may be restarted with
another encryption secret. Mango lists the primary number under one of
`Resources`, under several, or answers with an empty or unusable list. `raced`
says of the status in the row that it was last written by a save or a check that
another one of the same provider overlapped; a check that finds the status
already as it would write it writes nothing and leaves `raced` as it was.

## 4. Runs

| Run | Instance | Shows |
|---|---|---|
| `lease` | 3 workers, 2 sessions, `LockTTL` 3, 1 error; starts from a crashed worker with two sessions, from a fresh system with one session to come, or from a worker in the middle of a release | `LeaseHeld`, `SparesRenewing`, `ReconcileEnds` |
| `transfer` | 2 requests, 1 call, 2 managers, one department, 1 attempt, pool of 3, 1 error or crash | `NoConcurrentTransfer`, `EndedNeverConnected`, `TransferEnds`, `HangupRecorded` |
| `direct` | 1 session, 1 TTS task, one utterance or one `end_call` | `FailureKept`, `SpokenIsSettled`, `ConnectionsGone`, `SessionEnds` |
| `voice` | inbound queue and batch 1, outbound queue and batch 2, 1 instruction, 1 sentence in synthesis, 1 interruption | `NoStaleSpeech`, `QuietAfterHandover`, `VoicedUnlessFellBack` |
| `gateway` | 1 session with 2 channels, 1 port, queue 2, buffer 1, 2 frames, 1 fault | `FramesInOrder`, `DetachedIsGone`, `HangupNoticed`, `CloseReleases` |
| `calls` | 2 calls, 2 requests whose writers take turns, limit 1 | `CapHolds`, `ImplementsCallStatus`, `EndNoticed` |
| `calls_races` | 1 call, 2 overlapping requests, every set of engines, 1 lost answer or commit | `StopHeard`, `OneLeg`, `SettledStays` |
| `mango_dial` | 1 leg, 1 webhook, 1 unread ESL event, 1 event of an auxiliary channel | `VerdictIsReal`, `ReleasedIsDown` |
| `mango_events` | 2 events delivered up to twice, 2 requests, 1 failure | `AppliedOnce`, `OneSession`, `OverStays` |
| `browser` | 2 browsers, queues of 1, 2 microphone frames | `OneVoice`, `TailHeard`, `EndReleasesTasks`, `FailedSendEnds` |
| `readiness` | the deployments of `MCReadiness`: around a working one, all combinations of the settings of one group, and a fresh installation | `CardIsTrue`, `PreflightPredictsCall`, `AdviceWorks` |
| `administration` | 2 overlapping requests, 4 in all, 2 encryption secrets, 2 configurations, 2 secret fields, 2 ids of the number, 1 agent, 1 document | `ConfiguredIsTested`, `LinesAsListed`, `LockedUntilReentered`, `AgentAsAsked` |

Twelve further configurations are counterexamples to keep beside the runs. On the
same specifications and MC modules each of them refutes one statement that the
repository's documents or comments make without the exception that a property
above names; they are not among the runs of `PROJECT.json`, and section 8 cites
them where it quotes the code and the document. `tlc -config MangoDialEarly.cfg
MCMangoDial` prints the trace, and likewise for the others.

| Configuration | Property | What TLC finds |
|---|---|---|
| `SessionLeasePartial.cfg` | `EachOrphanVisited` | a hash without `session_id` ends a reconciliation before the rest of its list |
| `WarmTransferFinal.cfg` | `TerminalStaysTerminal` | a transfer commits CONNECTED over the terminal status of a call whose hang-up failed |
| `WarmTransferGuard.cfg` | `LoserSeesTransfer` | the second request passes the guard of a call that is connected already |
| `WarmTransferHangup.cfg` | `HangupDetected` | the next manager is rung for a customer who is gone |
| `CallLifecycleFinal.cfg` | `NeverLiveAgain` | overlapping refreshes turn a terminal status into a live one |
| `CallLifecycleStub.cfg` | `NoSilentStub` | the stub takes a stop and the call is STOPPED with its leg up |
| `CallLifecycleCap.cfg` | `CapAlwaysHolds` | overlapping creations pass the limit together |
| `MangoDialEarly.cfg` | `AnswerIsConfirmed` | the reply to `originate` counts as an answer before the phone was picked up |
| `MangoEventsOverlap.cfg` | `OneSessionAlways` | two webhooks of one leg start two sessions |
| `BrowserCallDisconnect.cfg` | `DisconnectCloses` | a tab that goes away leaves the bridge open while the agent is silent |
| `ReadinessGreen.cfg` | `GreenCardDials` | a green outbound card for a deployment whose dial raises |
| `AdministrationOverlap.cfg` | `ConfiguredOnlyTested` | "configured" beside settings that no check has seen |

Every property of the first table has a mutant in `PROJECT.json`: a plausible
error in one action (a forgotten EXPIRE, a dropped guard, an end mark that is not
looked for) under which TLC finds that property violated. The type invariant of
every module is a theorem.

**Why the bounds are enough.** In `lease` three workers allow an owner, a
reconciler that judges it and a second start; two reconcilers need two sessions
to deadlock in opposite orders, the second initial state leaves one session to
follow through its whole life beside a worker that starts, and the third lets
two starts meet a release that is half done, which is how a hash without a
`session_id` comes about (all three are states `Spec` reaches). In `transfer`
two requests meet on one call, two managers, one of them in a department, give
them the same or different first choices, and the pool of three lets both hold a
connection and fight for the third; the one fault is an error, a crash or a
hang-up that failed. In `direct` one utterance can come before
the teardown, during the flush or after it, and one `end_call` before or after a
failure; the number of terminations is not bounded by a constant, only by what
the code creates. In `voice` a batch of two is the smallest in which a
suspension can come between two chunks, a queue of two the smallest that holds
chunks of two voices, and one interruption separates stale from fresh. In
`gateway` a buffer of one overflows with the second frame, two channels make a
promotion, and one fault is a lost connection or a failed command. In `calls`
two calls reach a limit of one, in `calls_races` two requests meet at every pair
of steps. In `mango_dial` the dialler, the reader and the webhook each have an
update of the hash in flight. In `mango_events` two copies of one event and two
events of one leg are the two ways in which requests collide. In `readiness` the
trunk has all of its three values beside every other setting of the dial. In `browser` a
queue of one is full with the first frame, so that `close()` finds no room. In
`administration` two requests overlap and two more follow, enough for a save, a
check, a changed secret and a save after it. All safety properties are also
proved without bounds (section 6).

`CHECK_DEADLOCK FALSE`: a finished request, a terminated session, a stopped
worker, a detached bridge and a deployment that needs no advice have nothing
left to do.

## 5. Fairness

Only of what the runtime itself guarantees: a coroutine that can go on is
scheduled, time passes, a wait with a timeout ends. In `SessionLease` also that
a worker of the deployment is started some day. In `WarmTransfer` the restore
loop of `main.py` runs, and a dial that nobody answers ends through its timeout.
In `DirectSession` the event loop runs the queued tasks, the stages of the
teardown and the loops of the tasks; synthesis ends because its HTTP client has
a timeout. In `MediaGateway` the closing task, the bridge's reader, the watchdog
and the clock go on, unless the ESL reader spins. In `CallLifecycle` requests go
on, PostgreSQL serves those who wait for a row lock in turn (strong fairness of
`Finalize`), and Vapi repeats the webhook that ends a call until it is taken
(strong fairness of `DeliverEnd`, which `EndNoticed` rests on). In `BrowserCall`
the tasks of the handler and of the session go on. `AdviceWorks` of `Readiness`
is about an operator who keeps following the advice; that is its premise, not a
claim about operators. No fairness is assumed of the customer, the operator's
stop, the model, the manager, of errors or of crashes.

## 6. Proofs

All theorems hold for every value of the constants that satisfies the named
assumptions (sets and numbers of any size, `LockTTL >= 2`). Each follows the
same argument: an inductive invariant `IInv`, a lemma per conjunct with a step
per action, and `Spec => []IInv` by PTL. `DialIInv` and `BrowserIInv` were also
checked with TLC on the instances of their runs before they were proved.

* `SessionLeaseProofs` — `IInv` = types and step, `HomeInv` (who created a
  session, what cannot exist before it is registered), `LockInv` (a lock has
  time left and belongs to the creator), `LeaseInv` (the time left is exactly
  what the silence of the heartbeat has not used up), `FreeInv` (what the active
  set or a reconciler names is past the only step that can take a lock) and
  `CleanInv` (how far a release has come). `LeaseHeld` is not inductive because
  it says nothing about the TTL; `CondemnedStaysFree` needs that the active set
  is written after the lock. Theorems: `TypeCorrect`, `LeaseIsHeld`,
  `VerdictNotStale`, `ReconcileSparesRenewing`, `ReleaseIsClean`.
* `WarmTransferProofs` — `IInv` = types, `HoldInv` (a request past the guard
  holds the row of its call), `UseInv` (a manager in use without a cooldown is
  unavailable and has no deadline, so no restore frees him), `EndInv` (a call that
  ended, or is about to be, has no customer's leg or is stranded) and `CommitInv` (a call has not
  ended while its bridge is confirmed, unless it is stranded). Theorems:
  `TypeCorrect`, `TransfersExclude`, `ReservationHolds`, and from the same
  invariant the action properties `TransferIsPrivate` and `EndedStaysEnded`. The
  last is about every call that is not stranded; `WarmTransferFinal.cfg` shows
  that it needs the exception.
* `DirectSessionProofs` — `IInv` = types (Boolean variables apart, which Zenon
  proves and the SMT solver does not), `CreateInv` (before the receive loop
  exists there is no task and no termination), `TermInv` (what is in `_sessions`
  is not being terminated), `FailInv` (a failure stays readable in the status
  until the final status is resolved), `ConnInv` (what each stage has closed)
  and `SpeechInv` (flush waits for all that was said before). Theorems:
  `TypeCorrect`, `FailureIsKept`, `SpeechIsSettled`, `NoConnectionLeft` and the
  action property `Once`.
* `DirectAudioProofs` — `IInv` = types, `CountInv` (what a drain function has
  taken at its head and at its await), `StaleInv` (queue, tasks and buffer are
  all of the present epoch: any of them alone is not inductive), `LateInv` (a
  chunk sent after the suspension is never the first of its batch), `VoiceInv`
  (an answer not yet voiced is in the buffer), `ShapeInv` (what the resolution
  of a strategy can return), `PlayedInv` (when the timeout is looked at with
  nothing played, the queue is empty) and `GreetInv` (the fallback's greeting
  exists only where Gemini's was not and will not be heard). Theorems:
  `TypeCorrect`, `NothingStale`, `GreetedOnce`, `QuietHandover` and the action
  property `AnswersVoiced`.

* `CallLifecycleProofs` — `IInv` = types, `ReqInv` (what the place of a request
  says about its copy of the row), `RowInv` (before its creation commits, a call
  has no row and no other request has to do with it; its route never changes
  afterwards), `LegInv` (a call has the leg it was made with, alone), `HookInv`,
  `StopInv` (whoever is about to write STOPPED has silenced the leg or counts as
  unheard), `TurnInv` (while writers take turns nobody who holds a status has
  missed the end of its call, but the stop that ended it itself) and `CapInv` (a
  creation under way keeps a place free). `StopHeard` alone is not inductive: a
  request that has not committed carries STOPPED in its own session; the proof
  also needed that a request still waiting for the live status cannot hold
  STOPPED. `SettledStays` is proved action by action, with `Serial` or without.
  Theorems: `TypeCorrect`, `StopIsHeard`, `OneLegOnly`, `CapIsKept`,
  `SettledForGood`, and `Refinement`: under `Serial` every step maps to a step of
  `CallStatus` or to a stutter, because by `TurnInv` a commit that writes the
  status column finds the call live or writes the STOPPED that is there.
* `MangoProofs`, first part (`MangoEvents`) — `IInv` = types, `EventInv` (what is on its way was sent),
  `OnceInv` (the mark in Redis keeps an event with one request: whoever carries
  it past the mark is alone, and it was not applied), `RowInv` (what a request
  holds at each stage; no call goes back to not existing), `TurnInv` (while
  requests take turns, what a request has read is what is there) and
  `SessionInv` (a session that was started has a row, will have one, or was
  forgotten by a rollback). Theorems: `TypeCorrect`, `EventsAppliedOnce`,
  `OneSessionPerLeg` and the action property `OverCallStays`.
* `MangoProofs`, second part (`MangoDial`) — `DialIInv` = types, `PlaceInv` (what
  each of the three writers holds at each place), `LineInv` (the phone is up only
  after it was picked up), `ReportInv`, `StoreInv`, `DialInv` and
  `ReleasedIsDown`. Its idea is the set `Believable`: the leg states that anybody
  has a reason to believe, an answer only once the customer has picked up
  (`PickedUp`) and an end only once the phone is down (`Down`). `ReportInv` says
  that what is on its way is believable, `StoreInv` that the leg store, the hash,
  and every patch and copy of the hash that an update under way will write are,
  `DialInv` that what the dialler concluded is. The set only grows
  (`BeliefGrows`), so a value that was read early, overwritten by a lost update or
  written back late is still believable: that is why the lost updates of
  `_merge_and_store` do not matter to the verdict. `PickedUp` includes `misled` and
  `early`, the two steps that take for an answer what is none; from the first of
  them on the theorem promises nothing (`MangoDialEarly.cfg`). `VerdictIsReal` alone says
  nothing of the copies and is far from inductive. Theorems: `DialTypeCorrect`,
  `DialVerdictIsReal`, `DialReleasedIsDown`, `DialInvariance`.
* `AudioBridgeProofs`, first part (`MediaGateway`) — `IInv` = `MediaInv` (a frame waits only while the far
  end is unknown, behind everything sent and before everything still to be
  spoken), `FlagInv`, `EslInv` (the connection and the event the reader is in the
  middle of), `TableInv` (a session is in the tables exactly at the places of
  `attach_session` and `detach_session` between its entry and its removal) and
  `QueueInv` (only a session in the tables has events waiting). Order needs
  `MediaInv`: a frame sent directly would overtake a buffer that is not empty.
  Theorems: `TypeCorrect`, `FramesStayInOrder`, `DetachedStaysGone`.
* `AudioBridgeProofs`, second part (`BrowserCall`) — `BrowserIInv` = types (the
  queues keep their limits), `CallInv` (before the call is created nobody can
  find anything), `ClientInv` (one handler at a time has the bridge, and the one
  that leaves has closed it for good), `VoiceInv` (all frames in the queue and
  all that were heard are of one browser, which is the one attached while the
  bridge is open) and `MarkInv` (nothing follows the end mark, and the reader of
  a session nobody stopped is done only when the queue is empty and the bridge
  closed). `OneVoice` is about the frames taken; the proof needs those still
  waiting too, and that a bridge is not opened a second time. Theorems:
  `BrowserTypeCorrect`, `OneBrowserHeard`, `NothingLeftUnheard`,
  `BrowserInvariance`.
* `ConfigurationProofs`, first part (`Administration`) — `IInv` = types (a request has the fields of its kind),
  `LoadedInv` (what a save or a check loaded against what is in the row, as long
  as nothing overlapped it), `TestedInv` (`ConfiguredIsTested` of the stored
  status, whether the process can read the secrets or not), `SyncInv` (a sync
  nobody overlapped has loaded the rows as they are; no row goes away) and
  `AgentInv`. Theorems: `TypeCorrect`, `ConfiguredTested`, `LinesListed` and the
  action properties `LockedSecretsStay` and `AgentsAsAsked`. The attempt to prove
  `ConfiguredTested` showed that the former definition of `raced` forgot an
  overlap when a later check wrote nothing; that takes five requests, one more
  than the run has.
* `ConfigurationProofs`, second part (`Readiness`) — here the types are the
  inductive invariant: a step of the operator gives a setting one of its values.
  The work is in comparing the judgements over all settings and surroundings,
  where the run has the combinations of one group at a time: `RuntimePicked` and
  `OutboundIsDialled` (the card's copy of the rules against `get_call_engine` and
  `originate_call`), `GreenIsClear` and `RedHasBlocker` (each card against its list
  of blockers), `PassedSettings` and `PassStarts` (preflight against the gates of
  `create_session`; both theorems name the deployments in which the trunk's realm
  comes from the login alone and the dial has nothing else to go by, for which
  `ReadinessGreen.cfg` refutes the card), `EveryNeedHasStep` and
  `NoneWantedAllReady` (the list of steps
  against the cards). Theorems: `ReadinessTypeCorrect`, `CardsAreTrue`,
  `PreflightPredicts`, `AdviceIsNeverOut`.

Seven of these theorems state properties that no run repeats, because the proof
covers every instance: `VerdictNotStale` (`CondemnedStaysFree`), `ReleaseIsClean`
(`CleanRelease`), `ReservationHolds` (`SharedOnlyIfPoached`), `TransferIsPrivate`
(`NothingLandsDuringTransfer`), `Once` (`TakenApartOnce`), `GreetedOnce`
(`GreetingOnce`) and `AdviceIsNeverOut` (`AdviceNeverRunsOut`).

## 7. Only model-checked

Liveness (`ReconcileEnds`, `TransferEnds`, `HangupRecorded`, `SessionEnds`,
`HangupNoticed`, `CloseReleases`, `EndNoticed`, `EndReleasesTasks`,
`FailedSendEnds`, `AdviceWorks`): the prover does not handle fairness and
ENABLED. Of `AdviceWorks` the safety half is proved, `AdviceIsNeverOut`: there is
always a next step; that the steps come to an end is left to TLC. Data defined by recursion is
out of the prover's reach; no module uses it.

## 8. Where the code and its documents part

Met while modelling. The models contain these behaviours; where one touches a
property, the property names the exception or the history variable that stands
for it. Those with a configuration that shows them (section 4) name it.

Ownership, transfer, Direct sessions and the conversation:

* A worker that restarts within the 30 s of the dead worker's lock skips its
  sessions, and nothing reconciles them later (`session_coordinator.py:330`;
  `docs/session_architecture.md:159`).
* `get_for_update` returns the object the request had loaded before
  (no `populate_existing`), so the guard of a second transfer reads the status
  from before the first and the customer is transferred twice, one after the
  other (`call_repo.py:17`; `WarmTransferGuard.cfg`).
* `terminate_session` logs a hang-up command that raised and finalises the call
  all the same: its status is terminal while the leg is up, and a transfer that
  had loaded the call before bridges the leg and commits CONNECTED over it
  (`session_manager.py:886`; `models/call.py:43`; `WarmTransferFinal.cfg`).
* `update_status` may leave a hash without a `session_id`, at which the next
  reconciliation raises and leaves the rest of its list
  (`session_store.py:405`; `session_coordinator.py:304`; `SessionLeasePartial.cfg`).
* A failed transfer writes STOPPED and the failure record and then raises, which
  rolls both back (`transfer_service.py:462`; `docs/mango_transfer_flow.md:29`).
* A session whose audio is suspended while it waits for Gemini is failed by the
  response timeout although Gemini answers: `on_audio` returns before it clears
  the wait. The teardown hangs up the customer whom the manager has taken over
  (`session_manager.py:584`, docstring at `:948`).
* A session that ends while it is still being registered stays in the active
  set, with a heartbeat (`session_manager.py:696`; `session_store.py:177`).
  `CleanRelease` is about fully created sessions for this reason.
* A request that fails to reserve a manager gives him a cooldown; when it ends
  he is offered to others though he is talking (`transfer_engine/mango.py:79`;
  `docs/mango_transfer_flow.md:53`). `SharedOnlyIfPoached` names this exception.
* Reconciliation also condemns sessions of workers that are alive and could not
  renew; the comment at `main.py:116` speaks of dead workers only.
* The shutdown hook releases no session; `docs/session_architecture.md:151`
  describes a graceful release. They are found like those of a crash.
* A reconciler that dies before its one commit has already marked the sessions
  as failed and removed them from the active set: their calls stay open
  (`docs/session_architecture.md:25`).
* When the answer timeout hits the dial itself, the manager's leg may ring on
  with nobody to end it (`transfer_engine/mango.py:109`;
  `docs/mango_transfer_flow.md:55`).
* A manager who answered is reserved without a deadline and nothing restores him
  (`manager_repo.py:94`; `models/manager.py:28`).
* While managers are dialled a hang-up is not noticed: `_call_is_terminal` reads
  the object of the request's own session, whose row it has locked, so that the
  session that ends waits to write (`transfer_service.py:517`; its docstring at
  `:14`; `WarmTransferHangup.cfg`).
* `get_call` may write a live status over a status that became terminal after
  its read, and turns CONNECTED_TO_MANAGER back to IN_PROGRESS
  (`call_service.py:200`; `models/call.py:43`; `CallLifecycleFinal.cfg`).
* When the Gemini socket cannot be opened, the session stays in `_sessions` with
  the customer's leg up; only the set-up timeout has a path that cleans up
  (`session_manager.py:685`). `SessionEnds` leaves this case out.
* The leg monitor writes IN_PROGRESS over FAILED (`session_manager.py:1137`), so
  an `end_call` queued before the failure finalises the call as COMPLETED.
  `FailureKept` names this exception.
* A session that is terminated before the request commits finalises a row that
  is not visible yet; the request then commits IN_PROGRESS and nothing ends the
  call (`event_handler.py:118`). In the model: `term = "done"` with `callDb =
  "in_progress"`.
* A sentence dispatched during the flush starts a TTS task after the TTS tasks
  were cancelled (`docs/real_audio_loop.md`, session cleanup); it ends by itself
  and its audio goes nowhere. Utterances that arrive after the
  flush began miss the summary (`session_manager.py:785`).
* The same hang-up is COMPLETED when the bridge reader sees it first and FAILED
  when the leg monitor does.
* After a suspension the rest of the batch is still played, up to a batch less
  one chunk (`QuietAfterHandover`; `docs/direct_mode.md:75` says that suspension
  "prevents continued AI playback").
* A session that falls back from Gemini's voice was set up without
  transcription, so later answers reach synthesis only if Gemini sends text
  parts beside its sound; otherwise they are dropped (`session_manager.py:653`;
  `docs/voice_strategy.md`). `VoicedUnlessFellBack` names this exception.
* Sentences in synthesis at the same time share the outbound queue and mix their
  chunks (`session_manager.py:506`).
* A first sentence below the minimum length is not merged with the next one, as
  the comment at `session_manager.py:214` says: every later search finds the
  same boundary, and all of the text waits for the end of the turn.
* `DIRECT_MAX_SESSIONS` is compared before the dial and the session is counted
  after it (`session_manager.py:376`, `docs/env_reference.md:153`).

Calls, routing and Vapi:

* A stop of a call that was handed to a manager never returns: the refresh writes
  IN_PROGRESS back, which locks the row, and the stop then waits for a
  `finalize_call` that needs it (`call_service.py:291`; `api/v1/calls.py:310`).
* Requests that overlap overwrite a terminal status (`models/call.py:43`);
  `ALLOWED_TRANSITIONS` is used nowhere (`README.md:234`). Hence `Serial` in
  `ImplementsCallStatus` and `Settled` in `SettledStays`.
* When the engine of a call is not configured any more the stub takes its stop
  and nobody is told (`router_engine.py:17`; `unheard`; `CallLifecycleStub.cfg`).
* Creations that overlap pass the limit of concurrent calls together: it counts
  committed rows (`rate_limit.py:298`; `env_reference.md:53`; `CallLifecycleCap.cfg`). Hence
  `Serial` in `CapHolds`.
* An end-of-call report after a status update "ended" is ignored
  (`event_processor.py:12`), and repeated events are not recognised
  (`event_processor.py:5`).
* A lost answer of Vapi lets the fallback call the customer a second time, and a
  creation that fails at its commit leaves a leg without a row (`lost`).
* Webhooks of a short call that arrive before its row is committed are dropped
  with status 200 (`call_service.py:122`; `missed`).
* The cooldown and the daily cap use the number as it was typed
  (`rate_limit.py:127`).

Mango and inbound calls:

* Two webhooks of one leg at once start two sessions, and from then on every
  event of the leg fails in `scalar_one_or_none`
  (`mango_inbound_call_service.py:46`; `docs/TELEPHONY_ARCHITECTURE.md:148`;
  `MangoEventsOverlap.cfg`). Hence `serial` in `OneSession`.
* An auxiliary channel that answers or hangs up before the leg's own uuid is
  known is taken for the leg (`misled`).
* `_esl_reply_implies_answered` accepts the disposition that the comment at
  `mango.py:753` calls premature, and `connect` then does not wait
  (`mango.py:105`; `early`; `MangoDialEarly.cfg`).
* `upsert_mapping` overwrites a real uuid with a provisional one, and the alias
  of a webhook stores Mango's leg id as the FreeSWITCH uuid.
* `connect` with an existing leg reports ANSWERED for one that still rings, and a
  connect that times out leaves its leg ringing.
* `terminate_leg` of the transfer engine swallows a failed command and records
  TERMINATED (`transfer_engine/mango.py:139`; `killLost`).
* A customer's call-back is correlated with the recent outbound call by phone
  number, the deduplication key may be a `uid` that several events share, and an
  event marked as seen whose application failed is not applied again.
* A RINGING or ANSWERED that arrives after TERMINATED starts a session on a leg
  that is gone.

Media gateway and browser calls:

* A bridge that is ended by the customer's hang-up is never detached: `close()`
  returns at once because `_is_open` is already lowered, and port, socket and
  tables stay (`freeswitch_bridge.py:107`; `audio_bridge.py:54`).
* At the end of the ESL stream the reader loops without an await and nothing of
  the process runs any more (`docs/freeswitch_control_integration.md:22`).
* A failed attach leaves its entries, port and watchdog behind; a full queue may
  throw the HANGUP out; the watchdog never fires where the far end is known and
  was not heard; detach hangs up the provisional uuid, not the promoted one.
* The hang-up of a tab while the agent is silent does not end the session: the
  handler waits for a sender that has nothing to send (`browser_calls.py:570`;
  `docs/browser_call_sandbox.md:175`; `BrowserCallDisconnect.cfg`). Through the edge
  proxy the handler of a
  stopped session waits as well. `FailedSendEnds` is what does hold.
* The registry keeps the bridges of calls that ended normally; the message
  `call_ended` is lost if the control queue is full; a failed connection to
  Gemini leaves the session and an open bridge.

Readiness and administration:

* With the trunk's realm in the login and no MANGO_SIP_SERVER the cards and
  preflight see a trunk that `originate_call` does not: without the API, or where
  the API knows another target for the only extension, it raises
  (`mango.py:92`, `config.py:277`; `telephony.py:548`; `ReadinessGreen.cfg`).
* The cards never ask for Gemini's key, take any unknown provider's name for a
  real one, and stay red without a blocker where only the API's credentials are
  missing beside a trunk. A missing trunk and a mismatch of the extension's
  target have no next step; preflight does not look at that target. `config.py`
  takes private addresses for public ones.
* A save and a validation of one provider that overlap leave "configured" for
  settings nobody tested (`raced`; `docs/providers_settings.md:139`;
  `AdministrationOverlap.cfg`); two saves may
  lose each other's secrets; after
  a change of the key the first secret entered drops the others.
* Two overlapping syncs leave two active rows of one number (`crossed`), and
  `get_active_by_phone_number` then raises. Two overlapping binds leave two
  bindings of one document.
* An outbound call uses an agent's line though the line is inactive.

What no property covers: a lost answer of Vapi, after which the fallback calls
the customer a second time (`OneLeg` holds up to it; no document promises more);
the tasks other than the connections that a teardown overtaking `create_session`
leaves behind; an older list of Mango's that is loaded after a newer one was
committed; concurrent creations that pass `DIRECT_MAX_SESSIONS` together; an
instruction published before its owner subscribed, which is reported as delivered
and lost (`session_coordinator.py:238`); sentences in synthesis that mix their
chunks; and a port that was found free and taken before it is bound
(`freeswitch.py:1276`, which then fails the attach).

## 9. Not modelled

Per part, with the reason, in `PROJECT.json`. In short: arithmetic on samples and
RTP framing, the contents of prompts, transcripts and summaries, voice clients
(their outcomes are inputs of the models), widgets and the editing of documents
(one row per request), authentication, middleware, logging, the bot, the panel,
scripts and migrations. Of modelled parts the following is left out: steering
between workers, the admission of several Direct sessions, rate windows and
daily counters, the mock and scaffold modes of the gateway, the strategy
`disabled` in `DirectAudio`, and the log of Vapi's events.
