------------------------------ MODULE Readiness ------------------------------
(***************************************************************************)
(* Whether a deployment can place a real Direct call is judged in four     *)
(* places that share no code: the start of the process (main.py), the      *)
(* preflight service, the readiness card of the telephony page with its    *)
(* advice, and the call path itself (deps.py, session_manager.py and       *)
(* mango.py).  The module states each judgement as an operator over the    *)
(* settings and the surroundings, and one action: the operator of the      *)
(* panel does what the card advises.                                       *)
(*                                                                         *)
(* A setting is abstracted to what the judges tell apart: a credential is  *)
(* there or not, a host is one of a handful of kinds.  "lan" stands for a  *)
(* private address, "mdns" for a .local name, "vps" and "vpsIp" for two    *)
(* names of the machine that runs the backend, "far" for another machine.  *)
(***************************************************************************)
EXTENDS Naturals

CONSTANTS Deployments   \* the pairs of settings and surroundings to look at

Hosts == {"none", "loop", "mdns", "lan", "vps", "vpsIp", "far"}

Settings ==
    [env : {"development", "production", "testing"},
     provider : {"auto", "mango", "stub", "twilio"},
     api : BOOLEAN, hook : BOOLEAN,
     \* the trunk's login and password are set, and where its realm is from:
     \* MANGO_SIP_SERVER, or only the domain of the login
     trunk : {"none", "realm", "server"},
     ext : {"none", "listed", "unlisted"},
     proxy : Hosts, backend : Hosts \ {"none"}, render : Hosts, https : BOOLEAN,
     gwOn : BOOLEAN, freeswitch : BOOLEAN,
     mode : {"disabled", "mock", "scaffold", "esl_rtp"},
     esl : Hosts, password : BOOLEAN, rtp : Hosts,
     gemini : BOOLEAN,
     strategy : {"disabled", "gemini_primary", "tts_primary", "experimental_hybrid"},
     native : BOOLEAN, eleven : BOOLEAN, cartesia : BOOLEAN, fallback : BOOLEAN,
     greeting : BOOLEAN, timeout : BOOLEAN]

World ==
    [db : BOOLEAN, redis : BOOLEAN, eslUp : BOOLEAN,
     exts : {"fail", "empty", "one"},   \* Mango's answer when asked for its extensions
     target : Hosts,                    \* the SIP host the extension rings
     request : Hosts]                   \* the host the panel reached the backend by

ASSUME DeploymentsAssumption == Deployments \subseteq Settings \X World

VARIABLES settings,   \* the settings the process runs with
          world       \* what it finds around it

readinessVars == <<settings, world>>

-----------------------------------------------------------------------------
(* Hosts *)

IsLoopback(h) == h = "loop"

\* config._is_public_http_url: only loopback and .local are ruled out.
IsPublicHttp(h) == h \notin {"none", "loop", "mdns"}

\* telephony._is_public_backend_url and _is_real_network_host: private
\* ranges are ruled out as well.
IsRealHost(h) == IsPublicHttp(h) /\ h # "lan"

\* The name service: what _resolve_host_ips gets for a name.
HostIps(h) == IF h \in {"vps", "vpsIp"} THEN {"ip1"}
              ELSE IF h \in {"none", "mdns"} THEN {} ELSE {h}

EffectiveBackend(c) ==
    CASE IsPublicHttp(c.proxy)   -> c.proxy
      [] ~IsPublicHttp(c.proxy) /\ IsPublicHttp(c.backend) -> c.backend
      [] ~IsPublicHttp(c.proxy) /\ ~IsPublicHttp(c.backend) /\ IsPublicHttp(c.render) -> c.render
      [] OTHER -> IF c.backend # "none" THEN c.backend ELSE c.render

Colocated(c) ==
    LET b == EffectiveBackend(c) IN
    /\ b # "none" /\ c.esl # "none"
    /\ \/ b = c.esl
       \/ IsLoopback(b) \/ IsLoopback(c.esl)
       \/ HostIps(b) \cap HostIps(c.esl) # {}

LocalMediaSupported(c) == c.mode = "esl_rtp" => Colocated(c)

\* Mutant: a loopback address is never taken for a real one.
RealMediaHostAlone(c, h) == IsRealHost(h)

\* _has_real_freeswitch_host and _has_real_freeswitch_rtp_ip.
RealMediaHost(c, h) == (Colocated(c) /\ IsLoopback(h)) \/ IsRealHost(h)

\* Two readings of one setting: settings.mango_sip_trunk_configured takes the
\* realm from the login, _is_mango_sip_trunk_configured asks for the server.
TrunkConfigured(c) == c.trunk # "none"
DialsOverSip(c) == c.trunk = "server"

MangoRuntime(c) == c.api \/ TrunkConfigured(c)

-----------------------------------------------------------------------------
(* Mango's extensions *)

\* MangoClient.list_extensions: the extensions of the primary number; the
\* client refuses to ask without the API's credentials.
ListExtensions(c, x) == IF c.api THEN x.exts ELSE "fail"

\* resolve_mango_from_ext without metadata: an explicit extension wins,
\* otherwise the first one Mango lists.
ResolveFromExt(c, x, explicit) ==
    IF explicit # "none" THEN explicit
    ELSE IF ListExtensions(c, x) = "one" THEN "listed" ELSE "none"

-----------------------------------------------------------------------------
(* The call path *)

\* build_default_registry and TelephonyProviderRegistry.resolve.
Registered(c) == {"stub"} \cup (IF MangoRuntime(c) THEN {"mango"} ELSE {})

Resolve(c, preferred) ==
    IF preferred = "auto"
    THEN IF "mango" \in Registered(c) THEN "mango"
         ELSE IF c.env = "production" THEN "error" ELSE "stub"
    ELSE IF preferred \in Registered(c) THEN preferred ELSE "error"

\* Mutant: TELEPHONY_PROVIDER=stub is taken at its word.
DirectAdapterAsAsked(c) == IF ~c.gemini THEN "none" ELSE Resolve(c, c.provider)

\* get_call_engine: the adapter of the Direct engine; "error" leaves the
\* call to the stub engine (unknown provider) or fails the request.
DirectAdapter(c) ==
    IF ~c.gemini THEN "none"
    ELSE IF c.provider = "stub" /\ MangoRuntime(c) /\ c.env # "testing"
         THEN Resolve(c, "mango")
         ELSE Resolve(c, c.provider)

\* inspect_voice_strategy: the statuses of its checks.
VoiceChecks(c) ==
    LET tts == c.eleven /\ c.fallback IN
    CASE c.strategy = "disabled" -> {"pass", "warn"}
      [] c.strategy = "gemini_primary" ->
            {"pass", IF c.native THEN "pass" ELSE IF tts THEN "warn" ELSE "fail",
                     IF tts THEN "pass" ELSE "warn"}
      [] c.strategy = "tts_primary" ->
            {"pass", IF c.eleven \/ c.cartesia THEN "pass" ELSE "fail",
                     IF c.native THEN "warn" ELSE "pass"}
      [] c.strategy = "experimental_hybrid" ->
            {"pass", IF c.native /\ c.eleven THEN "warn" ELSE "fail"}

\* lifespan: a production process with an invalid strategy does not start.
Starts(c) ==
    ~(c.env = "production" /\ c.strategy # "disabled" /\ "fail" \in VoiceChecks(c))

\* create_session: ensure_voice_strategy_valid and the refusal of "disabled".
StrategyAccepted(c) == "fail" \notin VoiceChecks(c) /\ c.strategy # "disabled"

\* Mango's API knows the extension of the call, and that it rings elsewhere.
RingsElsewhere(c, x) == x.exts = "one" /\ x.target # EffectiveBackend(c)

\* originate_call: an extension to dial from; the SIP trunk through
\* FreeSWITCH if its server is set, otherwise Mango's API, which must not know
\* the extension to ring somewhere else.
Originates(c, x) ==
    LET from == ResolveFromExt(c, x, c.ext) IN
    /\ from # "none"
    /\ \/ DialsOverSip(c) /\ x.eslUp
       \/ ~DialsOverSip(c) /\ c.api /\ ~(from = "listed" /\ RingsElsewhere(c, x))

\* attach_audio_bridge.
BridgeAttaches(c, x) ==
    /\ c.gwOn /\ c.freeswitch /\ c.mode \in {"mock", "esl_rtp"}
    /\ LocalMediaSupported(c)
    /\ c.mode = "esl_rtp" => x.eslUp

\* A Direct call placed now passes every gate up to its conversation.
CallStarts(c, x) ==
    /\ DirectAdapter(c) = "mango"
    /\ StrategyAccepted(c)
    /\ Originates(c, x)
    /\ BridgeAttaches(c, x)

-----------------------------------------------------------------------------
(* DirectVoicePreflightService *)

\* Mutant: warnings do not count.
WorstOfFailures(statuses) == IF "fail" \in statuses THEN "fail" ELSE "pass"

Worst(statuses) == IF "fail" \in statuses THEN "fail"
                   ELSE IF "warn" \in statuses THEN "warn" ELSE "pass"

\* A check fails, or only warns, when its condition does not hold.  A check
\* that is not made counts as passed.
Need(p) == IF p THEN "pass" ELSE "fail"
Wish(p) == IF p THEN "pass" ELSE "warn"

\* _check_database, _check_redis, _check_environment.
SurroundingChecks(c, x) ==
    {Need(x.db), Wish(x.redis), Wish(c.env = "production"), Wish(c.https)}

\* _check_direct_config.
DirectConfigChecks(c, x) == VoiceChecks(c) \cup
    {Need(c.provider # "stub"), Need(c.gemini), Need(MangoRuntime(c)),
     IF c.ext # "none" THEN "pass"
       ELSE IF ResolveFromExt(c, x, "none") # "none" THEN "warn" ELSE "fail",
     Need(c.gwOn /\ c.freeswitch), Need(c.mode = "esl_rtp"), Need(LocalMediaSupported(c)),
     Wish(c.greeting), Wish(c.timeout)}

\* _resolve_telephony_adapter, _check_telephony_capabilities: an adapter is
\* found that is not the stub and can carry audio both ways.
AdapterChecks(c) ==
    LET adapter == Resolve(c, c.provider) IN
    {Need(adapter \notin {"stub", "error"}),
     Need(adapter = "mango" => /\ c.gwOn /\ c.freeswitch /\ c.mode \in {"mock", "esl_rtp"}
                               /\ LocalMediaSupported(c))}

\* _check_media_gateway.
GatewayChecks(c, x) == {Need(c.gwOn /\ c.freeswitch => x.eslUp /\ c.mode = "esl_rtp")}

Preflight(c, x) ==
    Worst(SurroundingChecks(c, x) \cup DirectConfigChecks(c, x)
            \cup AdapterChecks(c) \cup GatewayChecks(c, x))

-----------------------------------------------------------------------------
(* The readiness card *)

\* mango_readiness: the URL it judges is the one the panel used, when public.
CardBackend(c, x) == IF IsRealHost(x.request) THEN x.request ELSE EffectiveBackend(c)

\* _resolve_direct_runtime_provider: does it name a real provider?
RuntimeReal(c) ==
    CASE c.provider = "stub"  -> MangoRuntime(c) /\ c.gemini /\ c.env # "testing"
      [] c.provider \in {"mango", "auto"} -> MangoRuntime(c)
      [] OTHER -> TRUE

FromExtFound(c, x) == c.ext # "none" \/ (c.api /\ ResolveFromExt(c, x, "none") # "none")

\* The extension whose target the card compares with this machine: the one of
\* the settings, or the only one there is.
TargetMismatch(c, x) == ListExtensions(c, x) = "one" /\ x.target # CardBackend(c, x)

\* mango_readiness: the entries of missing_requirements.
Missing(r, c, x) ==
    LET gateway == c.gwOn /\ c.freeswitch /\ c.mode \in {"mock", "esl_rtp"} IN
    CASE r = "mango_api_credentials_missing" -> ~c.api /\ ~TrunkConfigured(c)
      [] r = "mango_sip_trunk_missing"       -> ~TrunkConfigured(c)
      [] r = "mango_webhook_secret_missing"  -> ~c.hook
      [] r = "backend_url_not_public"        -> ~IsRealHost(CardBackend(c, x))
      [] r = "mango_primary_extension_target_mismatch" -> TargetMismatch(c, x)
      [] r = "mango_from_ext_missing"        -> ~FromExtFound(c, x)
      [] r = "telephony_runtime_not_real"    -> ~RuntimeReal(c)
      [] r = "media_gateway_disabled"        -> ~c.gwOn
      [] r = "media_gateway_provider_not_freeswitch" -> ~c.freeswitch
      [] r = "media_gateway_mode_not_supported" -> c.mode \notin {"mock", "esl_rtp"}
      [] r = "media_gateway_topology_not_supported" ->
             c.gwOn /\ c.freeswitch /\ c.mode = "esl_rtp" /\ ~LocalMediaSupported(c)
      [] r = "freeswitch_esl_host_missing"   -> gateway /\ ~RealMediaHost(c, c.esl)
      [] r = "freeswitch_esl_password_missing" -> gateway /\ ~c.password
      [] r = "freeswitch_rtp_ip_missing"     -> gateway /\ ~RealMediaHost(c, c.rtp)

InboundWebhookReady(c, x) == c.api /\ c.hook /\ IsRealHost(CardBackend(c, x))

OutboundReady(c, x) == TrunkConfigured(c) /\ RuntimeReal(c) /\ FromExtFound(c, x)

InboundAiReady(c, x) ==
    /\ InboundWebhookReady(c, x)
    /\ c.gemini /\ c.gwOn /\ c.freeswitch /\ c.mode \in {"mock", "esl_rtp"}
    /\ LocalMediaSupported(c)
    /\ RealMediaHost(c, c.esl) /\ c.password /\ RealMediaHost(c, c.rtp)

\* _build_route_readiness: the three cards, and the requirements whose absence
\* a card that is not green lists as its blockers.
Routes == {"inbound_webhook", "outbound_originate", "inbound_ai_runtime"}

RouteReady(route, c, x) ==
    CASE route = "inbound_webhook"    -> InboundWebhookReady(c, x)
      [] route = "outbound_originate" -> OutboundReady(c, x)
      [] route = "inbound_ai_runtime" -> InboundAiReady(c, x)

WebhookNeeds == {"mango_api_credentials_missing", "mango_webhook_secret_missing",
                 "backend_url_not_public"}

RouteNeeds(route) ==
    CASE route = "inbound_webhook"    -> WebhookNeeds
      [] route = "outbound_originate" ->
            {"mango_api_credentials_missing", "mango_sip_trunk_missing",
             "mango_from_ext_missing", "telephony_runtime_not_real"}
      [] route = "inbound_ai_runtime" -> WebhookNeeds \cup
            {"media_gateway_disabled", "media_gateway_provider_not_freeswitch",
             "media_gateway_mode_not_supported", "media_gateway_topology_not_supported",
             "freeswitch_esl_host_missing", "freeswitch_esl_password_missing",
             "freeswitch_rtp_ip_missing"}

\* _requirements_to_blockers.
Blockers(route, c, x) == {r \in RouteNeeds(route) : Missing(r, c, x)}

AllReady(c, x) == \A route \in Routes : RouteReady(route, c, x)

\* _build_actionable_next_step: the requirements it has a step for, in its
\* order; the step goes by the name of the requirement it meets.
Priorities ==
    <<"mango_api_credentials_missing", "backend_url_not_public",
      "mango_webhook_secret_missing", "mango_from_ext_missing",
      "telephony_runtime_not_real", "media_gateway_disabled",
      "media_gateway_provider_not_freeswitch", "media_gateway_mode_not_supported",
      "media_gateway_topology_not_supported", "freeswitch_esl_host_missing",
      "freeswitch_esl_password_missing", "freeswitch_rtp_ip_missing">>

NextStep(c, x) ==
    LET wanted == {i \in 1..12 : Missing(Priorities[i], c, x)} IN
    IF wanted # {} THEN Priorities[CHOOSE i \in wanted : \A j \in wanted : i <= j]
    ELSE IF AllReady(c, x) THEN "run_live_smoke" ELSE "review_blocked_cards"

-----------------------------------------------------------------------------
(* The operator does what the card says and restarts the process. *)

Advised(step) ==
    \/ step = "mango_api_credentials_missing" /\ settings' = [settings EXCEPT !.api = TRUE]
    \/ step = "backend_url_not_public" /\ settings' = [settings EXCEPT !.backend = "vps"]
    \/ step = "mango_webhook_secret_missing" /\ settings' = [settings EXCEPT !.hook = TRUE]
    \/ /\ step = "mango_from_ext_missing"
       /\ \E e \in {"listed", "unlisted"} : settings' = [settings EXCEPT !.ext = e]
    \/ step = "telephony_runtime_not_real" /\ settings' = [settings EXCEPT !.provider = "mango"]
    \/ step = "media_gateway_disabled" /\ settings' = [settings EXCEPT !.gwOn = TRUE]
    \/ /\ step = "media_gateway_provider_not_freeswitch"
       /\ settings' = [settings EXCEPT !.freeswitch = TRUE]
    \/ /\ step = "media_gateway_mode_not_supported"
       /\ \E m \in {"mock", "esl_rtp"} : settings' = [settings EXCEPT !.mode = m]
    \* the backend moves to FreeSWITCH's machine and reaches it by loopback
    \/ /\ step = "media_gateway_topology_not_supported"
       /\ settings' = [settings EXCEPT !.esl = "loop"]
    \/ /\ step = "freeswitch_esl_host_missing"
       /\ \E h \in {"vps", "vpsIp", "far"} : settings' = [settings EXCEPT !.esl = h]
    \/ step = "freeswitch_esl_password_missing" /\ settings' = [settings EXCEPT !.password = TRUE]
    \/ /\ step = "freeswitch_rtp_ip_missing"
       /\ \E h \in {"vps", "far"} : settings' = [settings EXCEPT !.rtp = h]

ReadinessInit == \E d \in Deployments : settings = d[1] /\ world = d[2] /\ Starts(settings)

FollowAdvice ==
    /\ \E step \in {NextStep(settings, world)} : Advised(step)
    /\ Starts(settings')
    /\ UNCHANGED world

ReadinessNext == FollowAdvice

ReadinessSpec ==
    ReadinessInit /\ [][ReadinessNext]_readinessVars /\ WF_readinessVars(ReadinessNext)

-----------------------------------------------------------------------------
(* Properties *)

ReadinessTypeOK == settings \in Settings /\ world \in World

\* The cards tell the truth.  A green outbound card means that a call would be
\* dialled: the adapter the call path picks is Mango's, and originate_call finds
\* its extension and its route.  A green card lists no blocker, and one that is
\* not green lists at least one for the operator to clear.  Where the code's
\* cards do go wrong is excepted: they never ask for Gemini's key (without it
\* there is no Direct engine, and a card is red with nothing to clear), take an
\* unknown provider's name for a real provider, ask for the API's credentials
\* only where there is no trunk either, and take the login's domain for a trunk,
\* where the dial goes by the API or not at all (GreenCardDials).
CardIsTrue ==
    settings.gemini =>
        /\ OutboundReady(settings, world) /\ settings.provider # "twilio" /\ world.eslUp
               => /\ DirectAdapter(settings) = "mango"
                  /\ \/ Originates(settings, world)
                     \/ /\ settings.trunk = "realm"
                        /\ ~settings.api \/ RingsElsewhere(settings, world)
        /\ \A route \in Routes :
             RouteReady(route, settings, world) => Blockers(route, settings, world) = {}
        /\ (settings.api \/ ~TrunkConfigured(settings)) =>
             \A route \in Routes :
               ~RouteReady(route, settings, world) => Blockers(route, settings, world) # {}

\* A green outbound card of a deployment that has what else the card does not ask
\* for dials.  It does not: the card takes the domain of MANGO_SIP_LOGIN for the
\* trunk's server, the dial wants MANGO_SIP_SERVER (the card's own warning names
\* all three of MANGO_SIP_LOGIN, MANGO_SIP_PASSWORD and MANGO_SIP_SERVER).
GreenCardDials ==
    settings.gemini /\ settings.provider # "twilio" /\ world.eslUp =>
        (OutboundReady(settings, world) => Originates(settings, world))

\* A preflight that passes is followed by a call that starts.  The gates that
\* preflight does not look at are those of a deployment whose trunk has no server
\* set: its calls go by the API, which preflight does not ask for where there is
\* a realm, to an extension whose target preflight does not look at.
PreflightPredictsCall ==
    Preflight(settings, world) = "pass" =>
        \/ CallStarts(settings, world)
        \/ settings.trunk = "realm" /\ ~settings.api
        \/ settings.trunk # "server" /\ RingsElsewhere(settings, world)

\* The advice never runs out: _build_actionable_next_step does not fall back on
\* "review_blocked_cards", which tells the operator nothing, because whatever a red
\* card lists, the list of steps, written apart from the cards, has a step for.  The
\* requirements it has none for are there from the start, as in AdviceWorks.
AdviceNeverRunsOut ==
    settings.gemini /\ TrunkConfigured(settings) /\ settings.api
        => NextStep(settings, world) # "review_blocked_cards"

\* An operator who keeps doing what the card advises gets to the live smoke
\* check: no piece of advice undoes an earlier one for good, whichever of the
\* values it allows is chosen.  The card has no step for a missing trunk, API
\* key (next to a trunk) or Gemini key, and none for a proxy on a private
\* address; those are there from the start.
AdviceWorks ==
    (/\ settings.gemini /\ TrunkConfigured(settings) /\ settings.api
     /\ settings.proxy # "lan")
        ~> NextStep(settings, world) = "run_live_smoke"
=============================================================================
