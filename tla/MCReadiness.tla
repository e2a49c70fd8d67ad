---------------------------- MODULE MCReadiness ----------------------------
(* The deployments TLC looks at: around one that works, every combination  *)
(* of the settings of one group at a time.                                 *)
EXTENDS Readiness

Good ==
    [env |-> "production", provider |-> "mango", api |-> TRUE, trunk |-> "server", hook |-> TRUE,
     ext |-> "listed", proxy |-> "none", backend |-> "vps", render |-> "none", https |-> TRUE,
     gwOn |-> TRUE, freeswitch |-> TRUE, mode |-> "esl_rtp", esl |-> "loop", password |-> TRUE,
     rtp |-> "vps", gemini |-> TRUE, strategy |-> "tts_primary", native |-> FALSE,
     eleven |-> TRUE, cartesia |-> FALSE, fallback |-> TRUE, greeting |-> TRUE, timeout |-> TRUE]

GoodWorld == [db |-> TRUE, redis |-> TRUE, eslUp |-> TRUE, exts |-> "one",
              target |-> "vps", request |-> "loop"]

Worlds == {[GoodWorld EXCEPT !.exts = e, !.target = t, !.request = r, !.eslUp = u] :
             e \in {"fail", "empty", "one"}, t \in {"vps", "far"},
             r \in {"loop", "vps"}, u \in BOOLEAN}

\* Who dials, with what, and in which environment.
Dialling == {[Good EXCEPT !.env = e, !.provider = p, !.api = a, !.trunk = t, !.ext = x,
                          !.gemini = g, !.backend = b, !.hook = h] :
               e \in {"development", "production", "testing"},
               p \in {"auto", "mango", "stub", "twilio"}, a \in BOOLEAN,
               t \in {"none", "realm", "server"},
               x \in {"none", "listed", "unlisted"}, g \in BOOLEAN,
               b \in {"loop", "vps"}, h \in BOOLEAN}

\* Where the audio goes.
Media == {[Good EXCEPT !.gwOn = o, !.freeswitch = f, !.mode = m, !.esl = h, !.rtp = r,
                       !.password = p, !.backend = b, !.proxy = x, !.render = y] :
            o \in BOOLEAN, f \in BOOLEAN, m \in {"disabled", "mock", "scaffold", "esl_rtp"},
            h \in Hosts, r \in {"none", "loop", "vps"}, p \in BOOLEAN,
            b \in {"loop", "mdns", "lan", "vps"}, x \in {"none", "vps"}, y \in {"none", "far"}}

\* Whose voice is heard, and the checks preflight only warns about.
Voice == {[Good EXCEPT !.strategy = v, !.native = n, !.eleven = e, !.cartesia = c,
                       !.fallback = f, !.env = y, !.https = h, !.greeting = g, !.timeout = t] :
            v \in {"disabled", "gemini_primary", "tts_primary", "experimental_hybrid"},
            n \in BOOLEAN, e \in BOOLEAN, c \in BOOLEAN, f \in BOOLEAN,
            y \in {"development", "production"}, h \in BOOLEAN, g \in BOOLEAN, t \in BOOLEAN}

\* A new installation, most of it still to be set.
Fresh == {[Good EXCEPT !.env = e, !.provider = p, !.hook = FALSE, !.ext = "none", !.backend = b,
                       !.gwOn = FALSE, !.freeswitch = f, !.mode = m, !.esl = h,
                       !.password = FALSE, !.rtp = r, !.api = a] :
            e \in {"development", "production"}, p \in {"auto", "stub"},
            b \in {"loop", "mdns", "lan"}, f \in BOOLEAN, m \in {"disabled", "esl_rtp"},
            h \in Hosts, r \in {"none", "loop", "lan"}, a \in BOOLEAN}

MCDeployments ==
    (Fresh \X Worlds) \cup (Dialling \X Worlds) \cup (Media \X {GoodWorld, [GoodWorld EXCEPT !.request = "vps"]})
        \cup (Voice \X {[GoodWorld EXCEPT !.db = d, !.redis = r, !.eslUp = u] :
                          d \in BOOLEAN, r \in BOOLEAN, u \in BOOLEAN})
=============================================================================
