---------------------------- MODULE MCMangoEvents ----------------------------
(* Instance of MangoEvents for TLC.                                        *)
EXTENDS MangoEvents, TLC

CONSTANTS e1, e2, r1, r2

K(leg, state, bridge, whisper, found, routed, key) ==
    [via |-> "mango", leg |-> leg, state |-> state, bridge |-> bridge, whisper |-> whisper, found |-> found,
     routed |-> routed, key |-> key]

MCKinds ==
    {K("in", s, "none", "none", "leg", TRUE, "event_id") : s \in {"RINGING", "ANSWERED", "TERMINATED"}}
    \cup {K("in", "RINGING", "none", "none", "phone", TRUE, "uid"),
          K("out", "ANSWERED", "none", "none", "phone", FALSE, "event_id"),
          K("out", "RINGING", "none", "none", "call_id", FALSE, "uid"),
          K("out", "FAILED", "none", "none", "leg", FALSE, "event_id"),
          K("out", "TERMINATED", "none", "none", "call_id", FALSE, "event_id"),
          K("out", "none", "bridge_confirmed", "none", "call_id", FALSE, "event_id"),
          K("out", "none", "none", "whisper_failed", "call_id", FALSE, "event_id")}

Dialplan == [K("in", "none", "none", "none", "leg", TRUE, "event_id") EXCEPT !.via = "dialplan"]

AllKinds == MCKinds \cup {Dialplan}

Symmetry == Permutations({e1, e2}) \cup Permutations({r1, r2})
=============================================================================
