--------------------------- MODULE MCCallLifecycle ---------------------------
(* Instance of CallLifecycle for TLC.                                      *)
EXTENDS CallLifecycle

CONSTANTS c1, c2, r1, r2
=============================================================================
