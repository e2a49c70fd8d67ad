---------------------------- MODULE MCWarmTransfer ----------------------------
(* Instance of WarmTransfer for TLC: two requests for one call.            *)
EXTENDS WarmTransfer

CONSTANTS f1, f2, c1
=============================================================================
