--------------------------- MODULE MCDirectSession ---------------------------
(* Instance of DirectSession for TLC.                                      *)
EXTENDS DirectSession
=============================================================================
