------------------------------ MODULE MCMangoDial ------------------------------
(* Instance of MangoDial for TLC.                                          *)
EXTENDS MangoDial
=============================================================================
