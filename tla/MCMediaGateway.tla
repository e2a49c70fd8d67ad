---------------------------- MODULE MCMediaGateway ----------------------------
(* Instance of MediaGateway for TLC.                                       *)
EXTENDS MediaGateway, TLC

CONSTANTS s1, u1

\* The leg has a second channel beside the one it was originated with.
OneOrigin == u1 :> s1
=============================================================================
