---------------------------- MODULE MCDirectAudio ----------------------------
(* Instance of DirectAudio for TLC.                                        *)
EXTENDS DirectAudio
=============================================================================
