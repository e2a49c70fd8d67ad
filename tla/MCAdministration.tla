-------------------------- MODULE MCAdministration --------------------------
(* A small instance of Administration. *)
EXTENDS Administration

\* Two overlapping requests, two keys, one number that Mango may list under two
\* ids, one agent and one document.
CONSTANTS r1, r2, keep, unset
=============================================================================
