------------------------------ MODULE CallStatus ------------------------------
(***************************************************************************)
(* What a caller of the API may rely on about the status of a call: a call *)
(* appears once, is live for a while and ends in one terminal status that  *)
(* it keeps.  CallLifecycle implements this specification as long as the   *)
(* writers of one row take turns.                                          *)
(***************************************************************************)
CONSTANT Calls

VARIABLE status   \* call -> "none", "live" or the terminal status it ended in

Terminal == {"COMPLETED", "FAILED", "STOPPED"}

Init == status = [c \in Calls |-> "none"]

\* A new call becomes visible.  A provider that answers the creation with
\* "ended" makes it appear in its terminal status.
Appear(c) ==
    /\ status[c] = "none"
    /\ \E s \in {"live"} \cup Terminal : status' = [status EXCEPT ![c] = s]

End(c) ==
    /\ status[c] = "live"
    /\ \E s \in Terminal : status' = [status EXCEPT ![c] = s]

Next == \E c \in Calls : Appear(c) \/ End(c)

Spec == Init /\ [][Next]_status
=============================================================================
