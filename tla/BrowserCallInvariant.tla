------------------------ MODULE BrowserCallInvariant ------------------------
(***************************************************************************)
(* The inductive invariant of BrowserCall.                                 *)
(***************************************************************************)
EXTENDS BrowserCall

\* Before the call is created there is nothing for anybody to find.
CallInv ==
    call = "none" =>
      /\ session = "none" /\ micReader = "none" /\ ~bridgeOpen
      /\ inq = <<>> /\ voices = {}
      /\ \A c \in Clients : phase[c] = "away"

Present(c) == phase[c] \in {"attached", "talking"}

\* One handler at a time has the bridge; the one that leaves closes it for good.
ClientInv ==
    /\ \A c \in Clients :
         /\ Present(c) => connected
         /\ phase[c] = "closed" => ~bridgeOpen
         /\ task[c]["receiver"] = "on" => phase[c] \in {"talking", "closed"}
    /\ \A c, d \in Clients : Present(c) /\ Present(d) => c = d

\* The microphone of c was heard, or is about to be.
Voiced(c) == c \in voices \/ \E i \in 1..Len(inq) : inq[i] = c

\* There is one voice on the bridge, and while the bridge is open it is that of
\* the browser that is attached.
VoiceInv ==
    /\ \A c, d \in Clients : Voiced(c) /\ Voiced(d) => c = d
    /\ bridgeOpen => \A c \in Clients : Voiced(c) => phase[c] = "talking"

\* Nothing comes after the end mark, and the reader stops at an empty queue.
MarkInv ==
    /\ \A i \in 1..Len(inq) : inq[i] = End => i = Len(inq) /\ ~bridgeOpen
    /\ session = "up" /\ micReader = "done" => inq = <<>> /\ ~bridgeOpen

BrowserIInv == BrowserTypeOK /\ CallInv /\ ClientInv /\ VoiceInv /\ MarkInv
=============================================================================
