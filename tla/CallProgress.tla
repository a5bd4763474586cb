---------------------------- MODULE CallProgress ----------------------------
(***************************************************************************)
(* What a SipClient promises to the event handlers of main.cpp (button,    *)
(* actuator, web server): one call at a time, and events that tell its     *)
(* story in order.  A ring that was started is answered, or refused or     *)
(* cancelled, or dropped without a word by a restart of the client; a call *)
(* that was answered is hung up, or dropped in the same way.               *)
(***************************************************************************)
VARIABLES
    call,   \* "none", "ringing" or "talking"
    event   \* the SipClientEvent reported last, or "none"

vars == <<call, event>>

TypeOK ==
    /\ call \in {"none", "ringing", "talking"}
    /\ event \in {"none", "CALL_START", "CALL_CANCELLED", "CALL_END",
                  "BUTTON_PRESS"}

Init == call = "none" /\ event = "none"

\* The call goes from one of `from` to `to`, and e is reported.
Move(from, to, e) == call \in from /\ call' = to /\ event' = e

Ring     == Move({"none"}, "ringing", "none")
Answered == Move({"ringing"}, "talking", "CALL_START")
PickUp   == Move({"none"}, "talking", "CALL_START")
Refused  == Move({"ringing"}, "none", "CALL_CANCELLED")
HungUp   == Move({"talking"}, "none", "CALL_END")
Abandon  == Move({"ringing", "talking"}, "none", "none")

\* A key of the phone, or nothing to report.
Dtmf  == event' = "BUTTON_PRESS" /\ UNCHANGED call
Quiet == event' = "none" /\ UNCHANGED call

Next ==
    \/ Ring \/ Answered \/ PickUp \/ Refused \/ HungUp \/ Abandon
    \/ Dtmf \/ Quiet

Spec == Init /\ [][Next]_vars
=============================================================================
