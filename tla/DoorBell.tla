------------------------------ MODULE DoorBell ------------------------------
(***************************************************************************)
(* The door bell as main.cpp wires it: the button task (app_main, which    *)
(* ends in ButtonInputHandler::run) and the SIP task (sip_task, which runs *)
(* the io_context).  The button task posts request_ring and request_cancel *)
(* to the io_context; SipEventHandlerButton, called by the SIP task in the *)
(* middle of a handler, puts the end of a call into the button's queue.    *)
(* The two queues are all the tasks share, and neither task knows the      *)
(* other's state.                                                          *)
(*                                                                         *)
(* On this build nothing else posts requests to the client.                *)
(***************************************************************************)
EXTENDS SipClient

CONSTANTS
    QueueSize,   \* length of the button's queue: 10 in the code
    MaxPresses   \* bound on the presses of one behaviour

ASSUME DoorBellAssumption == QueueSize \in Nat \ {0} /\ MaxPresses \in Nat

VARIABLES
    btn, queue, request,   \* see ButtonHandler
    presses,               \* the presses so far, for the bound
    orphaned               \* history: a ring the button has given up on

bell == <<btn, queue, request>>
bellVars == <<vars, bell, presses, orphaned>>

Button == INSTANCE ButtonHandler

BellInit == Init /\ Button!Init /\ presses = 0 /\ orphaned = FALSE

\* The events SipEventHandlerButton::handle forwards.
Forwarded == {"CALL_CANCELLED", "CALL_END"}

PostedRingOnly(r) ==   \* mutant: e_timeout without action_cancel
    \/ r = "request_ring" /\ RequestRing
    \/ r # "request_ring" /\ UNCHANGED vars

\* What action_call and action_cancel post to the client.
Posted(r) ==
    \/ r = "request_ring" /\ RequestRing
    \/ r = "request_cancel" /\ RequestCancel
    \/ r = "none" /\ UNCHANGED vars

\* A ring is under way, or requested of the client.
RingAhead == sm = "calling" \/ Queued("ev_request_call")

\* A visitor presses the button.
PressBell ==
    /\ presses < MaxPresses
    /\ presses' = presses + 1
    /\ Button!Press
    /\ UNCHANGED <<vars, orphaned>>

\* A step of run(): what the machine asks for is posted before run() receives
\* the next event.  When the end of one call reaches a button that already
\* rings for the next visitor, it gives up on that ring.
ButtonReceives ==
    /\ Button!Receive
    /\ Posted(request')
    /\ \/ btn' = btn /\ UNCHANGED orphaned
       \/ btn' # btn /\ btn' = "sRinging" /\ orphaned' = FALSE
       \/ btn' # btn /\ btn' = "idle" /\ orphaned' = (orphaned \/ RingAhead)
    /\ UNCHANGED presses

ButtonTimesOut ==
    /\ Button!Timeout
    /\ Posted(request')
    /\ UNCHANGED <<presses, orphaned>>

\* A handler of the SIP task.  The end of a call is forwarded within it.
ClientStep ==
    /\ RunsHandler
    /\ IF event' \in Forwarded THEN Button!CallEnd ELSE UNCHANGED bell
    /\ orphaned' = (orphaned /\ RingAhead')
    /\ UNCHANGED presses

\* The rest of the client's environment.
Surroundings ==
    /\ \/ Start \/ StartHalf \/ Deinit \/ DatagramArrives
       \/ \E t \in Timers : TimerExpires(t)
    /\ UNCHANGED <<bell, presses, orphaned>>

BellNext ==
    \/ PressBell \/ ButtonReceives \/ ButtonTimesOut
    \/ ClientStep \/ Surroundings

BellSpec == BellInit /\ [][BellNext]_bellVars

\* Both tasks run, the SIP task only while it has a connection: after deinit() and
\* stop() it waits for the next one, and the handlers wait with it.  The steps of
\* the button that post are strongly fair because of MaxPending, as the timers are.
BellFairness ==
    /\ WF_bellVars(open /\ ClientStep)
    /\ SF_bellVars(ButtonReceives)
    /\ SF_bellVars(ButtonTimesOut)

BellFairSpec == BellSpec /\ BellFairness
-----------------------------------------------------------------------------
\* Every variable keeps its shape, the button's queue its length.
BellTypeOK ==
    /\ TypeOK
    /\ Button!TypeOK
    /\ presses \in 0..MaxPresses
    /\ orphaned \in BOOLEAN

\* While a phone rings, the button measures the time, or has asked for the end:
\* README.rst, "After the configured timeout is elapsed, the call is canceled".
RingIsTimed ==
    sm = "calling" => btn = "sRinging" \/ Queued("ev_cancel_call")

\* The one way for a phone to ring untimed: the end of the previous call was
\* behind the press in the button's queue.  Otherwise the requests reach the
\* client in the order the button made them, and no timeout, lost event or
\* dropped request separates a ring from the cancel that ends it.
RingIsTimedUnlessOrphaned == RingIsTimed \/ orphaned

\* A ring the button measures, no stale end in its queue, comes to an end:
\* answered, refused, cancelled or, when nobody does, timed out, unless the
\* connection is lost and the SIP task handles nothing more.  It takes the
\* timeout, the request it posts and the row for that request, while presses
\* start the wait anew and fill the queue, so that the end of a call may be lost.
RingEnds ==
    sm = "calling" /\ btn = "sRinging" /\ "CALL_END" \notin ToSet(queue)
        ~> sm # "calling" \/ ~open
=============================================================================
