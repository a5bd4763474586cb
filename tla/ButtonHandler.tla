--------------------------- MODULE ButtonHandler ---------------------------
(***************************************************************************)
(* The door bell's button task, ButtonInputHandler of                      *)
(* main/button_handler.h: a two-state SML machine fed by a FreeRTOS queue, *)
(* which the GPIO interrupt fills with presses and the SIP client's event  *)
(* handler with the ends of calls.  What the machine asks of the client is *)
(* in `request`.                                                           *)
(***************************************************************************)
EXTENDS Naturals, Sequences

CONSTANT QueueSize   \* 10 in the code

VARIABLES
    btn,      \* the state of m_sm: "idle" or "sRinging"
    queue,    \* m_queue
    request   \* the call of the client the last step made, or "none"

vars == <<btn, queue, request>>

Event == {"BUTTON_PRESS", "CALL_END"}
Request == {"none", "request_ring", "request_cancel"}

\* Every variable keeps its shape, the queue its length.
TypeOK ==
    /\ btn \in {"idle", "sRinging"}
    /\ queue \in Seq(Event) /\ Len(queue) <= QueueSize
    /\ request \in Request

Init == btn = "idle" /\ queue = <<>> /\ request = "none"

\* xQueueSend with no time to wait: an event that finds the queue full is lost.
Send(e) ==
    /\ queue' = IF Len(queue) < QueueSize THEN Append(queue, e) ELSE queue
    /\ request' = "none"
    /\ UNCHANGED btn

\* int_handler, the interrupt of a rising edge.
Press == Send("BUTTON_PRESS")

\* call_end, called by SipEventHandlerButton in the SIP task.
CallEnd == Send("CALL_END")

\* xQueueReceive returns an event.  A press while ringing and an end while idle
\* have no row; they still start the wait, and so the ring duration, anew.
Receive ==
    /\ queue # <<>>
    /\ queue' = Tail(queue)
    /\ \/ /\ Head(queue) = "BUTTON_PRESS" /\ btn = "idle"
          /\ btn' = "sRinging" /\ request' = "request_ring"
       \/ /\ Head(queue) = "CALL_END" /\ btn = "sRinging"
          /\ btn' = "idle" /\ request' = "none"
       \/ /\ <<Head(queue), btn>> \in
                 {<<"BUTTON_PRESS", "sRinging">>, <<"CALL_END", "idle">>}
          /\ request' = "none" /\ UNCHANGED btn

\* xQueueReceive gives up after the ring duration; in idle it waits for ever.
Timeout ==
    /\ queue = <<>> /\ btn = "sRinging"
    /\ btn' = "idle" /\ request' = "request_cancel"
    /\ UNCHANGED queue

Next == Press \/ CallEnd \/ Receive \/ Timeout

Spec == Init /\ [][Next]_vars
=============================================================================
