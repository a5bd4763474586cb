----------------------------- MODULE Lifecycle ------------------------------
(***************************************************************************)
(* Coming up and going down: sip_task and event_handler of main.cpp, which *)
(* run in two tasks and share the SIP client's two sockets (SipClientInt   *)
(* and AsioUdpClient), the io_context and the CONNECTED_BIT of the WiFi    *)
(* event group.                                                            *)
(*                                                                         *)
(* Each action is one call the source makes, the calls of SipClientInt's   *)
(* init and deinit included: the tasks interleave between any two of them, *)
(* on the two cores or because the event loop has the higher priority.     *)
(* The station's driver delivers its events one after the other, to one    *)
(* handler.  What the client does inside run() is module SipClient.        *)
(***************************************************************************)
EXTENDS Naturals

CONSTANTS
    MaxDisconnects,   \* bound on the connections lost in one behaviour
    MaxFailures       \* bound on the lookups, opens and binds that fail

ASSUME LifecycleAssumption == MaxDisconnects \in Nat /\ MaxFailures \in Nat

VARIABLES
    pc,           \* where sip_task is
    ev,           \* where event_handler is
    link,         \* the WiFi station
    bit,          \* CONNECTED_BIT
    stopped,      \* the io_context is stopped
    sip, rtp,     \* m_socket and m_rtp_socket are open
    resultRtp,    \* init: the result of m_rtp_socket.init()
    result,       \* what the last init() returned
    started,      \* ev_start was posted by the last init()
    handlerSet,   \* set_event_handler was called
    disconnects, failures

task == <<pc, resultRtp, result, started, handlerSet, failures>>
handler == <<ev, link, bit, disconnects>>
vars == <<task, handler, stopped, sip, rtp>>

\* Every variable keeps its shape; the calls of event_handler lead nowhere else.
TypeOK ==
    /\ pc \in {"wait", "check", "init_rtp", "init_sip", "delay",
               "set_handler", "run", "restart"}
    /\ ev \in {"idle", "deinit_sip", "deinit_rtp", "stop", "web_stop",
               "connect", "clear_bit", "web_start", "set_bit"}
    /\ link \in {"off", "associating", "up", "down"}
    /\ {bit, stopped, sip, rtp, resultRtp, result, started, handlerSet}
           \subseteq BOOLEAN
    /\ disconnects \in 0..MaxDisconnects
    /\ failures \in 0..MaxFailures

Init ==
    /\ pc = "wait" /\ ev = "idle" /\ link = "off"
    /\ bit = FALSE /\ stopped = FALSE
    /\ sip = FALSE /\ rtp = FALSE
    /\ resultRtp = FALSE /\ result = FALSE
    /\ started = FALSE /\ handlerSet = FALSE
    /\ disconnects = 0 /\ failures = 0
-----------------------------------------------------------------------------
(* sip_task *)

Goto(from, to) == pc = from /\ pc' = to

\* xEventGroupWaitBits; the bit stays set.
WaitForWifi ==
    /\ bit
    /\ Goto("wait", "check")
    /\ UNCHANGED <<resultRtp, result, started, handlerSet, failures,
                   handler, stopped, sip, rtp>>

\* client.is_initialized() looks at the SIP socket only.
CheckInitialized ==
    /\ Goto("check", IF sip THEN "run" ELSE "init_rtp")
    /\ UNCHANGED <<resultRtp, result, started, handlerSet, failures,
                   handler, stopped, sip, rtp>>

\* AsioUdpClient::init of a socket that was open or not, with its result: an
\* open socket is reported as a failure; lookup, open or bind may fail, and
\* leave the socket closed.
SocketInit(open, openAfter, success) ==
    \/ open /\ openAfter /\ ~success /\ UNCHANGED failures
    \/ ~open /\ openAfter /\ success /\ UNCHANGED failures
    \/ /\ ~open /\ ~openAfter /\ ~success
       /\ failures < MaxFailures /\ failures' = failures + 1

InitRtp ==
    /\ Goto("init_rtp", "init_sip")
    /\ \E open, success \in BOOLEAN :
           /\ SocketInit(rtp, open, success)
           /\ rtp' = open /\ resultRtp' = success
    /\ UNCHANGED <<result, started, handlerSet, handler, stopped, sip>>

StartsWithEither(rtpOk, sipOk) == rtpOk \/ sipOk   \* mutant

\* init posts ev_start when both sockets were opened.
Starts(rtpOk, sipOk) == rtpOk /\ sipOk

InitSip ==
    /\ \E open, success \in BOOLEAN :
           /\ SocketInit(sip, open, success)
           /\ sip' = open
           /\ result' = (resultRtp /\ success)
           /\ started' = Starts(resultRtp, success)
    /\ Goto("init_sip", IF result' THEN "set_handler" ELSE "delay")
    /\ UNCHANGED <<resultRtp, handlerSet, handler, stopped, rtp>>

\* vTaskDelay, and from the top.
Delay ==
    /\ Goto("delay", "wait")
    /\ UNCHANGED <<resultRtp, result, started, handlerSet, failures,
                   handler, stopped, sip, rtp>>

SetEventHandler ==
    /\ Goto("set_handler", "run")
    /\ handlerSet' = TRUE
    /\ UNCHANGED <<resultRtp, result, started, failures, handler, stopped,
                   sip, rtp>>

\* run() always has work, a receive or its completion: it returns when the
\* io_context is stopped, or was before.
RunReturns ==
    /\ stopped
    /\ Goto("run", "restart")
    /\ UNCHANGED <<resultRtp, result, started, handlerSet, failures,
                   handler, stopped, sip, rtp>>

StaysStopped == stopped   \* mutant: run() again without restart()

Restarted == FALSE

Restart ==
    /\ Goto("restart", "wait")
    /\ stopped' = Restarted
    /\ UNCHANGED <<resultRtp, result, started, handlerSet, failures,
                   handler, sip, rtp>>

SipTask ==
    \/ WaitForWifi \/ CheckInitialized \/ InitRtp \/ InitSip \/ Delay
    \/ SetEventHandler \/ RunReturns \/ Restart
-----------------------------------------------------------------------------
(* event_handler *)

StoppedBeforeDeinit ==   \* mutant: the io_context is stopped first
    [disconnected |-> "stop", stop |-> "deinit_sip",
     deinit_sip |-> "deinit_rtp", deinit_rtp |-> "web_stop",
     web_stop |-> "connect", connect |-> "clear_bit", clear_bit |-> "idle",
     got_ip |-> "web_start", web_start |-> "set_bit", set_bit |-> "idle"]

BitNotCleared ==   \* mutant: CONNECTED_BIT survives the connection
    [disconnected |-> "deinit_sip", deinit_sip |-> "deinit_rtp",
     deinit_rtp |-> "stop", stop |-> "web_stop", web_stop |-> "connect",
     connect |-> "idle", clear_bit |-> "idle",
     got_ip |-> "web_start", web_start |-> "set_bit", set_bit |-> "idle"]

NoReconnect ==   \* mutant: the server's stop() is the last call
    [disconnected |-> "deinit_sip", deinit_sip |-> "deinit_rtp",
     deinit_rtp |-> "stop", stop |-> "web_stop", web_stop |-> "clear_bit",
     connect |-> "clear_bit", clear_bit |-> "idle",
     got_ip |-> "web_start", web_start |-> "set_bit", set_bit |-> "idle"]

\* The order of the calls in event_handler.
Following ==
    [disconnected |-> "deinit_sip", deinit_sip |-> "deinit_rtp",
     deinit_rtp |-> "stop", stop |-> "web_stop", web_stop |-> "connect",
     connect |-> "clear_bit", clear_bit |-> "idle",
     got_ip |-> "web_start", web_start |-> "set_bit", set_bit |-> "idle"]

Step(call) == ev = call /\ ev' = Following[call]

\* WIFI_EVENT_STA_START
StaStart ==
    /\ ev = "idle" /\ link = "off"
    /\ link' = "associating"
    /\ UNCHANGED <<task, ev, bit, disconnects, stopped, sip, rtp>>

\* WIFI_EVENT_STA_DISCONNECTED: a connection is lost, or not made.
StaDisconnected ==
    /\ ev = "idle" /\ link \in {"associating", "up"}
    /\ disconnects < MaxDisconnects
    /\ disconnects' = disconnects + 1
    /\ link' = "down"
    /\ ev' = Following["disconnected"]
    /\ UNCHANGED <<task, bit, stopped, sip, rtp>>

DeinitSip ==
    /\ Step("deinit_sip") /\ sip' = FALSE
    /\ UNCHANGED <<task, link, bit, disconnects, stopped, rtp>>

DeinitRtp ==
    /\ Step("deinit_rtp") /\ rtp' = FALSE
    /\ UNCHANGED <<task, link, bit, disconnects, stopped, sip>>

Stop ==
    /\ Step("stop") /\ stopped' = TRUE
    /\ UNCHANGED <<task, link, bit, disconnects, sip, rtp>>

\* web_server->stop() and start(): they take their time, and change nothing here.
\* WebStation says for whom they wait.
WebServer ==
    /\ Step("web_stop") \/ Step("web_start")
    /\ UNCHANGED <<task, link, bit, disconnects, stopped, sip, rtp>>

Connect ==
    /\ Step("connect") /\ link' = "associating"
    /\ UNCHANGED <<task, bit, disconnects, stopped, sip, rtp>>

ClearBit ==
    /\ Step("clear_bit") /\ bit' = FALSE
    /\ UNCHANGED <<task, link, disconnects, stopped, sip, rtp>>

\* IP_EVENT_STA_GOT_IP
GotIp ==
    /\ ev = "idle" /\ link = "associating"
    /\ link' = "up"
    /\ ev' = Following["got_ip"]
    /\ UNCHANGED <<task, bit, disconnects, stopped, sip, rtp>>

SetBit ==
    /\ Step("set_bit") /\ bit' = TRUE
    /\ UNCHANGED <<task, link, disconnects, stopped, sip, rtp>>

EventHandler ==
    \/ DeinitSip \/ DeinitRtp \/ Stop \/ WebServer \/ Connect \/ ClearBit
    \/ SetBit

Next == SipTask \/ EventHandler \/ StaStart \/ StaDisconnected \/ GotIp

Spec == Init /\ [][Next]_vars
-----------------------------------------------------------------------------
(* Properties *)

\* With the event handler at rest, run() never serves a closed SIP socket: the
\* sockets are closed before the io_context is stopped, so that the sip_task
\* that restart()s it cannot have looked at the socket before.
RunningMeansOpen ==
    pc = "run" /\ ~stopped /\ ev \in {"idle", "web_start", "set_bit"} => sip

\* Whatever failed, was retried or overtaken, the client is not started before
\* its events have a handler.
HandlerSetBeforeStart == pc = "run" /\ started => handlerSet

\* CONNECTED_BIT, with the event handler at rest, means that there is an IP.
ConnectedBitMeansIp == bit /\ ev = "idle" => link = "up"

\* When the station stays connected, sip_task ends in run() with the SIP socket
\* open, after every disconnect and failed init, and whatever they overtook.
Settles ==
    link = "up" ~> link # "up" \/ (pc = "run" /\ ~stopped /\ sip)

\* An init() that failed is tried again before the client runs: the log of
\* sip_task says "Waiting to try again...".
InitTriedAgain == pc = "run" => result
=============================================================================
