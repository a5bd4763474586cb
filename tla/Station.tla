------------------------------ MODULE Station -------------------------------
(***************************************************************************)
(* The SIP socket in its surroundings: the tasks of Lifecycle open and     *)
(* close it, and the sip_task reads datagrams and runs their handlers,     *)
(* those left from an earlier connection too, while it is in run().        *)
(***************************************************************************)
EXTENDS Lifecycle, Sequences

CONSTANTS Messages, RxBufferSize, MaxArrivals   \* of UdpClient

ASSUME StationAssumption == RxBufferSize \in Nat \ {0} /\ MaxArrivals \in Nat

VARIABLES kernel, waiting, done, buffer, given, opens, arrivals

reception == <<kernel, waiting, done, buffer, given, opens, arrivals>>
stationVars == <<vars, reception>>

\* Each successful init() but the first comes after a disconnect.
Udp == INSTANCE UdpClient WITH open <- sip, MaxOpens <- MaxDisconnects + 1

StationInit == Init /\ Udp!Init

\* The socket's init() and deinit() are calls of the two tasks ...
SocketOpened == InitSip /\ sip' # sip /\ Udp!Open
SocketClosed == DeinitSip /\ sip' # sip /\ Udp!Close

\* ... the other calls do not touch its receive operations ...
Elsewhere ==
    /\ SipTask \/ EventHandler \/ StaStart \/ StaDisconnected \/ GotIp
    /\ sip' = sip
    /\ UNCHANGED reception

\* ... and within run() the SIP task does one thing after the other, until the
\* io_context is stopped.
Serve ==
    /\ pc = "run" /\ ~stopped
    /\ Udp!Running
    /\ UNCHANGED vars

\* A datagram reaches the station while it is connected.
DatagramArrives ==
    /\ link = "up"
    /\ \E datagram \in Udp!Datagrams : Udp!Arrive(datagram)
    /\ UNCHANGED vars

StationNext ==
    \/ SocketOpened \/ SocketClosed \/ Elsewhere \/ Serve \/ DatagramArrives

StationSpec == StationInit /\ [][StationNext]_stationVars

\* Both tasks run.  In run() the SIP task takes the queued handlers in turn, and
\* looks at the sockets again and again.
StationFairSpec ==
    /\ StationSpec
    /\ WF_stationVars(SocketOpened \/ (SipTask /\ Elsewhere))
    /\ WF_stationVars(SocketClosed \/ (EventHandler /\ Elsewhere))
    /\ WF_stationVars(Serve /\ Udp!Read)
    /\ WF_stationVars(Serve /\ (Udp!HandleData \/ Udp!HandleNothing))
-----------------------------------------------------------------------------
(* Properties *)

\* Each successful init() leaves one receive operation, none is lost, whatever
\* the two tasks and the network do.
ReceivesPerInit == Udp!ReceivesPerInit

\* Until the second init() each handler finds in the buffer what its operation
\* received, also after the connection was lost.
Intact == Udp!Intact

\* Until the second init() the socket implements Mailbox: each text is handed on
\* whole, in order, once, if the connection lasts.
IsMailbox == Udp!IsMailbox

\* run() returns when it has no work, and sip_task counts on it not to: as long
\* as it is in run(), a receive operation waits or its handler is queued.
RunHasWork == pc = "run" => waiting + Len(done) > 0

Handled == kernel = <<>> /\ \A i \in DOMAIN done : done[i].datagram = <<>>

\* After every disconnect and failed init, and whatever operations are left from
\* earlier connections, a datagram is read and its handler runs, unless the
\* connection is lost first.
DatagramsAreHandled == ~Handled ~> Handled \/ link # "up"
=============================================================================
