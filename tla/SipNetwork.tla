----------------------------- MODULE SipNetwork -----------------------------
(***************************************************************************)
(* The SIP client between its user, a SIP server and the network.  The     *)
(* client is module SipClient, whole; what it sends goes to the server in  *)
(* order, what the server sends waits in order at the client's socket, and *)
(* the network may lose, repeat or swap a few datagrams.                   *)
(*                                                                         *)
(* The server is what the client is written for: it challenges requests    *)
(* without credentials, connects one call the client places (out) and one  *)
(* call to the client (inc), and repeats what is not acknowledged.  It     *)
(* tells one call from the next by its number, as CancelMatchesInvite and  *)
(* AckMatchesInvite let it.  Provisional replies, which change nothing in  *)
(* the client, and final replies the client's table has no row for are     *)
(* left out.                                                               *)
(*                                                                         *)
(* The client is initialised once, with both sockets: Deinit, the restart  *)
(* and the receive operations they add are Lifecycle's and UdpClient's.    *)
(* This server sends no packet that is a reply and a request in one.       *)
(***************************************************************************)
EXTENDS SipClient

CONSTANTS
    MaxFaults,   \* bound on datagrams lost, repeated or overtaken, and on
                 \* timeouts that come before the reply
    MaxTotal     \* bound on faults, calls placed and calls to the client together

ASSUME NetworkAssumption ==
    /\ {MaxFaults, MaxTotal} \subseteq Nat
    /\ Nonces # {}

VARIABLES
    up,       \* datagrams on their way to the server
    down,     \* datagrams on their way to the client, or in its socket
    out,      \* the call the client places, at the server
    inc,      \* the call to the client, at the server
    rings,    \* history: the calls the client has placed
    callers,  \* history: the calls to the client
    untaken,  \* history: the client has answered a call and not taken it
    faults    \* history: what the network has done

network == <<up, down, out, inc, rings, callers, untaken, faults>>
networkVars == <<vars, network>>

\* A reply names what it replies to and the call; a request names the side.
ReplyTo(kind, method, call) == [kind |-> kind, of |-> method, call |-> call]
RequestOf(kind, side) ==
    [kind |-> kind, of |-> side, call |-> IF side = "out" THEN out.call ELSE 0]

\* The final replies to an INVITE, which are repeated until they are acknowledged.
Finals == {"200", "486", "487", "603"}
Refusals == {"486", "603"}

NetworkInit ==
    /\ Init
    /\ up = <<>> /\ down = <<>>
    /\ out = [state |-> "none", call |-> 0] /\ inc = "none"
    /\ rings = 0 /\ callers = 0 /\ untaken = FALSE /\ faults = 0

Budget == rings + callers + faults < MaxTotal
FaultsLeft == Budget /\ faults < MaxFaults
-----------------------------------------------------------------------------
(* The client *)

\* What the parser makes of a datagram.
Parsed(d) ==
    [kind |-> d.kind, rest |-> "none", contact |-> "", tag |-> "",
     nonce |-> IF d.kind = "401" THEN CHOOSE n \in Nonces : TRUE ELSE ""]

\* A sent message, as the server tells it from others: whether it has
\* credentials, the call it belongs to, and the datagram that it answers.
Sent(message, d) ==
    [method |-> message.method,
     authorized |-> /\ message.method \in {"REGISTER", "INVITE"}
                    /\ message.auth.response # NoResponse,
     call |-> IF message.method \in {"INVITE", "CANCEL", "ACK"} THEN rings' ELSE 0,
     answers |-> IF message.method = "200 OK" THEN {d} ELSE {}]

\* send_buffered_data hands each datagram to the network before the handler ends.
Transmit(d) == up' = up \o [i \in DOMAIN tx' |-> Sent(tx'[i], d)]

RingPlaced == rings' = rings + (IF sm # "calling" /\ sm' = "calling" THEN 1 ELSE 0)

\* A handler that is not rx.
ClientHandles ==
    /\ Handle
    /\ RingPlaced
    /\ Transmit({})
    /\ UNCHANGED <<down, out, inc, callers, untaken, faults>>

ClientReceives ==
    /\ down # <<>>
    /\ Rx(Parsed(Head(down)))
    /\ down' = Tail(down)
    /\ UNCHANGED rings
    /\ Transmit(Head(down))
    /\ untaken' = (untaken \/ (Head(down).kind = "INVITE" /\ sm # "registered"))
    /\ UNCHANGED <<out, inc, callers, faults>>

\* The one receive operation of the one init() is armed again by rx.
DatagramWaits ==
    /\ down # <<>> /\ ~Queued("rx")
    /\ DatagramArrives
    /\ UNCHANGED network

\* While the reply is on its way, a timeout is one of the faults.
TimerRuns(t) ==
    /\ TimerExpires(t)
    /\ IF t = "command" /\ (up # <<>> \/ down # <<>>)
       THEN FaultsLeft /\ faults' = faults + 1
       ELSE UNCHANGED faults
    /\ UNCHANGED <<up, down, out, inc, rings, callers, untaken>>

\* The keys c and d of the native driver, or the button.
User ==
    /\ \/ Budget /\ ~Queued("ev_request_call") /\ RequestRing
       \/ ~Queued("ev_cancel_call") /\ RequestCancel
    /\ UNCHANGED network

Client ==
    \/ (sm = "idle" /\ Start /\ UNCHANGED network)
    \/ ClientHandles \/ ClientReceives \/ DatagramWaits \/ User
    \/ \E t \in Timers : TimerRuns(t)
-----------------------------------------------------------------------------
(* The server, and the telephones behind it *)

Serve(method) == up # <<>> /\ Head(up).method = method /\ up' = Tail(up)
Send(packets) == down' = down \o packets
ServerOnly == UNCHANGED <<vars, rings, callers, untaken, faults>>

ServeRegister ==
    /\ Serve("REGISTER")
    /\ Send(<<ReplyTo(IF Head(up).authorized THEN "200" ELSE "401", "REGISTER", 0)>>)
    /\ UNCHANGED <<out, inc>> /\ ServerOnly

\* A new call takes the place of one the server has not finished with.
ServeInvite ==
    /\ Serve("INVITE")
    /\ \/ /\ ~Head(up).authorized
          /\ Send(<<ReplyTo("401", "INVITE", Head(up).call)>>)
          /\ UNCHANGED out
       \/ out' = [state |-> "ringing", call |-> Head(up).call] /\ UNCHANGED down
    /\ UNCHANGED inc /\ ServerOnly

IsOut(states) == Head(up).call = out.call /\ out.state \in states

ServeCancel ==
    /\ Serve("CANCEL")
    /\ \/ /\ IsOut({"ringing"})
          /\ out' = [out EXCEPT !.state = "487"]
          /\ Send(<<ReplyTo("200", "CANCEL", out.call), ReplyTo("487", "INVITE", out.call)>>)
       \/ /\ ~IsOut({"ringing"})
          /\ Send(<<ReplyTo("200", "CANCEL", Head(up).call)>>)
          /\ UNCHANGED out
    /\ UNCHANGED inc /\ ServerOnly

ServeAck ==
    /\ Serve("ACK")
    /\ out' = IF IsOut(Finals)
              THEN [out EXCEPT !.state = IF @ = "200" THEN "talking" ELSE "none"]
              ELSE out
    /\ UNCHANGED <<down, inc>> /\ ServerOnly

\* The client has accepted a call, which its caller acknowledges, or the end of one.
ServeOk ==
    /\ Serve("200 OK")
    /\ \E d \in Head(up).answers :
           /\ inc' = CASE d.kind = "INVITE" /\ inc = "offered" -> "answered"
                       [] d = RequestOf("BYE", "inc") -> "none"
                       [] OTHER -> inc
           /\ out' = IF d = RequestOf("BYE", "out") /\ out.state = "hanging up"
                     THEN [out EXCEPT !.state = "none"]
                     ELSE out
           /\ Send(IF d.kind = "INVITE" THEN <<RequestOf("other request", "inc")>> ELSE <<>>)
    /\ ServerOnly

Answer ==
    /\ out.state = "ringing"
    /\ out' = [out EXCEPT !.state = "200"]
    /\ Send(<<ReplyTo("200", "INVITE", out.call)>>)
    /\ UNCHANGED <<up, inc>> /\ ServerOnly

Refuse ==
    /\ out.state = "ringing"
    /\ \E final \in Refusals :
           /\ out' = [out EXCEPT !.state = final]
           /\ Send(<<ReplyTo(final, "INVITE", out.call)>>)
    /\ UNCHANGED <<up, inc>> /\ ServerOnly

HangUp ==
    /\ \/ /\ out.state = "talking"
          /\ out' = [out EXCEPT !.state = "hanging up"]
          /\ Send(<<RequestOf("BYE", "out")>>)
          /\ UNCHANGED inc
       \/ /\ inc = "answered"
          /\ inc' = "hanging up"
          /\ Send(<<RequestOf("BYE", "inc")>>)
          /\ UNCHANGED out
    /\ UNCHANGED up /\ ServerOnly

CallIn ==
    /\ inc = "none" /\ Budget
    /\ inc' = "offered" /\ callers' = callers + 1
    /\ Send(<<RequestOf("INVITE", "inc")>>)
    /\ UNCHANGED <<vars, up, out, rings, untaken, faults>>

Quiet == up = <<>> /\ down = <<>>

\* What is not answered is repeated, once nothing is on its way any more; that it
\* is repeated too early is a fault.
Repeat ==
    /\ Quiet
    /\ \/ out.state \in Finals /\ Send(<<ReplyTo(out.state, "INVITE", out.call)>>)
       \/ out.state = "hanging up" /\ Send(<<RequestOf("BYE", "out")>>)
       \/ inc = "offered" /\ Send(<<RequestOf("INVITE", "inc")>>)
       \/ inc = "hanging up" /\ Send(<<RequestOf("BYE", "inc")>>)
    /\ UNCHANGED <<up, out, inc>> /\ ServerOnly

Serves == ServeRegister \/ ServeInvite \/ ServeCancel \/ ServeAck \/ ServeOk
Server == Serves \/ Answer \/ Refuse \/ HangUp \/ CallIn \/ Repeat
-----------------------------------------------------------------------------
(* The network *)

\* A datagram the client is about to read is at its socket, and safe.
Underway == (IF Queued("rx") THEN 2 ELSE 1)..Len(down)

Lose ==
    \/ \E i \in Underway : down' = RemoveAt(down, i) /\ UNCHANGED up
    \/ \E i \in DOMAIN up : up' = RemoveAt(up, i) /\ UNCHANGED down

Duplicate == \E i \in Underway : down' = Append(down, down[i]) /\ UNCHANGED up

Overtake ==
    \E i \in Underway \ {1} :
        /\ i - 1 \in Underway
        /\ down' = [down EXCEPT ![i - 1] = down[i], ![i] = down[i - 1]]
        /\ UNCHANGED up

Fault ==
    /\ FaultsLeft /\ faults' = faults + 1
    /\ Lose \/ Duplicate \/ Overtake
    /\ UNCHANGED <<vars, out, inc, rings, callers, untaken>>

NetworkNext == Client \/ Server \/ Fault

NetworkSpec == NetworkInit /\ [][NetworkNext]_networkVars

\* The io_context runs its handlers and reads its socket, the command timer expires,
\* and the server answers and repeats; a person need not do anything, nor the network.
\* Strong fairness is for what MaxPending disables now and then.
NetworkFairness ==
    /\ WF_networkVars(ClientHandles \/ ClientReceives)
    /\ SF_networkVars(DatagramWaits)
    /\ SF_networkVars(TimerRuns("command"))
    /\ WF_networkVars(Serves)
    /\ WF_networkVars(Repeat)

NetworkFairSpec == NetworkSpec /\ NetworkFairness
-----------------------------------------------------------------------------
(* Properties *)

Smooth == faults = 0

\* "ack to ok after invite": unless the network or a timeout interferes, a call is
\* taken for established by the answer to the INVITE that placed it, and never by
\* the 200 of a REGISTER, of a CANCEL or of an earlier call, though rx looks at
\* the code of a reply only.
AckToOkAfterInvite ==
    [][sm = "calling" /\ sm' = "call_established" /\ Smooth =>
           Head(down) = ReplyTo("200", "INVITE", rings)]_networkVars

\* A registered client with nothing on its way has left nobody on the line: the
\* server has no call of it any more, unless a call was answered and not taken.
NobodyLeftOnTheLine ==
    sm = "registered" /\ Quiet /\ Smooth /\ ~untaken =>
        out.state = "none" /\ inc = "none"

\* Who was answered by the client is in a call with it, if it was registered and
\* without a call when the call came in.
CallerIsHeard ==
    inc = "answered" /\ Quiet /\ Smooth => sm = "call_established" \/ untaken

\* "immediately pick up all other calls": who was answered is in a call.
AllCallersAreHeard ==
    inc = "answered" /\ Quiet /\ Smooth => sm = "call_established"

\* A call whose CANCEL came before its answer ends, also if a few datagrams are lost.
CancelledCallEnds ==
    (out = [state |-> "487", call |-> rings] /\ sm = "cancelling") ~> (sm # "cancelling")

\* The client registers, also if a few datagrams are lost, unless another packet
\* has taken its timeout away.
Registers ==
    (sm = "waiting_for_auth_reply") ~> (sm = "registered" \/ "command" \in lost)
=============================================================================
