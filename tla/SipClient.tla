----------------------------- MODULE SipClient -----------------------------
(***************************************************************************)
(* The SIP client of components/sip_client: SipClientInt                   *)
(* (sip_client_internal.h) driven by the SML transition table of           *)
(* sip_states.h.  It registers at a SIP server, rings a local number,      *)
(* cancels the ring and answers incoming calls.                            *)
(*                                                                         *)
(* Everything the client does, it does in a handler run by one thread from *)
(* the asio::io_context.  `ready` is that context's queue of completion    *)
(* handlers: what other tasks post (init, request_ring, request_cancel),   *)
(* the expired timers, and the received datagram.  A timer whose handler   *)
(* is already queued can no longer be cancelled, which is asio's rule.     *)
(*                                                                         *)
(* The server and the network are open here: the datagram a handler finds  *)
(* is any packet at all.  Module SipNetwork closes the system.             *)
(*                                                                         *)
(* Two states of the SML table are both spelled idle in the source: the    *)
(* initial one is state<class idle>, the target of the 500 row is "idle"_s,*)
(* which is a different type and so a different state, with no row of its  *)
(* own.  They are "idle" and "idle_s" here.                                *)
(***************************************************************************)
EXTENDS Integers, Sequences, SequencesExt

CONSTANTS
    Rand,        \* the values std::rand() % 2147483647 can take
    SeqModulus,  \* 2^32 in the code: m_sip_sequence_number is a uint32_t
    Numbers,     \* local numbers a ring is requested for
    Nonces,      \* nonces of the challenges
    Contacts,    \* contact URIs of received packets
    Tags,        \* To tags of received packets
    MaxPending   \* bound on the queue of completion handlers

ASSUME ConstantsAssumption ==
    /\ SeqModulus \in Nat \ {0}
    /\ MaxPending \in Nat \ {0}
    /\ Rand # {}
    /\ "" \notin Contacts \union Tags \union Nonces
    /\ {"server", "**613", ""} \intersect (Numbers \union Contacts) = {}

VARIABLES
    sm,      \* the state of the SML machine m_sm
    hdr,     \* what identifies a request: m_sip_sequence_number, m_tag, ...
    auth,    \* m_response and m_nonce
    peer,    \* m_to_contact and m_to_tag
    timer,   \* which of the three steady_timers have a wait pending
    ready,   \* completion handlers queued in the io_context
    open,    \* the SIP socket is open, and the SIP task serves it
    tx,      \* the datagrams sent by the last handler
    event,   \* the SipClientEvent the last handler reported, or "none"
    invite,  \* history: the last INVITE sent
    lost     \* history: the timers the client has lost sight of

vars == <<sm, hdr, auth, peer, timer, ready, open, tx, event, invite, lost>>

States == {"idle", "waiting_for_auth_reply", "registered", "calling",
           "call_established", "cancelling", "idle_s", "X"}

\* m_timer, m_command_timeout_timer and m_reregister_timer.
Timers == {"restart", "command", "reregister"}

\* What rx has still to do for the method of a packet whose status it has handled.
Rests == {"rx_BYE", "rx_INVITE", "rx_INVITE_from_self", "rx_INFO_dtmf"}

Handlers == {"ev_start", "ev_reply_timeout", "ev_reregister",
             "ev_request_call", "ev_cancel_call", "rx"} \union Rests

\* The event the handler of an expired timer processes.
Expiry == [restart |-> "ev_start", command |-> "ev_reply_timeout",
           reregister |-> "ev_reregister"]

Events == {"none", "CALL_START", "CALL_CANCELLED", "CALL_END", "BUTTON_PRESS"}

Uri == {"server", "**613"} \union Numbers
Responses == [method : {"none", "REGISTER", "INVITE"},
              uri : Uri \union {""}, nonce : Nonces \union {""}]
NoResponse == [method |-> "none", uri |-> "", nonce |-> ""]

Header == [seq : 0..SeqModulus - 1, tag : Rand, branch : Rand,
           callId : Rand, uri : Uri]
Auth == [response : Responses, nonce : Nonces \union {""}]
Peer == [contact : Contacts \union {""}, tag : Tags \union {""}]

Replies == {"100", "183", "200", "401", "407", "486", "487", "500", "603",
            "other reply"}
Requests == {"INVITE", "INVITE from self", "BYE", "NOTIFY", "INFO",
             "INFO dtmf", "other request"}

\* A packet SipPacket::parse accepts, or one it does not.  The nonce
\* matters in a challenge only.  The parser may find a method in a packet that has
\* a status: rx looks at it after the status, unless that is a 500.  A status it
\* does not know makes no difference to a request.
Packet == {p \in [kind : Replies \union Requests \union {"unparsable"},
                  rest : Rests \union {"none"},
                  contact : Contacts \union {""}, tag : Tags \union {""},
                  nonce : Nonces \union {""}] :
              p.rest # "none" => p.kind \in Replies \ {"500", "other reply"}}
-----------------------------------------------------------------------------
(* What the client sends *)

IncSeqUnbounded(h) == [h EXCEPT !.seq = @ + 1]   \* mutant: no wrap at 32 bits

\* m_sip_sequence_number++ on a uint32_t.
IncSeq(h) == [h EXCEPT !.seq = (@ + 1) % SeqModulus]

\* send_sip_header and the Authorization lines: every request carries the
\* current sequence number, tag, branch and Call-ID; toTag is for the ACK only.
Request(method, uri, h, a, toTag) ==
    [method |-> method, uri |-> uri, hdr |-> h, auth |-> a, toTag |-> toTag]

\* send_sip_register: the request URI is the server whatever m_uri is.
Register(h, a) == Request("REGISTER", "server", h, a, "")

\* send_sip_invite and send_sip_cancel: the request URI is m_uri.
Invite(h, a) == Request("INVITE", h.uri, h, a, "")
NoCredentials == [response |-> NoResponse, nonce |-> ""]

CancelWithNextSeq(h, a) ==   \* mutant: a CANCEL numbered as a new request
    Request("CANCEL", h.uri, IncSeq(h), a, "")


Cancel(h, a) == Request("CANCEL", h.uri, h, a, "")

AckAfterIncrement(h, p) ==   \* mutant: acknowledged after the next INVITE is numbered
    Request("ACK", IF p.contact # "" THEN p.contact ELSE h.uri, IncSeq(h),
            NoCredentials, p.tag)

AckBeforePeerStored(h, p) ==   \* mutant: the machine runs before rx stores the peer
    Request("ACK", IF peer.contact # "" THEN peer.contact ELSE h.uri, h,
            NoCredentials, peer.tag)

\* send_sip_ack: to the peer's contact when one is known; it carries the peer's
\* tag and, having no Authorization line, no credentials.
Ack(h, p) ==
    Request("ACK", IF p.contact # "" THEN p.contact ELSE h.uri, h,
            NoCredentials, p.tag)

\* send_sip_ok and send_sip_decline echo the packet's own identification.
Reply(status) == [method |-> status]

NoInvite == Request("none", "", [seq |-> 0, tag |-> "", branch |-> "",
                                 callId |-> "", uri |-> ""],
                    NoCredentials, "")

\* compute_auth_response
Response(method, uri, nonce) == [method |-> method, uri |-> uri, nonce |-> nonce]
-----------------------------------------------------------------------------
(* The io_context *)

EnqueueFirst(h) ==   \* mutant: dispatched ahead of what is queued
    /\ Len(ready) < MaxPending
    /\ ready' = <<h>> \o ready

Enqueue(h) ==
    /\ Len(ready) < MaxPending
    /\ ready' = Append(ready, h)

\* The handler at the head of the queue is h: it runs, and is gone.
Take(h) ==
    /\ ready # <<>>
    /\ Head(ready) = h
    /\ ready' = Tail(ready)

\* rx runs; what it has still to do comes before any other handler.
TakePacket(rest) ==
    /\ ready # <<>>
    /\ Head(ready) = "rx"
    /\ ready' = IF rest = "none" THEN Tail(ready) ELSE <<rest>> \o Tail(ready)

Queued(h) == h \in ToSet(ready)

Silent == tx' = <<>> /\ event' = "none"

Init ==
    /\ sm = "idle"
    /\ hdr \in [seq : 0..SeqModulus - 1, tag : Rand, branch : Rand,
                callId : Rand, uri : {"server"}]
    /\ auth = NoCredentials
    /\ peer = [contact |-> "", tag |-> ""]
    /\ timer = [t \in Timers |-> FALSE]
    /\ ready = <<>>
    /\ open = FALSE
    /\ tx = <<>>
    /\ event = "none"
    /\ invite = NoInvite
    /\ lost = {}

\* Between two handlers another task, a timer or the socket queues one more.
Post(h) ==
    /\ Enqueue(h)
    /\ Silent
    /\ UNCHANGED <<sm, hdr, auth, peer, invite, lost>>

\* init() with both sockets opened.
Start == ~open /\ open' = TRUE /\ Post("ev_start") /\ UNCHANGED timer

\* init() with the RTP socket not opened: nothing is posted, but the SIP socket
\* receives, and sip_task takes the client for initialised.
StartHalf ==
    /\ ~open
    /\ open' = TRUE
    /\ Silent
    /\ UNCHANGED <<sm, hdr, auth, peer, timer, ready, invite, lost>>

\* deinit() closes the sockets; timers and queued handlers stay.
Deinit ==
    /\ open
    /\ open' = FALSE
    /\ Silent
    /\ UNCHANGED <<sm, hdr, auth, peer, timer, ready, invite, lost>>

RequestRing == Post("ev_request_call") /\ UNCHANGED <<open, timer>>
RequestCancel == Post("ev_cancel_call") /\ UNCHANGED <<open, timer>>

\* A receive operation is completed; which datagram it is, is chosen when the
\* handler runs.  Each opening of the socket has added an operation (UdpClient),
\* so that any number of them may be queued.
DatagramArrives == open /\ Post("rx") /\ UNCHANGED <<open, timer>>

TimerExpires(t) ==
    /\ timer[t]
    /\ timer' = [timer EXCEPT ![t] = FALSE]
    /\ Post(Expiry[t]) /\ UNCHANGED open
-----------------------------------------------------------------------------
(* What several handlers do *)

CommandTimerNotArmed == timer   \* mutant: the REGISTER is sent without a timeout

\* The end of send_sip_register: five seconds for the reply.
CommandTimerArmed == [timer EXCEPT !["command"] = TRUE]

\* Every parsed packet cancels the command timer, whatever it is.
CommandTimerOff == [timer EXCEPT !["command"] = FALSE]

ScheduleNothing(t) == t   \* mutant: the new expiry is set, the wait is not started

\* schedule_reregister: a pending wait is replaced by a new one.
ScheduleReregister(t) == [t EXCEPT !["reregister"] = TRUE]

ForgetNonceOnly == [auth EXCEPT !.nonce = ""]   \* mutant: m_response survives

\* is_registered: nonce, realm and response are emptied.
ForgetCredentials == NoCredentials

EndedBy487InAnyCall ==   \* mutant: a 487 row for an established call, too
    {"calling", "cancelling", "call_established"}

EndedBy487BeforeCancel == {"calling"}   \* mutant: no 487 row for a cancelled call

\* The states with a 487 row.
EndedBy487 == {"calling", "cancelling"}

\* A fresh m_tag and m_branch in h: two calls of std::rand().
Redrawn(h, r) == [h EXCEPT !.tag = r[1], !.branch = r[2]]
-----------------------------------------------------------------------------
(* The actions of the transition table: what each changes by itself *)

\* register_unauth: fresh tag and branch for the REGISTER, and again after it.
RegisterUnauth ==
    \E now, next \in Rand \X Rand :
        /\ tx' = <<Register(Redrawn(hdr, now), auth)>>
        /\ hdr' = Redrawn(hdr, next)
        /\ timer' = CommandTimerArmed
        /\ lost' = lost \ {"command"}

\* register_auth, the nonce of the challenge already stored.
RegisterAuth(nonce) ==
    /\ hdr' = IncSeq(hdr)
    /\ auth' = [response |-> Response("REGISTER", "server", nonce), nonce |-> nonce]
    /\ tx' = <<Register(hdr', auth')>>
    /\ timer' = CommandTimerArmed
    /\ lost' = lost \ {"command"}

\* handle_internal_server_error: a new identity, and five seconds to wait.
HandleInternalServerError ==
    /\ \E r \in Rand \X Rand : hdr' = Redrawn(IncSeq(hdr), r)
    /\ timer' = [CommandTimerOff EXCEPT !["restart"] = TRUE]

\* is_registered: the next call will be to **613 unless one is requested.
IsRegistered ==
    /\ hdr' = [IncSeq(hdr) EXCEPT !.uri = "**613"]
    /\ auth' = ForgetCredentials

\* send_invite(ev_401_unauthorized): the challenged INVITE is acknowledged as
\* it was sent, the next one is a new transaction.
SendInviteAuth(nonce, p) ==
    /\ \E branch \in Rand : hdr' = [IncSeq(hdr) EXCEPT !.branch = branch]
    /\ auth' = [response |-> Response("INVITE", hdr.uri, nonce), nonce |-> nonce]
    /\ invite' = Invite(hdr', auth')
    /\ tx' = <<Ack(hdr, p), invite'>>

\* send_invite(ev_initiate_call), with h the header request_call left.
SendInvite(h) ==
    /\ \E branch \in Rand : hdr' = [IncSeq(h) EXCEPT !.branch = branch]
    /\ invite' = Invite(hdr', auth)
    /\ tx' = <<invite'>>

\* request_call, and the ev_initiate_call it processes before it returns.
RequestCall ==
    \E number \in Numbers, callId \in Rand :
        SendInvite([hdr EXCEPT !.callId = callId, !.uri = number])

\* cancel_call
CancelCall == tx' = <<Cancel(hdr, auth)>>

\* call_established, with p the peer of the answer.
CallEstablished(p) == tx' = <<Ack(hdr, p)>> /\ event' = "CALL_START"

CallCancelledInSilence(p) ==   \* mutant: the 487 is not acknowledged
    /\ event' = "CALL_CANCELLED"
    /\ tx' = <<>>
    /\ \E r \in Rand \X Rand : hdr' = Redrawn(IncSeq(hdr), r)

\* call_cancelled: the ACK still names the INVITE.
CallCancelled(p) ==
    /\ event' = "CALL_CANCELLED"
    /\ tx' = <<Ack(hdr, p)>>
    /\ \E r \in Rand \X Rand : hdr' = Redrawn(IncSeq(hdr), r)

\* call_declined, for 486 and 603.
CallDeclined == event' = "CALL_CANCELLED"

\* handle_invite and handle_bye
HandleInvite == event' = "CALL_START"
HandleBye == hdr' = IncSeq(hdr) /\ event' = "CALL_END"
-----------------------------------------------------------------------------
(* Handlers that are not received packets *)

\* The machine has no row for the event in this state: process_event drops it.
Drop ==
    /\ Silent
    /\ UNCHANGED <<sm, hdr, auth, peer, timer, open, invite>>

\* The rows that send the first REGISTER of a registration.
BeginRegistration(from) ==
    /\ sm \in from
    /\ sm' = "waiting_for_auth_reply"
    /\ RegisterUnauth
    /\ event' = "none"
    /\ UNCHANGED <<auth, peer, open, invite>>

HandleStart ==
    LET from == {"idle", "registered", "calling", "call_established"}
    IN  /\ Take("ev_start")
        /\ \/ BeginRegistration(from)
           \/ sm \notin from /\ Drop /\ UNCHANGED lost

HandleReplyTimeout ==
    /\ Take("ev_reply_timeout")
    /\ \/ BeginRegistration({"waiting_for_auth_reply"})
       \/ sm # "waiting_for_auth_reply" /\ Drop /\ UNCHANGED lost

ReregisterInCall ==   \* mutant: registered anew in the middle of an established call
    LET from == {"registered", "call_established"}
    IN  /\ Take("ev_reregister")
        /\ \/ BeginRegistration(from)
           \/ sm \notin from /\ Drop /\ UNCHANGED lost

\* During a call the re-registration is put off by 20/2 seconds; while
\* cancelling, the event is dropped and the timer is not set again.
HandleReregister ==
    LET busy == {"calling", "call_established"}
    IN  /\ Take("ev_reregister")
        /\ \/ BeginRegistration({"registered"})
           \/ /\ sm \in busy
              /\ timer' = ScheduleReregister(timer)
              /\ Silent
              /\ UNCHANGED <<sm, hdr, auth, peer, open, invite, lost>>
           \/ /\ sm \notin busy \union {"registered"}
              /\ Drop
              /\ lost' = IF sm = "cancelling" THEN lost \union {"reregister"}
                                              ELSE lost

RingBeforeRegistered ==   \* mutant: a ring also while the REGISTER is answered
    /\ Take("ev_request_call")
    /\ \/ /\ sm \in {"registered", "waiting_for_auth_reply"}
          /\ sm' = "calling"
          /\ RequestCall
          /\ event' = "none"
          /\ UNCHANGED <<auth, peer, timer, open, lost>>
       \/ /\ sm \notin {"registered", "waiting_for_auth_reply"}
          /\ Drop /\ UNCHANGED lost

HandleRequestCall ==
    /\ Take("ev_request_call")
    /\ \/ /\ sm = "registered"
          /\ sm' = "calling"
          /\ RequestCall
          /\ event' = "none"
          /\ UNCHANGED <<auth, peer, timer, open, lost>>
       \/ sm # "registered" /\ Drop /\ UNCHANGED lost

HandleCancelCall ==
    /\ Take("ev_cancel_call")
    /\ \/ /\ sm = "calling"
          /\ sm' = "cancelling"
          /\ CancelCall
          /\ event' = "none"
          /\ UNCHANGED <<hdr, auth, peer, timer, open, invite, lost>>
       \/ sm # "calling" /\ Drop /\ UNCHANGED lost
-----------------------------------------------------------------------------
(* rx: a received packet.  Each action is rx for one kind of packet, up to the *)
(* method if the packet has a status as well.                                  *)

\* The packet is not parsed (or is empty): rx returns before anything else.
RxUnparsable(p) ==
    /\ p.kind = "unparsable"
    /\ Drop /\ UNCHANGED lost

\* While the reply to a REGISTER is awaited, a packet that is not that reply
\* has then taken the timer away.
CommandTimerLost ==
    IF sm = "waiting_for_auth_reply" THEN lost \union {"command"} ELSE lost

\* A contact and a To tag replace the known ones when the packet has them.
PeerAfter(p) ==
    [contact |-> IF p.contact # "" THEN p.contact ELSE peer.contact,
     tag     |-> IF p.tag # "" THEN p.tag ELSE peer.tag]

\* The machine does not move: only what rx does for every packet, and the
\* datagrams sent.
Stay(sent) ==
    /\ tx' = sent
    /\ event' = "none"
    /\ timer' = CommandTimerOff
    /\ lost' = CommandTimerLost
    /\ UNCHANGED <<sm, hdr, auth, invite>>

\* 500: rx returns before it has looked at contact and tag.
RxServerError(p) ==
    /\ p.kind = "500"
    /\ \/ /\ sm = "waiting_for_auth_reply"
          /\ sm' = "idle_s"
          /\ HandleInternalServerError
          /\ Silent
          /\ UNCHANGED <<auth, invite, lost>>
       \/ sm # "waiting_for_auth_reply" /\ Stay(<<>>)
    /\ UNCHANGED <<peer, open>>

\* 401 and 407: the nonce is kept in every state, but only a pending REGISTER
\* or INVITE is sent again, with a response computed from it.
RxUnauthorized(p) ==
    /\ p.kind \in {"401", "407"}
    /\ peer' = PeerAfter(p)
    /\ \/ /\ sm = "waiting_for_auth_reply"
          /\ RegisterAuth(p.nonce)
          /\ event' = "none"
          /\ UNCHANGED <<sm, invite>>
       \/ /\ sm = "calling"
          /\ SendInviteAuth(p.nonce, peer')
          /\ timer' = CommandTimerOff
          /\ event' = "none"
          /\ UNCHANGED <<sm, lost>>
       \/ /\ sm \notin {"waiting_for_auth_reply", "calling"}
          /\ auth' = [auth EXCEPT !.nonce = p.nonce]
          /\ timer' = CommandTimerOff
          /\ Silent
          /\ UNCHANGED <<sm, hdr, invite, lost>>
    /\ UNCHANGED open

\* 200: registered, call answered, or, with the call already established, the
\* machine's terminate state.
RxOk(p) ==
    /\ p.kind = "200"
    /\ peer' = PeerAfter(p)
    /\ \/ /\ sm = "waiting_for_auth_reply"
          /\ sm' = "registered"
          /\ timer' = ScheduleReregister(CommandTimerOff)
          /\ IsRegistered
          /\ lost' = {}
          /\ Silent
          /\ UNCHANGED invite
       \/ /\ sm = "calling"
          /\ sm' = "call_established"
          /\ CallEstablished(peer')
          /\ timer' = CommandTimerOff
          /\ UNCHANGED <<hdr, auth, invite, lost>>
       \/ /\ sm = "call_established"
          /\ sm' = "X"
          /\ Silent
          /\ timer' = CommandTimerOff
          /\ UNCHANGED <<hdr, auth, invite, lost>>
       \/ /\ sm \notin {"waiting_for_auth_reply", "calling", "call_established"}
          /\ Stay(<<>>)
    /\ UNCHANGED open

\* 487 ends the call that is being placed or cancelled.
RxRequestCancelled(p) ==
    /\ p.kind = "487"
    /\ peer' = PeerAfter(p)
    /\ \/ /\ sm \in EndedBy487
          /\ sm' = "registered"
          /\ CallCancelled(peer')
          /\ timer' = CommandTimerOff
          /\ UNCHANGED <<auth, invite, lost>>
       \/ sm \notin EndedBy487 /\ Stay(<<>>)
    /\ UNCHANGED open

\* 486 and 603 are acknowledged in every state, and consume the sequence number.
RxDeclined(p) ==
    /\ p.kind \in {"486", "603"}
    /\ peer' = PeerAfter(p)
    /\ tx' = <<Ack(hdr, peer')>>
    /\ \E branch \in Rand : hdr' = [IncSeq(hdr) EXCEPT !.branch = branch]
    /\ timer' = CommandTimerOff
    /\ lost' = CommandTimerLost
    /\ \/ sm = "calling" /\ sm' = "registered" /\ CallDeclined
       \/ sm # "calling" /\ event' = "none" /\ UNCHANGED sm
    /\ UNCHANGED <<auth, open, invite>>

\* BYE is answered with 200 OK in every state.
RxBye(p) ==
    /\ p.kind = "BYE"
    /\ peer' = PeerAfter(p)
    /\ \/ /\ sm = "call_established"
          /\ sm' = "registered"
          /\ HandleBye
          /\ tx' = <<Reply("200 OK")>>
          /\ timer' = CommandTimerOff
          /\ UNCHANGED <<auth, invite, lost>>
       \/ sm # "call_established" /\ Stay(<<Reply("200 OK")>>)
    /\ UNCHANGED open

\* A call from somebody else is answered with 200 OK in every state; only a
\* registered client without a call takes it.
RxInvite(p) ==
    /\ p.kind = "INVITE"
    /\ peer' = PeerAfter(p)
    /\ \/ /\ sm = "registered"
          /\ sm' = "call_established"
          /\ HandleInvite
          /\ tx' = <<Reply("200 OK")>>
          /\ timer' = CommandTimerOff
          /\ UNCHANGED <<hdr, auth, invite, lost>>
       \/ sm # "registered" /\ Stay(<<Reply("200 OK")>>)
    /\ UNCHANGED open

\* The client's own call come back to it (e.g. a group number): declined.
RxInviteFromSelf(p) ==
    /\ p.kind = "INVITE from self"
    /\ peer' = PeerAfter(p)
    /\ Stay(<<Reply("603 Decline")>>)
    /\ UNCHANGED open

\* INFO with a DTMF relay body is reported in every state.
RxInfoDtmf(p) ==
    /\ p.kind = "INFO dtmf"
    /\ peer' = PeerAfter(p)
    /\ event' = "BUTTON_PRESS"
    /\ tx' = <<Reply("200 OK")>>
    /\ timer' = CommandTimerOff
    /\ lost' = CommandTimerLost
    /\ UNCHANGED <<sm, hdr, auth, open, invite>>

\* 100 and 183 leave a calling client calling; the rest has no row at all.
RxOther(p) ==
    /\ p.kind \in {"100", "183", "NOTIFY", "INFO", "other reply", "other request"}
    /\ peer' = PeerAfter(p)
    /\ Stay(IF p.kind \in {"NOTIFY", "INFO"} THEN <<Reply("200 OK")>> ELSE <<>>)
    /\ UNCHANGED open

Rx(p) ==
    /\ TakePacket(p.rest)
    /\ \/ RxUnparsable(p)
       \/ RxServerError(p)
       \/ RxUnauthorized(p)
       \/ RxOk(p)
       \/ RxRequestCancelled(p)
       \/ RxDeclined(p)
       \/ RxBye(p)
       \/ RxInvite(p)
       \/ RxInviteFromSelf(p)
       \/ RxInfoDtmf(p)
       \/ RxOther(p)

-----------------------------------------------------------------------------
(* The rest of rx, for a packet with a status and a method: only the INVITE is *)
(* answered, and contact, tag and command timer have been dealt with.          *)

RestOfBye ==
    /\ Take("rx_BYE")
    /\ tx' = <<>>
    /\ \/ sm = "call_established" /\ sm' = "registered" /\ HandleBye
       \/ sm # "call_established" /\ event' = "none" /\ UNCHANGED <<sm, hdr>>

RestOfInvite ==
    /\ Take("rx_INVITE")
    /\ tx' = <<Reply("200 OK")>>
    /\ \/ sm = "registered" /\ sm' = "call_established" /\ HandleInvite
       \/ sm # "registered" /\ event' = "none" /\ UNCHANGED sm
    /\ UNCHANGED hdr

RestOfInviteFromSelf ==
    /\ Take("rx_INVITE_from_self")
    /\ tx' = <<Reply("603 Decline")>>
    /\ event' = "none"
    /\ UNCHANGED <<sm, hdr>>

RestOfInfoDtmf ==
    /\ Take("rx_INFO_dtmf")
    /\ tx' = <<>>
    /\ event' = "BUTTON_PRESS"
    /\ UNCHANGED <<sm, hdr>>

RestOfRx ==
    /\ RestOfBye \/ RestOfInvite \/ RestOfInviteFromSelf \/ RestOfInfoDtmf
    /\ UNCHANGED <<auth, peer, timer, open, invite, lost>>
-----------------------------------------------------------------------------

Handle ==
    \/ HandleStart
    \/ HandleReplyTimeout
    \/ HandleReregister
    \/ HandleRequestCall
    \/ HandleCancelCall

\* One of the handlers the io_context runs.
RunsHandler == Handle \/ RestOfRx \/ \E p \in Packet : Rx(p)

Next ==
    \/ Start
    \/ StartHalf
    \/ Deinit
    \/ RequestRing
    \/ RequestCancel
    \/ DatagramArrives
    \/ \E t \in Timers : TimerExpires(t)
    \/ RunsHandler

Spec == Init /\ [][Next]_vars

\* The io_context runs queued handlers, and a steady_timer expires, as long as
\* the SIP task is in run(): without a connection it waits for one.  The
\* expiry is strongly fair because MaxPending, which the code does not have,
\* may disable it for a moment again and again.
Fairness ==
    /\ WF_vars(open /\ RunsHandler)
    /\ \A t \in Timers : SF_vars(open /\ TimerExpires(t))

FairSpec == Spec /\ Fairness
-----------------------------------------------------------------------------
(* Properties *)

\* The one type invariant: every variable keeps its shape, the sequence number
\* its 32 bits and the queue its bound.
TypeOK ==
    /\ sm \in States
    /\ hdr \in Header
    /\ auth \in Auth
    /\ peer \in Peer
    /\ timer \in [Timers -> BOOLEAN]
    /\ ready \in Seq(Handlers) /\ Len(ready) <= MaxPending
    /\ open \in BOOLEAN
    /\ event \in Events
    /\ lost \subseteq {"command", "reregister"}

\* A CANCEL carries the CSeq, From tag, branch, Call-ID, URI and credentials of
\* the INVITE it cancels, however many challenges, provisional replies,
\* foreign requests and timer events came in between: the comment on
\* send_sip_cancel ("the following parameter must not be changed").
CancelMatchesInvite ==
    \A m \in ToSet(tx) : m.method = "CANCEL" =>
        /\ m.hdr = invite.hdr
        /\ m.uri = invite.uri
        /\ m.auth = invite.auth

\* While calling, the ACK of a final reply names the INVITE it acknowledges, not
\* the one sent next: send_invite acknowledges the challenge before it draws
\* the next branch and sequence number, rx and call_cancelled do so too.
AckMatchesInvite ==
    [][sm = "calling" =>
           \A m \in ToSet(tx') : m.method = "ACK" => m.hdr = invite.hdr]_vars

\* The credentials computed for a REGISTER never end up in an INVITE or CANCEL:
\* is_registered forgets them, and no other way leads from a registration to
\* a call.
NoRegisterCredentialsInCall ==
    \A m \in ToSet(tx) : m.method \in {"INVITE", "CANCEL"} =>
        m.auth.response.method # "REGISTER"

\* A registered client, in a call or not, has the next registration ahead: the
\* timer runs, or its handler is queued.  The only exception is a timer that
\* expired while a call was being cancelled, which no row of the table handles.
RegistrationRenewed ==
    sm \in {"registered", "calling", "call_established"} =>
        \/ timer["reregister"]
        \/ Queued("ev_reregister")
        \/ "reregister" \in lost

\* A client waiting for the reply to a REGISTER does not wait for ever: the
\* command timer runs, or its handler is queued.  The only exception is a
\* packet that is not the reply and has cancelled the timer, as rx lets any
\* parsed packet do.
ReplyAwaitedWithTimeout ==
    sm = "waiting_for_auth_reply" =>
        \/ timer["command"]
        \/ Queued("ev_reply_timeout")
        \/ "command" \in lost

\* The ACK of an answer goes to the contact and carries the tag of that very answer,
\* where it has them, not those an earlier call or a foreign packet has left: rx
\* stores both before it lets the machine process the reply.
AnswerAcknowledgedAtAnswerer ==
    [][sm = "calling" /\ sm' = "call_established" =>
           \A p \in Packet : Rx(p) =>
               \E m \in ToSet(tx') :
                   /\ m.method = "ACK"
                   /\ p.contact # "" => m.uri = p.contact
                   /\ p.tag # "" => m.toTag = p.tag]_vars

\* After a 500 the client registers again, unless the connection is lost: the
\* comment in handle_internal_server_error says "wait for timeout and restart again".
RestartsAfterServerError ==
    sm = "idle_s" ~> sm = "waiting_for_auth_reply" \/ ~open

\* The call as its event handlers are told of it.
CallOf(state) ==
    CASE state \in {"calling", "cancelling"} -> "ringing"
      [] state = "call_established" -> "talking"
      [] OTHER -> "none"

Calls == INSTANCE CallProgress WITH call <- CallOf(sm)

\* The client implements CallProgress: no CALL_END or CALL_CANCELLED without its
\* call, no CALL_START in the middle of one.
ImplementsCallProgress == Calls!Spec
=============================================================================
