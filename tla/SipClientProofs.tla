-------------------------- MODULE SipClientProofs --------------------------
(* Theorems about SipClient, for every value of its constants. *)
EXTENDS SipClient, TLAPS

\* What a handler sends is none, one or two datagrams.
LEMMA SentSets ==
    /\ ToSet(<<>>) = {}
    /\ \A a : ToSet(<<a>>) = {a}
    /\ \A a, b : ToSet(<<a, b>>) = {a, b}
BY DEF ToSet

\* The fields of what is sent.
LEMMA RequestFields ==
    ASSUME NEW h, NEW a, NEW p
    PROVE  /\ Invite(h, a).method = "INVITE" /\ Invite(h, a).hdr = h
           /\ Invite(h, a).uri = h.uri /\ Invite(h, a).auth = a
           /\ Cancel(h, a).method = "CANCEL" /\ Cancel(h, a).hdr = h
           /\ Cancel(h, a).uri = h.uri /\ Cancel(h, a).auth = a
           /\ Register(h, a).method = "REGISTER" /\ Register(h, a).auth = a
           /\ Ack(h, p).method = "ACK" /\ Ack(h, p).hdr = h
           /\ Reply("200 OK").method = "200 OK"
           /\ Reply("603 Decline").method = "603 Decline"
BY DEF Invite, Cancel, Register, Ack, Reply, Request

\* While a call is being placed, the header and credentials are still those of
\* the last INVITE.  CancelMatchesInvite is not inductive without it.
InviteCurrent == sm = "calling" => invite = Invite(hdr, auth)

CancelInv == InviteCurrent /\ CancelMatchesInvite

\* No step can break the invariant that sends no CANCEL and does not touch the
\* INVITE of a call being placed.
LEMMA CancelInvKept ==
    ASSUME CancelInv,
           \A m \in ToSet(tx') : m.method # "CANCEL",
           sm' = "calling" => \/ UNCHANGED <<sm, hdr, auth, invite>>
                              \/ invite' = Invite(hdr', auth')
    PROVE  CancelInv'
BY DEF CancelInv, InviteCurrent, CancelMatchesInvite

LEMMA CancelInvSilent ==
    ASSUME CancelInv, tx' = <<>>, sm' = "calling" => UNCHANGED <<sm, hdr, auth, invite>>
    PROVE  CancelInv'
<1>1. ToSet(tx') = {}
    BY SentSets
<1> QED
    BY <1>1, CancelInvKept

\* The datagrams a handler sends that are no CANCEL.
LEMMA NoCancelSent ==
    ASSUME NEW h, NEW a, NEW p,
           \/ tx' = <<Register(h, a)>>
           \/ tx' = <<Invite(h, a)>>
           \/ tx' = <<Ack(h, p)>>
           \/ tx' = <<Reply("200 OK")>>
           \/ tx' = <<Reply("603 Decline")>>
    PROVE  \A m \in ToSet(tx') : m.method # "CANCEL"
<1>1. ASSUME NEW x, tx' = <<x>>, x.method # "CANCEL"
      PROVE  \A m \in ToSet(tx') : m.method # "CANCEL"
    <2>1. ToSet(tx') = {x}
        BY <1>1, SentSets
    <2> QED BY <1>1, <2>1
<1> QED
    BY <1>1, RequestFields

LEMMA CancelInvInit == Init => CancelInv
BY SentSets DEF Init, CancelInv, InviteCurrent, CancelMatchesInvite

\* A registration sends nothing but a REGISTER, and leaves "calling".
LEMMA CancelInvRegistration ==
    ASSUME CancelInv, NEW from, BeginRegistration(from)
    PROVE  CancelInv'
<1>1. PICK h : tx' = <<Register(h, auth)>>
    BY DEF BeginRegistration, RegisterUnauth
<1>2. \A m \in ToSet(tx') : m.method # "CANCEL"
    BY <1>1, NoCancelSent
<1>3. sm' = "waiting_for_auth_reply"
    BY DEF BeginRegistration
<1> QED
    BY <1>2, <1>3, CancelInvKept

LEMMA CancelInvHandle == CancelInv /\ Handle => CancelInv'
<1> SUFFICES ASSUME CancelInv, Handle PROVE CancelInv'
    OBVIOUS
<1>1. CASE HandleStart
    BY <1>1, CancelInvRegistration, CancelInvSilent DEF HandleStart, Drop, Silent
<1>2. CASE HandleReplyTimeout
    BY <1>2, CancelInvRegistration, CancelInvSilent
    DEF HandleReplyTimeout, Drop, Silent
<1>3. CASE HandleReregister
    BY <1>3, CancelInvRegistration, CancelInvSilent
    DEF HandleReregister, Drop, Silent
<1>4. CASE HandleRequestCall
    <2>1. CASE sm = "registered"
        <3>1. PICK h : /\ hdr' = h /\ invite' = Invite(h, auth)
                       /\ tx' = <<Invite(h, auth)>> /\ auth' = auth
            BY <1>4, <2>1 DEF HandleRequestCall, RequestCall, SendInvite
        <3>2. \A m \in ToSet(tx') : m.method # "CANCEL"
            BY <3>1, NoCancelSent
        <3> QED
            BY <3>1, <3>2, CancelInvKept
    <2>2. CASE sm # "registered"
        BY <1>4, <2>2, CancelInvSilent DEF HandleRequestCall, Drop, Silent
    <2> QED BY <2>1, <2>2
<1>5. CASE HandleCancelCall
    <2>1. CASE sm = "calling"
        <3>1. /\ tx' = <<Cancel(hdr, auth)>> /\ sm' = "cancelling"
              /\ invite' = Invite(hdr, auth)
            BY <1>5, <2>1 DEF HandleCancelCall, CancelCall, CancelInv, InviteCurrent
        <3>2. ToSet(tx') = {Cancel(hdr, auth)}
            BY <3>1, SentSets
        <3> DEFINE c == Cancel(hdr, auth)
                   i == Invite(hdr, auth)
        <3>3. c.hdr = i.hdr /\ c.uri = i.uri /\ c.auth = i.auth
            BY DEF Cancel, Invite, Request
        <3> HIDE DEF c, i
        <3>4. ToSet(tx') = {c} /\ invite' = i /\ sm' = "cancelling"
            BY <3>1, <3>2 DEF c, i
        <3> QED
            BY <3>3, <3>4 DEF CancelInv, InviteCurrent, CancelMatchesInvite
    <2>2. CASE sm # "calling"
        BY <1>5, <2>2, CancelInvSilent DEF HandleCancelCall, Drop, Silent
    <2> QED BY <2>1, <2>2
<1> QED
    BY <1>1, <1>2, <1>3, <1>4, <1>5 DEF Handle

\* rx answers a request with a reply and a reply with an ACK, never a CANCEL.
LEMMA CancelInvRx == \A p \in Packet : CancelInv /\ Rx(p) => CancelInv'
<1> SUFFICES ASSUME NEW p \in Packet, CancelInv, Rx(p) PROVE CancelInv'
    OBVIOUS
<1>1. CASE RxUnparsable(p)
    BY <1>1, CancelInvSilent DEF RxUnparsable, Drop, Silent
<1>2. ASSUME Stay(<<>>)
      PROVE  CancelInv'
    BY <1>2, CancelInvSilent DEF Stay
<1>3. ASSUME Stay(<<>>) \/ Stay(<<Reply("200 OK")>>) \/ Stay(<<Reply("603 Decline")>>)
      PROVE  CancelInv'
    <2>1. CASE Stay(<<>>)
        BY <2>1, <1>2
    <2>2. CASE Stay(<<Reply("200 OK")>>) \/ Stay(<<Reply("603 Decline")>>)
        <3>1. \A m \in ToSet(tx') : m.method # "CANCEL"
            BY <2>2, NoCancelSent DEF Stay
        <3> QED
            BY <2>2, <3>1, CancelInvKept DEF Stay
    <2> QED BY <1>3, <2>1, <2>2
<1>4. CASE RxServerError(p)
    BY <1>3, <1>4, CancelInvSilent DEF RxServerError, Silent
<1>5. CASE RxUnauthorized(p)
    <2>1. CASE sm = "waiting_for_auth_reply"
        <3>1. PICK h, a : /\ sm' = "waiting_for_auth_reply"
                          /\ tx' = <<Register(h, a)>>
            BY <1>5, <2>1 DEF RxUnauthorized, RegisterAuth
        <3>2. \A m \in ToSet(tx') : m.method # "CANCEL"
            BY <3>1, NoCancelSent
        <3> QED
            BY <3>1, <3>2, CancelInvKept
    <2>2. CASE sm = "calling"
        <3>1. invite' = Invite(hdr', auth') /\ tx' = <<Ack(hdr, peer'), invite'>>
            BY <1>5, <2>2 DEF RxUnauthorized, SendInviteAuth
        <3> DEFINE a == Ack(hdr, peer')
                   i == Invite(hdr', auth')
        <3>2. a.method # "CANCEL" /\ i.method # "CANCEL"
            BY RequestFields
        <3> HIDE DEF a, i
        <3>3. \A m \in ToSet(tx') : m.method # "CANCEL"
            BY <3>1, <3>2, SentSets DEF a, i
        <3> QED
            BY <3>1, <3>3, CancelInvKept
    <2>3. CASE sm \notin {"waiting_for_auth_reply", "calling"}
        BY <1>5, <2>3, CancelInvSilent DEF RxUnauthorized, Silent
    <2> QED BY <2>1, <2>2, <2>3
<1>6. CASE RxOk(p)
    <2>1. CASE sm = "calling"
        <3>1. sm' = "call_established" /\ tx' = <<Ack(hdr, peer')>>
            BY <1>6, <2>1 DEF RxOk, CallEstablished
        <3>2. \A m \in ToSet(tx') : m.method # "CANCEL"
            BY <3>1, NoCancelSent
        <3> QED
            BY <3>1, <3>2, CancelInvKept
    <2>2. CASE sm # "calling"
        BY <1>3, <1>6, <2>2, CancelInvSilent DEF RxOk, Silent
    <2> QED BY <2>1, <2>2
<1>7. CASE RxRequestCancelled(p)
    <2>1. CASE sm \in EndedBy487
        <3>1. sm' = "registered" /\ tx' = <<Ack(hdr, peer')>>
            BY <1>7, <2>1 DEF RxRequestCancelled, CallCancelled
        <3>2. \A m \in ToSet(tx') : m.method # "CANCEL"
            BY <3>1, NoCancelSent
        <3> QED
            BY <3>1, <3>2, CancelInvKept
    <2>2. CASE sm \notin EndedBy487
        BY <1>3, <1>7, <2>2 DEF RxRequestCancelled
    <2> QED BY <2>1, <2>2
<1>8. CASE RxDeclined(p)
    <2>1. sm' # "calling" /\ tx' = <<Ack(hdr, peer')>>
        BY <1>8 DEF RxDeclined
    <2>2. \A m \in ToSet(tx') : m.method # "CANCEL"
        BY <2>1, NoCancelSent
    <2> QED
        BY <2>1, <2>2, CancelInvKept
<1>9. CASE RxBye(p)
    <2>1. CASE sm = "call_established"
        <3>1. sm' = "registered" /\ tx' = <<Reply("200 OK")>>
            BY <1>9, <2>1 DEF RxBye
        <3>2. \A m \in ToSet(tx') : m.method # "CANCEL"
            BY <3>1, NoCancelSent
        <3> QED
            BY <3>1, <3>2, CancelInvKept
    <2>2. CASE sm # "call_established"
        BY <1>3, <1>9, <2>2 DEF RxBye
    <2> QED BY <2>1, <2>2
<1>10. CASE RxInvite(p)
    <2>1. CASE sm = "registered"
        <3>1. sm' = "call_established" /\ tx' = <<Reply("200 OK")>>
            BY <1>10, <2>1 DEF RxInvite
        <3>2. \A m \in ToSet(tx') : m.method # "CANCEL"
            BY <3>1, NoCancelSent
        <3> QED
            BY <3>1, <3>2, CancelInvKept
    <2>2. CASE sm # "registered"
        BY <1>3, <1>10, <2>2 DEF RxInvite
    <2> QED BY <2>1, <2>2
<1>11. CASE RxInviteFromSelf(p)
    BY <1>3, <1>11 DEF RxInviteFromSelf
<1>12. CASE RxInfoDtmf(p)
    <2>1. tx' = <<Reply("200 OK")>> /\ UNCHANGED <<sm, hdr, auth, invite>>
        BY <1>12 DEF RxInfoDtmf
    <2>2. \A m \in ToSet(tx') : m.method # "CANCEL"
        BY <2>1, NoCancelSent
    <2> QED
        BY <2>1, <2>2, CancelInvKept
<1>13. CASE RxOther(p)
    BY <1>3, <1>13 DEF RxOther
<1> QED
    BY <1>1, <1>4, <1>5, <1>6, <1>7, <1>8, <1>9, <1>10, <1>11, <1>12, <1>13 DEF Rx

\* The rest of rx answers an INVITE, and leads away from a call that is placed.
LEMMA CancelInvRest == CancelInv /\ RestOfRx => CancelInv'
<1> SUFFICES ASSUME CancelInv, RestOfRx PROVE CancelInv'
    OBVIOUS
<1>1. /\ tx' = <<>> \/ tx' = <<Reply("200 OK")>> \/ tx' = <<Reply("603 Decline")>>
      /\ sm' = "calling" => UNCHANGED <<sm, hdr, auth, invite>>
    BY DEF RestOfRx, RestOfBye, RestOfInvite, RestOfInviteFromSelf, RestOfInfoDtmf
<1>2. \A m \in ToSet(tx') : m.method # "CANCEL"
    BY <1>1, NoCancelSent, SentSets
<1> QED
    BY <1>1, <1>2, CancelInvKept

\* What the other tasks, the timers and the socket queue sends nothing.
LEMMA CancelInvQueue ==
    ASSUME CancelInv,
           \/ Start \/ StartHalf \/ Deinit \/ RequestRing \/ RequestCancel
           \/ DatagramArrives \/ \E t \in Timers : TimerExpires(t)
    PROVE  CancelInv'
BY CancelInvSilent
DEF Start, StartHalf, Deinit, RequestRing, RequestCancel, DatagramArrives, TimerExpires,
    Post, Silent

LEMMA CancelInvStep == CancelInv /\ [Next]_vars => CancelInv'
<1> SUFFICES ASSUME CancelInv, [Next]_vars PROVE CancelInv'
    OBVIOUS
<1>1. CASE UNCHANGED vars
    BY <1>1 DEF vars, CancelInv, InviteCurrent, CancelMatchesInvite
<1>2. CASE Next
    BY <1>2, CancelInvQueue, CancelInvHandle, CancelInvRest, CancelInvRx
    DEF Next, RunsHandler
<1> QED BY <1>1, <1>2

\* Every CANCEL matches the INVITE it cancels, whatever the server and the
\* network send and however tasks, timers and packets interleave.
THEOREM CancelsMatchInvites == Spec => []CancelMatchesInvite
<1>1. CancelInv => CancelMatchesInvite
    BY DEF CancelInv
<1> QED
    BY <1>1, CancelInvInit, CancelInvStep, PTL DEF Spec
-----------------------------------------------------------------------------
(* Type correctness *)

LEMMA Bounds == SeqModulus \in Nat /\ SeqModulus > 0 /\ MaxPending \in Nat /\ MaxPending > 0
<1>1. SeqModulus \in Nat \ {0} /\ MaxPending \in Nat \ {0}
    BY ConstantsAssumption
<1> QED BY <1>1

\* The uint32_t wraps; everything else about the header stays.
LEMMA IncSeqType ==
    ASSUME NEW h \in Header
    PROVE  /\ IncSeq(h) \in Header
           /\ IncSeq(h).uri = h.uri
<1>1. h.seq \in 0..SeqModulus - 1
    BY DEF Header
<1>2. (h.seq + 1) % SeqModulus \in 0..SeqModulus - 1
    BY <1>1, Bounds
<1> QED
    BY <1>2 DEF Header, IncSeq

LEMMA RedrawnType ==
    ASSUME NEW h \in Header, NEW r \in Rand \X Rand
    PROVE  Redrawn(h, r) \in Header
BY DEF Header, Redrawn

LEMMA ResponseType ==
    ASSUME NEW method \in {"REGISTER", "INVITE"}, NEW uri \in Uri,
           NEW nonce \in Nonces \union {""}
    PROVE  [response |-> Response(method, uri, nonce), nonce |-> nonce] \in Auth
BY DEF Auth, Responses, Response

LEMMA NoCredentialsType == NoCredentials \in Auth
BY DEF NoCredentials, NoResponse, Auth, Responses

LEMMA TypeInit == Init => TypeOK
<1> SUFFICES ASSUME Init PROVE TypeOK
    OBVIOUS
<1>1. ready \in Seq(Handlers) /\ Len(ready) <= MaxPending
    <2>1. ready = <<>>
        BY DEF Init
    <2> QED BY <2>1, Bounds
<1>2. hdr \in Header
    BY DEF Init, Header, Uri
<1> QED
    BY <1>1, <1>2, NoCredentialsType
    DEF Init, TypeOK, States, Peer, Timers, Events

\* The queue keeps its type when a handler is queued or taken.
LEMMA EnqueueType ==
    ASSUME TypeOK, NEW h \in Handlers, Enqueue(h)
    PROVE  ready' \in Seq(Handlers) /\ Len(ready') <= MaxPending
<1>1. ready \in Seq(Handlers) /\ Len(ready) < MaxPending /\ ready' = Append(ready, h)
    BY DEF TypeOK, Enqueue
<1> QED
    BY <1>1, Bounds

LEMMA TakeType ==
    ASSUME TypeOK, NEW h, Take(h)
    PROVE  ready' \in Seq(Handlers) /\ Len(ready') <= MaxPending
<1>1. /\ ready \in Seq(Handlers) /\ Len(ready) <= MaxPending
      /\ ready # <<>> /\ ready' = Tail(ready)
    BY DEF TypeOK, Take
<1> QED
    BY <1>1, Bounds

LEMMA TakePacketType ==
    ASSUME TypeOK, NEW rest \in Rests \union {"none"}, TakePacket(rest)
    PROVE  ready' \in Seq(Handlers) /\ Len(ready') <= MaxPending
<1>1. /\ ready \in Seq(Handlers) /\ Len(ready) <= MaxPending /\ ready # <<>>
      /\ ready' = IF rest = "none" THEN Tail(ready) ELSE <<rest>> \o Tail(ready)
    BY DEF TypeOK, TakePacket
<1>2. Tail(ready) \in Seq(Handlers) /\ Len(Tail(ready)) = Len(ready) - 1
    BY <1>1
<1>3. CASE rest = "none"
    BY <1>1, <1>2, <1>3, Bounds
<1>4. CASE rest # "none"
    <2>1. <<rest>> \in Seq(Handlers)
        BY <1>4 DEF Handlers
    <2> QED BY <1>1, <1>2, <1>4, <2>1, Bounds
<1> QED BY <1>3, <1>4

LEMMA TypeQueue ==
    ASSUME TypeOK,
           \/ Start \/ StartHalf \/ Deinit \/ RequestRing \/ RequestCancel
           \/ DatagramArrives \/ \E t \in Timers : TimerExpires(t)
    PROVE  TypeOK'
<1>1. ASSUME NEW h \in Handlers, Post(h), timer' \in [Timers -> BOOLEAN],
             open' \in BOOLEAN
      PROVE  TypeOK'
    BY <1>1, EnqueueType DEF TypeOK, Post, Silent, Events
<1>2. CASE Start
    BY <1>1, <1>2 DEF Start, Handlers, TypeOK
<1>3. CASE StartHalf \/ Deinit
    BY <1>3 DEF StartHalf, Deinit, TypeOK, Silent, Events
<1>4. CASE RequestRing
    BY <1>1, <1>4 DEF RequestRing, Handlers, TypeOK
<1>5. CASE RequestCancel
    BY <1>1, <1>5 DEF RequestCancel, Handlers, TypeOK
<1>6. CASE DatagramArrives
    BY <1>1, <1>6 DEF DatagramArrives, Handlers, TypeOK
<1>7. ASSUME NEW t \in Timers, TimerExpires(t)
      PROVE  TypeOK'
    <2>1. Expiry[t] \in Handlers
        BY <1>7 DEF Timers, Expiry, Handlers
    <2>2. timer' \in [Timers -> BOOLEAN] /\ open' \in BOOLEAN
        BY <1>7 DEF TimerExpires, TypeOK
    <2> QED BY <1>1, <1>7, <2>1, <2>2 DEF TimerExpires
<1> QED
    BY <1>2, <1>3, <1>4, <1>5, <1>6, <1>7

\* What every handler must leave behind, the queue apart.
RestTyped ==
    /\ sm \in States
    /\ hdr \in Header
    /\ auth \in Auth
    /\ peer \in Peer
    /\ timer \in [Timers -> BOOLEAN]
    /\ open \in BOOLEAN
    /\ event \in Events
    /\ lost \subseteq {"command", "reregister"}

LEMMA RestTypedTake ==
    ASSUME TypeOK, NEW h, Take(h), RestTyped'
    PROVE  TypeOK'
BY TakeType DEF TypeOK, RestTyped

LEMMA RestTypedTakePacket ==
    ASSUME TypeOK, NEW p \in Packet, TakePacket(p.rest), RestTyped'
    PROVE  TypeOK'
<1>1. p.rest \in Rests \union {"none"}
    BY DEF Packet
<1> QED
    BY <1>1, TakePacketType DEF TypeOK, RestTyped

LEMMA TimersTyped ==
    ASSUME TypeOK
    PROVE  /\ CommandTimerArmed \in [Timers -> BOOLEAN]
           /\ CommandTimerOff \in [Timers -> BOOLEAN]
           /\ ScheduleReregister(timer) \in [Timers -> BOOLEAN]
           /\ ScheduleReregister(CommandTimerOff) \in [Timers -> BOOLEAN]
           /\ [CommandTimerOff EXCEPT !["restart"] = TRUE] \in [Timers -> BOOLEAN]
           /\ CommandTimerLost \subseteq {"command", "reregister"}
BY DEF TypeOK, CommandTimerArmed, CommandTimerOff, ScheduleReregister, CommandTimerLost

LEMMA TypeDrop ==
    ASSUME TypeOK, Drop, lost' \subseteq {"command", "reregister"}
    PROVE  RestTyped'
BY DEF Drop, Silent, TypeOK, RestTyped, Events

LEMMA TypeRegistration ==
    ASSUME TypeOK, NEW from, BeginRegistration(from)
    PROVE  RestTyped'
<1>1. PICK next \in Rand \X Rand : hdr' = Redrawn(hdr, next)
    BY DEF BeginRegistration, RegisterUnauth
<1>2. hdr' \in Header
    BY <1>1, RedrawnType DEF TypeOK
<1> QED
    BY <1>2, TimersTyped
    DEF BeginRegistration, RegisterUnauth, TypeOK, RestTyped, States, Events

LEMMA TypeHandle == TypeOK /\ Handle => TypeOK'
<1> SUFFICES ASSUME TypeOK, Handle PROVE TypeOK'
    OBVIOUS
<1>1. CASE HandleStart
    <2>1. RestTyped'
        BY <1>1, TypeRegistration, TypeDrop DEF HandleStart, TypeOK
    <2> QED BY <1>1, <2>1, RestTypedTake DEF HandleStart
<1>2. CASE HandleReplyTimeout
    <2>1. RestTyped'
        BY <1>2, TypeRegistration, TypeDrop DEF HandleReplyTimeout, TypeOK
    <2> QED BY <1>2, <2>1, RestTypedTake DEF HandleReplyTimeout
<1>3. CASE HandleReregister
    <2>1. CASE sm \in {"calling", "call_established"}
        BY <1>3, <2>1, TimersTyped, RestTypedTake
        DEF HandleReregister, Drop, BeginRegistration, RestTyped, TypeOK, Silent, Events
    <2>2. CASE sm = "registered"
        BY <1>3, <2>2, TypeRegistration, RestTypedTake DEF HandleReregister
    <2>3. CASE sm \notin {"registered", "calling", "call_established"}
        <3>1. Drop /\ lost' \subseteq {"command", "reregister"}
            BY <1>3, <2>3 DEF HandleReregister, BeginRegistration, TypeOK
        <3> QED BY <1>3, <3>1, TypeDrop, RestTypedTake DEF HandleReregister
    <2> QED BY <2>1, <2>2, <2>3
<1>4. CASE HandleRequestCall
    <2>1. CASE sm = "registered"
        <3>1. PICK number \in Numbers, callId \in Rand, branch \in Rand :
                  hdr' = [IncSeq([hdr EXCEPT !.callId = callId, !.uri = number])
                             EXCEPT !.branch = branch]
            BY <1>4, <2>1 DEF HandleRequestCall, RequestCall, SendInvite
        <3> DEFINE h == [hdr EXCEPT !.callId = callId, !.uri = number]
        <3>2. h \in Header
            BY DEF TypeOK, Header, Uri
        <3>3. IncSeq(h) \in Header
            BY <3>2, IncSeqType
        <3>4. hdr' \in Header
            BY <3>1, <3>3 DEF Header
        <3>5. RestTyped'
            BY <1>4, <2>1, <3>4 DEF HandleRequestCall, TypeOK, RestTyped, States, Events
        <3> QED BY <1>4, <3>5, RestTypedTake DEF HandleRequestCall
    <2>2. CASE sm # "registered"
        BY <1>4, <2>2, TypeDrop, RestTypedTake DEF HandleRequestCall, TypeOK
    <2> QED BY <2>1, <2>2
<1>5. CASE HandleCancelCall
    <2>1. RestTyped'
        BY <1>5, TypeDrop DEF HandleCancelCall, TypeOK, RestTyped, States, Events
    <2> QED BY <1>5, <2>1, RestTypedTake DEF HandleCancelCall
<1> QED
    BY <1>1, <1>2, <1>3, <1>4, <1>5 DEF Handle

LEMMA TypeRest == TypeOK /\ RestOfRx => TypeOK'
<1> SUFFICES ASSUME TypeOK, RestOfRx PROVE TypeOK'
    OBVIOUS
<1>1. PICK h : Take(h)
    BY DEF RestOfRx, RestOfBye, RestOfInvite, RestOfInviteFromSelf, RestOfInfoDtmf
<1>2. hdr' \in Header
    BY IncSeqType
    DEF RestOfRx, RestOfBye, RestOfInvite, RestOfInviteFromSelf, RestOfInfoDtmf, HandleBye,
        TypeOK
<1>3. sm' \in States /\ event' \in Events
    BY DEF RestOfRx, RestOfBye, RestOfInvite, RestOfInviteFromSelf, RestOfInfoDtmf,
           HandleBye, HandleInvite, TypeOK, States, Events
<1>4. RestTyped'
    BY <1>2, <1>3 DEF RestOfRx, TypeOK, RestTyped
<1> QED
    BY <1>1, <1>4, RestTypedTake

LEMMA TypeRx == \A p \in Packet : TypeOK /\ Rx(p) => TypeOK'
<1> SUFFICES ASSUME NEW p \in Packet, TypeOK, Rx(p) PROVE RestTyped'
    BY RestTypedTakePacket DEF Rx
<1>1. PeerAfter(p) \in Peer
    BY DEF PeerAfter, Packet, TypeOK, Peer
<1>2. IncSeq(hdr) \in Header
    BY IncSeqType DEF TypeOK
<1>3. ASSUME NEW sent, Stay(sent), peer' \in Peer, open' = open
      PROVE  RestTyped'
    BY <1>3, TimersTyped DEF Stay, TypeOK, RestTyped, Events
<1>4. CASE RxUnparsable(p)
    BY <1>4, TypeDrop DEF RxUnparsable, TypeOK
<1>5. CASE RxServerError(p)
    <2>1. CASE sm = "waiting_for_auth_reply"
        <3>1. hdr' \in Header
            BY <1>2, <1>5, <2>1, RedrawnType
            DEF RxServerError, HandleInternalServerError
        <3> QED
            BY <1>5, <2>1, <3>1, TimersTyped
            DEF RxServerError, HandleInternalServerError, Silent, TypeOK, RestTyped,
                States, Events
    <2>2. CASE sm # "waiting_for_auth_reply"
        BY <1>3, <1>5, <2>2 DEF RxServerError, TypeOK
    <2> QED BY <2>1, <2>2
<1>6. CASE RxUnauthorized(p)
    <2>1. p.nonce \in Nonces \union {""}
        BY DEF Packet
    <2>2. CASE sm = "waiting_for_auth_reply"
        <3>1. auth' \in Auth
            BY <1>6, <2>1, <2>2, ResponseType DEF RxUnauthorized, RegisterAuth, Uri
        <3>2. /\ hdr' \in Header /\ peer' \in Peer /\ timer' \in [Timers -> BOOLEAN]
              /\ lost' \subseteq {"command", "reregister"}
              /\ sm' = sm /\ open' = open /\ event' = "none"
            BY <1>1, <1>2, <1>6, <2>2, TimersTyped
            DEF RxUnauthorized, RegisterAuth, TypeOK
        <3> QED
            BY <3>1, <3>2 DEF TypeOK, RestTyped, Events
    <2>3. CASE sm = "calling"
        <3>1. auth' \in Auth
            <4>1. auth' = [response |-> Response("INVITE", hdr.uri, p.nonce),
                           nonce |-> p.nonce]
                BY <1>6, <2>3 DEF RxUnauthorized, SendInviteAuth
            <4>2. hdr.uri \in Uri
                BY DEF TypeOK, Header
            <4> QED BY <2>1, <4>1, <4>2, ResponseType
        <3>2. hdr' \in Header
            BY <1>2, <1>6, <2>3 DEF RxUnauthorized, SendInviteAuth, Header
        <3> QED
            BY <1>1, <1>6, <2>3, <3>1, <3>2, TimersTyped
            DEF RxUnauthorized, SendInviteAuth, TypeOK, RestTyped, Events
    <2>4. CASE sm \notin {"waiting_for_auth_reply", "calling"}
        <3>1. auth' \in Auth
            BY <1>6, <2>1, <2>4 DEF RxUnauthorized, TypeOK, Auth
        <3> QED
            BY <1>1, <1>6, <2>4, <3>1, TimersTyped
            DEF RxUnauthorized, Silent, TypeOK, RestTyped, Events
    <2> QED BY <2>2, <2>3, <2>4
<1>7. CASE RxOk(p)
    <2>1. CASE sm = "waiting_for_auth_reply"
        <3>1. hdr' \in Header
            BY <1>2, <1>7, <2>1 DEF RxOk, IsRegistered, Header, Uri
        <3> QED
            BY <1>1, <1>7, <2>1, <3>1, TimersTyped, NoCredentialsType
            DEF RxOk, IsRegistered, ForgetCredentials, Silent, TypeOK, RestTyped,
                States, Events
    <2>2. CASE sm \in {"calling", "call_established"}
        BY <1>1, <1>7, <2>2, TimersTyped
        DEF RxOk, CallEstablished, Silent, TypeOK, RestTyped, States, Events
    <2>3. CASE sm \notin {"waiting_for_auth_reply", "calling", "call_established"}
        BY <1>1, <1>3, <1>7, <2>3 DEF RxOk
    <2> QED BY <2>1, <2>2, <2>3
<1>8. CASE RxRequestCancelled(p)
    <2>1. CASE sm \in EndedBy487
        <3>1. hdr' \in Header
            BY <1>2, <1>8, <2>1, RedrawnType DEF RxRequestCancelled, CallCancelled
        <3> QED
            BY <1>1, <1>8, <2>1, <3>1, TimersTyped
            DEF RxRequestCancelled, CallCancelled, TypeOK, RestTyped, States, Events
    <2>2. CASE sm \notin EndedBy487
        BY <1>1, <1>3, <1>8, <2>2 DEF RxRequestCancelled
    <2> QED BY <2>1, <2>2
<1>9. CASE RxDeclined(p)
    <2>1. hdr' \in Header
        BY <1>2, <1>9 DEF RxDeclined, Header
    <2> QED
        BY <1>1, <1>9, <2>1, TimersTyped
        DEF RxDeclined, CallDeclined, TypeOK, RestTyped, States, Events
<1>10. CASE RxBye(p)
    <2>1. CASE sm = "call_established"
        BY <1>1, <1>2, <1>10, <2>1, TimersTyped
        DEF RxBye, HandleBye, TypeOK, RestTyped, States, Events
    <2>2. CASE sm # "call_established"
        BY <1>1, <1>3, <1>10, <2>2 DEF RxBye
    <2> QED BY <2>1, <2>2
<1>11. CASE RxInvite(p)
    <2>1. CASE sm = "registered"
        BY <1>1, <1>11, <2>1, TimersTyped
        DEF RxInvite, HandleInvite, TypeOK, RestTyped, States, Events
    <2>2. CASE sm # "registered"
        BY <1>1, <1>3, <1>11, <2>2 DEF RxInvite
    <2> QED BY <2>1, <2>2
<1>12. CASE RxInviteFromSelf(p)
    BY <1>1, <1>3, <1>12 DEF RxInviteFromSelf
<1>13. CASE RxInfoDtmf(p)
    BY <1>1, <1>13, TimersTyped DEF RxInfoDtmf, TypeOK, RestTyped, Events
<1>14. CASE RxOther(p)
    BY <1>1, <1>3, <1>14 DEF RxOther
<1> QED
    BY <1>4, <1>5, <1>6, <1>7, <1>8, <1>9, <1>10, <1>11, <1>12, <1>13, <1>14 DEF Rx

LEMMA TypeStep == TypeOK /\ [Next]_vars => TypeOK'
<1> SUFFICES ASSUME TypeOK, [Next]_vars PROVE TypeOK'
    OBVIOUS
<1>1. CASE UNCHANGED vars
    BY <1>1 DEF vars, TypeOK
<1>2. CASE Next
    BY <1>2, TypeQueue, TypeHandle, TypeRest, TypeRx DEF Next, RunsHandler
<1> QED BY <1>1, <1>2

\* The variables keep their types: the sequence number wraps at SeqModulus and
\* the queue respects its bound.
THEOREM TypeCorrect == Spec => []TypeOK
BY TypeInit, TypeStep, PTL DEF Spec
-----------------------------------------------------------------------------
(* The ACK of a call being placed *)

\* A step out of "calling" sends at most one ACK, with the header of that state.
LEMMA AckStep ==
    ASSUME Next, sm = "calling", NEW m \in ToSet(tx'), m.method = "ACK"
    PROVE  m.hdr = hdr
<1>1. CASE tx' = <<>>
    BY <1>1, SentSets
<1>2. ASSUME NEW x, tx' = <<x>>, x.method # "ACK"
      PROVE  FALSE
    BY <1>2, SentSets
<1>3. ASSUME NEW h, NEW a, tx' = <<Register(h, a)>> \/ tx' = <<Invite(h, a)>>
                           \/ tx' = <<Cancel(h, a)>>
      PROVE  FALSE
    BY <1>2, <1>3, RequestFields DEF Cancel, Request
<1>4. ASSUME tx' = <<Reply("200 OK")>> \/ tx' = <<Reply("603 Decline")>>
      PROVE  FALSE
    BY <1>2, <1>4, RequestFields
<1>5. ASSUME NEW p, tx' = <<Ack(hdr, p)>>
      PROVE  m.hdr = hdr
    <2>1. m = Ack(hdr, p)
        BY <1>5, SentSets
    <2>2. Ack(hdr, p).hdr = hdr
        BY DEF Ack, Request
    <2> QED BY <2>1, <2>2
<1>6. CASE \/ Start \/ StartHalf \/ Deinit \/ RequestRing \/ RequestCancel
           \/ DatagramArrives \/ \E t \in Timers : TimerExpires(t)
    BY <1>1, <1>6
    DEF Start, StartHalf, Deinit, RequestRing, RequestCancel, DatagramArrives, TimerExpires,
        Post, Silent
<1>7. CASE Handle
    <2>1. CASE HandleStart
        BY <1>1, <1>3, <2>1 DEF HandleStart, BeginRegistration, RegisterUnauth, Drop, Silent
    <2>2. CASE HandleReplyTimeout
        BY <1>1, <1>3, <2>2
        DEF HandleReplyTimeout, BeginRegistration, RegisterUnauth, Drop, Silent
    <2>3. CASE HandleReregister
        BY <1>1, <1>3, <2>3
        DEF HandleReregister, BeginRegistration, RegisterUnauth, Drop, Silent
    <2>4. CASE HandleRequestCall
        BY <1>1, <2>4 DEF HandleRequestCall, Drop, Silent
    <2>5. CASE HandleCancelCall
        BY <1>3, <2>5 DEF HandleCancelCall, CancelCall
    <2> QED BY <1>7, <2>1, <2>2, <2>3, <2>4, <2>5 DEF Handle
<1>8. ASSUME NEW p \in Packet, Rx(p)
      PROVE  m.hdr = hdr
    <2>1. CASE RxUnauthorized(p)
        <3>1. PICK h, a : tx' = <<Ack(hdr, peer'), Invite(h, a)>>
            BY <2>1 DEF RxUnauthorized, SendInviteAuth
        <3> DEFINE x == Ack(hdr, peer')
                   y == Invite(h, a)
        <3>2. x.hdr = hdr /\ y.method # "ACK"
            BY DEF Ack, Invite, Request
        <3> HIDE DEF x, y
        <3>3. m = x \/ m = y
            BY <3>1, SentSets DEF x, y
        <3> QED BY <3>2, <3>3
    <2>2. CASE RxOk(p) \/ RxRequestCancelled(p) \/ RxDeclined(p)
        <3>1. tx' = <<Ack(hdr, peer')>>
            BY <2>2
            DEF RxOk, CallEstablished, RxRequestCancelled, EndedBy487, CallCancelled, RxDeclined
        <3> QED BY <1>5, <3>1
    <2>3. CASE RxUnparsable(p) \/ RxServerError(p)
        BY <1>1, <2>3 DEF RxUnparsable, Drop, Silent, RxServerError, Stay
    <2>4. CASE RxBye(p) \/ RxInvite(p) \/ RxInviteFromSelf(p) \/ RxInfoDtmf(p)
        BY <1>4, <2>4 DEF RxBye, RxInvite, RxInviteFromSelf, RxInfoDtmf, Stay
    <2>5. CASE RxOther(p)
        BY <1>1, <1>4, <2>5 DEF RxOther, Stay
    <2> QED BY <1>8, <2>1, <2>2, <2>3, <2>4, <2>5 DEF Rx
<1>9. CASE RestOfRx
    BY <1>1, <1>4, <1>9
    DEF RestOfRx, RestOfBye, RestOfInvite, RestOfInviteFromSelf, RestOfInfoDtmf
<1> QED
    BY <1>6, <1>7, <1>8, <1>9 DEF Next, RunsHandler

\* Every ACK sent while a call is being placed names the INVITE it answers for.
THEOREM AcksMatchInvites == Spec => AckMatchesInvite
<1>1. CancelInv /\ [Next]_vars =>
          [sm = "calling" =>
              \A m \in ToSet(tx') : m.method = "ACK" => m.hdr = invite.hdr]_vars
    <2> SUFFICES ASSUME CancelInv, Next, sm = "calling",
                        NEW m \in ToSet(tx'), m.method = "ACK"
                 PROVE  m.hdr = invite.hdr
        BY DEF vars
    <2>1. m.hdr = hdr
        BY AckStep
    <2>2. invite.hdr = hdr
        <3>1. invite = Invite(hdr, auth)
            BY DEF CancelInv, InviteCurrent
        <3>2. Invite(hdr, auth).hdr = hdr
            BY DEF Invite, Request
        <3> QED BY <3>1, <3>2
    <2> QED BY <2>1, <2>2
<1> QED
    BY <1>1, CancelInvInit, CancelInvStep, PTL DEF Spec, AckMatchesInvite
-----------------------------------------------------------------------------
(* The call its event handlers are told of *)

LEMMA CallOfValues ==
    /\ \A s \in {"idle", "waiting_for_auth_reply", "registered", "idle_s", "X"} :
           CallOf(s) = "none"
    /\ \A s \in {"calling", "cancelling"} : CallOf(s) = "ringing"
    /\ CallOf("call_established") = "talking"
BY DEF CallOf

LEMMA CallsInit == Init => Calls!Init
BY CallOfValues DEF Init, Calls!Init

\* A step that reports nothing and keeps the machine's state is Quiet; a state
\* change with nothing to report either starts or abandons a call.
LEMMA CallsQuiet ==
    ASSUME event' = "none", sm' = sm
    PROVE  Calls!Next
BY DEF Calls!Next, Calls!Quiet

LEMMA CallsRegistration ==
    ASSUME TypeOK, NEW from, BeginRegistration(from),
           sm \notin {"cancelling"}
    PROVE  Calls!Next
BY CallOfValues
DEF TypeOK, States, BeginRegistration, Calls!Next, Calls!Quiet, Calls!Abandon, Calls!Move

LEMMA CallsStep == TypeOK /\ [Next]_vars => [Calls!Next]_(Calls!vars)
<1> SUFFICES ASSUME TypeOK, Next PROVE Calls!Next
    BY DEF vars, Calls!vars
<1>1. CASE \/ Start \/ StartHalf \/ Deinit \/ RequestRing \/ RequestCancel
           \/ DatagramArrives \/ \E t \in Timers : TimerExpires(t)
    BY <1>1, CallsQuiet
    DEF Start, StartHalf, Deinit, RequestRing, RequestCancel, DatagramArrives, TimerExpires,
        Post, Silent
<1>2. CASE Handle
    <2>1. CASE HandleStart \/ HandleReplyTimeout \/ HandleReregister
        BY <2>1, CallsQuiet, CallsRegistration
        DEF HandleStart, HandleReplyTimeout, HandleReregister, BeginRegistration, Drop, Silent
    <2>2. CASE HandleRequestCall
        BY <2>2, CallsQuiet, CallOfValues
        DEF HandleRequestCall, Drop, Silent, Calls!Next, Calls!Ring, Calls!Move
    <2>3. CASE HandleCancelCall
        BY <2>3, CallsQuiet, CallOfValues
        DEF HandleCancelCall, Drop, Silent, Calls!Next, Calls!Quiet
    <2> QED BY <1>2, <2>1, <2>2, <2>3 DEF Handle
<1>3. ASSUME NEW p \in Packet, Rx(p)
      PROVE  Calls!Next
    <2>1. CASE RxUnparsable(p) \/ RxInviteFromSelf(p) \/ RxOther(p) \/ RxUnauthorized(p)
        BY <2>1, CallsQuiet
        DEF RxUnparsable, RxInviteFromSelf, RxOther, RxUnauthorized, Stay, Drop, Silent
    <2>2. CASE RxServerError(p)
        BY <2>2, CallsQuiet, CallOfValues
        DEF RxServerError, Stay, Silent, Calls!Next, Calls!Quiet
    <2>3. CASE RxOk(p)
        BY <2>3, CallsQuiet, CallOfValues
        DEF RxOk, CallEstablished, Stay, Silent, Calls!Next, Calls!Quiet, Calls!Answered,
            Calls!Abandon, Calls!Move
    <2>4. CASE RxRequestCancelled(p)
        BY <2>4, CallsQuiet, CallOfValues
        DEF RxRequestCancelled, EndedBy487, CallCancelled, Stay, Calls!Next, Calls!Refused,
            Calls!Move
    <2>5. CASE RxDeclined(p)
        BY <2>5, CallsQuiet, CallOfValues
        DEF RxDeclined, CallDeclined, Calls!Next, Calls!Refused, Calls!Move
    <2>6. CASE RxBye(p)
        BY <2>6, CallsQuiet, CallOfValues
        DEF RxBye, HandleBye, Stay, Calls!Next, Calls!HungUp, Calls!Move
    <2>7. CASE RxInvite(p)
        BY <2>7, CallsQuiet, CallOfValues
        DEF RxInvite, HandleInvite, Stay, Calls!Next, Calls!PickUp, Calls!Move
    <2>8. CASE RxInfoDtmf(p)
        BY <2>8 DEF RxInfoDtmf, Calls!Next, Calls!Dtmf
    <2> QED
        BY <1>3, <2>1, <2>2, <2>3, <2>4, <2>5, <2>6, <2>7, <2>8 DEF Rx
<1>4. CASE RestOfRx
    <2>1. CASE RestOfBye
        BY <2>1, CallsQuiet, CallOfValues
        DEF RestOfBye, HandleBye, Calls!Next, Calls!HungUp, Calls!Move
    <2>2. CASE RestOfInvite
        BY <2>2, CallsQuiet, CallOfValues
        DEF RestOfInvite, HandleInvite, Calls!Next, Calls!PickUp, Calls!Move
    <2>3. CASE RestOfInviteFromSelf
        BY <2>3, CallsQuiet DEF RestOfInviteFromSelf
    <2>4. CASE RestOfInfoDtmf
        BY <2>4 DEF RestOfInfoDtmf, Calls!Next, Calls!Dtmf
    <2> QED BY <1>4, <2>1, <2>2, <2>3, <2>4 DEF RestOfRx
<1> QED
    BY <1>1, <1>2, <1>3, <1>4 DEF Next, RunsHandler

\* The client tells the story of every call in order: it implements CallProgress.
THEOREM ClientImplementsCallProgress == Spec => ImplementsCallProgress
BY CallsInit, CallsStep, TypeInit, TypeStep, PTL
DEF Spec, ImplementsCallProgress, Calls!Spec
-----------------------------------------------------------------------------
(* The timers that keep a registration alive *)

\* Taking the head of the queue leaves every other handler in it.
LEMMA TakeOther ==
    ASSUME TypeOK, NEW h, Take(h), NEW x, x # h, Queued(x)
    PROVE  Queued(x)'
<1>1. /\ ready \in Seq(Handlers) /\ ready # <<>> /\ ready[1] = h
      /\ ready' = Tail(ready)
    BY DEF TypeOK, Take
<1>2. PICK i \in 1..Len(ready) : ready[i] = x
    BY <1>1 DEF Queued, ToSet
<1>3. i # 1
    BY <1>1, <1>2
<1>4. i - 1 \in 1..Len(ready') /\ ready'[i - 1] = x
    BY <1>1, <1>2, <1>3
<1>5. ready' \in Seq(Handlers)
    BY <1>1
<1> QED
    BY <1>4, <1>5 DEF Queued, ToSet

\* So does rx, which may have the rest of itself put in the place of the head.
LEMMA TakePacketOther ==
    ASSUME TypeOK, NEW rest \in Rests \union {"none"}, TakePacket(rest),
           NEW x, x # "rx", Queued(x)
    PROVE  Queued(x)'
<1>1. /\ ready \in Seq(Handlers) /\ ready # <<>> /\ ready[1] = "rx"
      /\ ready' = IF rest = "none" THEN Tail(ready) ELSE <<rest>> \o Tail(ready)
    BY DEF TypeOK, TakePacket
<1>2. PICK i \in 1..Len(ready) : ready[i] = x
    BY <1>1 DEF Queued, ToSet
<1>3. i # 1
    BY <1>1, <1>2
<1>4. i - 1 \in 1..Len(Tail(ready)) /\ Tail(ready)[i - 1] = x /\ Tail(ready) \in Seq(Handlers)
    BY <1>1, <1>2, <1>3
<1>5. CASE rest = "none"
    <2>1. ready' = Tail(ready) /\ DOMAIN ready' = 1..Len(ready')
        BY <1>1, <1>4, <1>5
    <2> QED BY <1>4, <2>1 DEF Queued, ToSet
<1>6. CASE rest # "none"
    <2> DEFINE t == Tail(ready)
    <2>1. <<rest>> \in Seq(Handlers) /\ t \in Seq(Handlers) /\ ready' = <<rest>> \o t
        BY <1>1, <1>4, <1>6 DEF Handlers
    <2>2. /\ ready' \in Seq(Handlers) /\ Len(ready') = 1 + Len(t)
          /\ \A j \in 1..Len(t) : ready'[j + 1] = t[j]
        BY <2>1
    <2>3. i - 1 \in 1..Len(t) /\ t[i - 1] = x /\ Len(t) \in Nat
        BY <1>4, <2>1
    <2>4. i \in Int /\ i = (i - 1) + 1
        BY <1>2
    <2> HIDE DEF t
    <2>5. i \in 1..Len(ready')
        BY <2>2, <2>3, <2>4
    <2>6. ready'[i] = x
        BY <2>2, <2>3, <2>4
    <2> QED BY <2>2, <2>5, <2>6 DEF Queued, ToSet
<1> QED BY <1>5, <1>6

\* Queueing a handler keeps those that are queued.
LEMMA EnqueueKeeps ==
    ASSUME TypeOK, NEW h, Enqueue(h)
    PROVE  /\ Queued(h)'
           /\ \A x : Queued(x) => Queued(x)'
<1>1. ready \in Seq(Handlers) /\ ready' = Append(ready, h)
    BY DEF TypeOK, Enqueue
<1>2. /\ Len(ready') = Len(ready) + 1 /\ DOMAIN ready' = 1..Len(ready')
      /\ ready'[Len(ready) + 1] = h
      /\ \A i \in 1..Len(ready) : ready'[i] = ready[i]
    BY <1>1
<1>3. DOMAIN ready = 1..Len(ready) /\ Len(ready) \in Nat
    BY <1>1
<1> QED
    BY <1>2, <1>3 DEF Queued, ToSet

InCallOrRegistered ==
    sm \in {"registered", "calling", "call_established", "cancelling"}

\* RegistrationRenewed must also hold while cancelling to be inductive: a
\* cancelled call ends in "registered".
RenewalAhead ==
    InCallOrRegistered =>
        timer["reregister"] \/ Queued("ev_reregister") \/ "reregister" \in lost

TimerInv == TypeOK /\ RenewalAhead /\ ReplyAwaitedWithTimeout

LEMMA TimerInvInit == Init => TimerInv
BY TypeInit
DEF Init, TimerInv, RenewalAhead, InCallOrRegistered, ReplyAwaitedWithTimeout

\* Queueing a handler disturbs neither half; an expired timer is a queued one.
LEMMA TimerInvQueue ==
    ASSUME TimerInv,
           \/ Start \/ StartHalf \/ Deinit \/ RequestRing \/ RequestCancel
           \/ DatagramArrives \/ \E t \in Timers : TimerExpires(t)
    PROVE  (RenewalAhead /\ ReplyAwaitedWithTimeout)'
<1>1. ASSUME NEW h, Post(h),
             timer["reregister"] => timer'["reregister"] \/ h = "ev_reregister",
             timer["command"] => timer'["command"] \/ h = "ev_reply_timeout"
      PROVE  (RenewalAhead /\ ReplyAwaitedWithTimeout)'
    BY <1>1, EnqueueKeeps
    DEF Post, TimerInv, RenewalAhead, InCallOrRegistered, ReplyAwaitedWithTimeout
<1>2. CASE Start \/ RequestRing \/ RequestCancel \/ DatagramArrives
    BY <1>1, <1>2 DEF Start, RequestRing, RequestCancel, DatagramArrives
<1>3. CASE StartHalf \/ Deinit
    BY <1>3
    DEF StartHalf, Deinit, TimerInv, RenewalAhead, InCallOrRegistered, ReplyAwaitedWithTimeout, Queued
<1>4. ASSUME NEW t \in Timers, TimerExpires(t)
      PROVE  (RenewalAhead /\ ReplyAwaitedWithTimeout)'
    BY <1>1, <1>4 DEF TimerExpires, Timers, Expiry, TimerInv, TypeOK
<1> QED
    BY <1>2, <1>3, <1>4

\* A step that leaves the two handlers that matter where they are.
ExpiriesStay ==
    /\ Queued("ev_reregister") => Queued("ev_reregister")'
    /\ Queued("ev_reply_timeout") => Queued("ev_reply_timeout")'

\* What such a handler may do.
LEMMA TimerInvStays ==
    ASSUME TimerInv, ExpiriesStay,
           InCallOrRegistered' =>
               \/ InCallOrRegistered /\ (timer["reregister"] => timer'["reregister"])
                                     /\ ("reregister" \in lost => "reregister" \in lost')
               \/ timer'["reregister"],
           sm' = "waiting_for_auth_reply" =>
               \/ timer'["command"]
               \/ sm = "waiting_for_auth_reply" /\ UNCHANGED <<timer, lost>>
               \/ "command" \in lost'
    PROVE  (RenewalAhead /\ ReplyAwaitedWithTimeout)'
BY DEF TimerInv, RenewalAhead, ReplyAwaitedWithTimeout, InCallOrRegistered, ExpiriesStay

LEMMA ExpiriesStayTake ==
    ASSUME TimerInv, NEW h, Take(h), h \notin {"ev_reregister", "ev_reply_timeout"}
    PROVE  ExpiriesStay
BY TakeOther DEF TimerInv, ExpiriesStay

LEMMA TimerInvHandle == TimerInv /\ Handle => (RenewalAhead /\ ReplyAwaitedWithTimeout)'
<1> SUFFICES ASSUME TimerInv, Handle PROVE (RenewalAhead /\ ReplyAwaitedWithTimeout)'
    OBVIOUS
<1>0. timer \in [Timers -> BOOLEAN] /\ "command" \in Timers /\ "reregister" \in Timers
    BY DEF TimerInv, TypeOK, Timers
<1>1. ASSUME NEW from, BeginRegistration(from)
      PROVE  sm' = "waiting_for_auth_reply" /\ timer'["command"] /\ ~InCallOrRegistered'
    BY <1>0, <1>1
    DEF BeginRegistration, RegisterUnauth, CommandTimerArmed, InCallOrRegistered
<1>2. CASE HandleStart
    BY <1>1, <1>2, ExpiriesStayTake, TimerInvStays DEF HandleStart, Drop, InCallOrRegistered
<1>3. CASE HandleReplyTimeout
    <2>1. CASE sm = "waiting_for_auth_reply"
        BY <1>1, <1>3, <2>1 DEF HandleReplyTimeout, RenewalAhead, ReplyAwaitedWithTimeout
    <2>2. CASE sm # "waiting_for_auth_reply"
        <3>1. Take("ev_reply_timeout") /\ UNCHANGED <<sm, timer, lost>>
            BY <1>3, <2>2 DEF HandleReplyTimeout, BeginRegistration, Drop
        <3>2. Queued("ev_reregister") => Queued("ev_reregister")'
            BY <3>1, TakeOther DEF TimerInv
        <3> QED
            BY <2>2, <3>1, <3>2
            DEF TimerInv, RenewalAhead, InCallOrRegistered, ReplyAwaitedWithTimeout
    <2> QED BY <2>1, <2>2
<1>4. CASE HandleReregister
    <2>1. CASE sm = "registered"
        BY <1>1, <1>4, <2>1 DEF HandleReregister, RenewalAhead, ReplyAwaitedWithTimeout
    <2>2. CASE sm \in {"calling", "call_established"}
        <3>1. sm' = sm /\ timer'["reregister"]
            BY <1>0, <1>4, <2>2 DEF HandleReregister, BeginRegistration, ScheduleReregister
        <3> QED BY <2>2, <3>1 DEF RenewalAhead, ReplyAwaitedWithTimeout
    <2>3. CASE sm \notin {"registered", "calling", "call_established"}
        <3>1. /\ Take("ev_reregister") /\ UNCHANGED <<sm, timer>>
              /\ lost' = IF sm = "cancelling" THEN lost \union {"reregister"} ELSE lost
            BY <1>4, <2>3 DEF HandleReregister, BeginRegistration, Drop
        <3>2. Queued("ev_reply_timeout") => Queued("ev_reply_timeout")'
            BY <3>1, TakeOther DEF TimerInv
        <3> QED
            BY <2>3, <3>1, <3>2
            DEF TimerInv, RenewalAhead, InCallOrRegistered, ReplyAwaitedWithTimeout
    <2> QED BY <2>1, <2>2, <2>3
<1>5. CASE HandleRequestCall
    BY <1>5, ExpiriesStayTake, TimerInvStays DEF HandleRequestCall, Drop, InCallOrRegistered
<1>6. CASE HandleCancelCall
    BY <1>6, ExpiriesStayTake, TimerInvStays DEF HandleCancelCall, Drop, InCallOrRegistered
<1> QED
    BY <1>2, <1>3, <1>4, <1>5, <1>6 DEF Handle

LEMMA TimerInvRx ==
    \A p \in Packet : TimerInv /\ Rx(p) => (RenewalAhead /\ ReplyAwaitedWithTimeout)'
<1> SUFFICES ASSUME NEW p \in Packet, TimerInv, Rx(p)
             PROVE  (RenewalAhead /\ ReplyAwaitedWithTimeout)'
    OBVIOUS
<1>0. /\ timer \in [Timers -> BOOLEAN] /\ "command" \in Timers /\ "reregister" \in Timers
      /\ "restart" \in Timers
    BY DEF TimerInv, TypeOK, Timers
<1>1. ExpiriesStay
    <2>1. p.rest \in Rests \union {"none"} /\ TakePacket(p.rest)
        BY DEF Rx, Packet
    <2> QED BY <2>1, TakePacketOther DEF TimerInv, ExpiriesStay
\* A packet takes away the command timer, and no other.
<1>2. /\ CommandTimerOff["reregister"] = timer["reregister"]
      /\ [CommandTimerOff EXCEPT !["restart"] = TRUE]["reregister"] = timer["reregister"]
      /\ ScheduleReregister(CommandTimerOff)["reregister"] = TRUE
      /\ CommandTimerArmed["command"] = TRUE
    BY <1>0 DEF CommandTimerOff, ScheduleReregister, CommandTimerArmed
<1>3. ASSUME UNCHANGED sm, timer' = CommandTimerOff, lost' = CommandTimerLost
      PROVE  (RenewalAhead /\ ReplyAwaitedWithTimeout)'
    BY <1>1, <1>2, <1>3, TimerInvStays DEF CommandTimerLost, InCallOrRegistered
<1>4. ASSUME NEW sent, Stay(sent)
      PROVE  (RenewalAhead /\ ReplyAwaitedWithTimeout)'
    BY <1>3, <1>4 DEF Stay
\* A packet that moves the machine from one of these states to another.
<1>5. ASSUME InCallOrRegistered, sm' # "waiting_for_auth_reply",
             timer' = CommandTimerOff, lost' = lost
      PROVE  (RenewalAhead /\ ReplyAwaitedWithTimeout)'
    BY <1>1, <1>2, <1>5, TimerInvStays DEF InCallOrRegistered
<1>6. CASE RxUnparsable(p)
    BY <1>1, <1>6, TimerInvStays DEF RxUnparsable, Drop, InCallOrRegistered
<1>7. CASE RxServerError(p)
    <2>1. CASE sm = "waiting_for_auth_reply"
        BY <1>7, <2>1
        DEF RxServerError, RenewalAhead, InCallOrRegistered, ReplyAwaitedWithTimeout
    <2>2. CASE sm # "waiting_for_auth_reply"
        BY <1>4, <1>7, <2>2 DEF RxServerError
    <2> QED BY <2>1, <2>2
<1>8. CASE RxUnauthorized(p)
    <2>1. CASE sm = "waiting_for_auth_reply"
        <3>1. sm' = "waiting_for_auth_reply" /\ timer'["command"]
            BY <1>2, <1>8, <2>1 DEF RxUnauthorized, RegisterAuth
        <3> QED
            BY <3>1 DEF RenewalAhead, InCallOrRegistered, ReplyAwaitedWithTimeout
    <2>2. CASE sm # "waiting_for_auth_reply"
        <3>1. UNCHANGED <<sm, lost>> /\ timer' = CommandTimerOff
            BY <1>8, <2>2 DEF RxUnauthorized
        <3> QED BY <1>3, <2>2, <3>1 DEF CommandTimerLost
    <2> QED BY <2>1, <2>2
<1>9. CASE RxOk(p)
    <2>1. CASE sm = "waiting_for_auth_reply"
        <3>1. sm' = "registered" /\ timer'["reregister"]
            BY <1>2, <1>9, <2>1 DEF RxOk
        <3> QED BY <3>1 DEF RenewalAhead, ReplyAwaitedWithTimeout
    <2>2. CASE sm \in {"calling", "call_established"}
        BY <1>5, <1>9, <2>2 DEF RxOk, InCallOrRegistered
    <2>3. CASE sm \notin {"waiting_for_auth_reply", "calling", "call_established"}
        BY <1>4, <1>9, <2>3 DEF RxOk
    <2> QED BY <2>1, <2>2, <2>3
<1>10. CASE RxRequestCancelled(p)
    BY <1>4, <1>5, <1>10 DEF RxRequestCancelled, EndedBy487, InCallOrRegistered
<1>11. CASE RxDeclined(p)
    <2>1. CASE sm = "calling"
        BY <1>5, <1>11, <2>1 DEF RxDeclined, InCallOrRegistered, CommandTimerLost
    <2>2. CASE sm # "calling"
        BY <1>3, <1>11, <2>2 DEF RxDeclined
    <2> QED BY <2>1, <2>2
<1>12. CASE RxBye(p)
    BY <1>4, <1>5, <1>12 DEF RxBye, InCallOrRegistered
<1>13. CASE RxInvite(p)
    BY <1>4, <1>5, <1>13 DEF RxInvite, InCallOrRegistered
<1>14. CASE RxInviteFromSelf(p)
    BY <1>4, <1>14 DEF RxInviteFromSelf
<1>15. CASE RxInfoDtmf(p)
    BY <1>3, <1>15 DEF RxInfoDtmf
<1>16. CASE RxOther(p)
    BY <1>4, <1>16 DEF RxOther
<1> QED
    BY <1>6, <1>7, <1>8, <1>9, <1>10, <1>11, <1>12, <1>13, <1>14, <1>15, <1>16 DEF Rx

LEMMA TimerInvRest == TimerInv /\ RestOfRx => (RenewalAhead /\ ReplyAwaitedWithTimeout)'
<1> SUFFICES ASSUME TimerInv, RestOfRx PROVE (RenewalAhead /\ ReplyAwaitedWithTimeout)'
    OBVIOUS
<1>1. PICK h \in Rests : Take(h)
    BY DEF RestOfRx, RestOfBye, RestOfInvite, RestOfInviteFromSelf, RestOfInfoDtmf, Rests
<1>2. /\ InCallOrRegistered' => InCallOrRegistered
      /\ sm' = "waiting_for_auth_reply" => sm = "waiting_for_auth_reply"
      /\ UNCHANGED <<timer, lost>>
    BY DEF RestOfRx, RestOfBye, RestOfInvite, RestOfInviteFromSelf, RestOfInfoDtmf,
           InCallOrRegistered
<1> QED
    BY <1>1, <1>2, ExpiriesStayTake, TimerInvStays DEF Rests

LEMMA TimerInvStep == TimerInv /\ [Next]_vars => TimerInv'
<1> SUFFICES ASSUME TimerInv, [Next]_vars PROVE TimerInv'
    OBVIOUS
<1>1. CASE UNCHANGED vars
    BY <1>1
    DEF vars, TimerInv, TypeOK, RenewalAhead, InCallOrRegistered,
        ReplyAwaitedWithTimeout, Queued
<1>2. CASE Next
    <2>1. TypeOK'
        BY TypeStep DEF TimerInv
    <2>2. (RenewalAhead /\ ReplyAwaitedWithTimeout)'
        BY <1>2, TimerInvQueue, TimerInvHandle, TimerInvRest, TimerInvRx
        DEF Next, RunsHandler
    <2> QED BY <2>1, <2>2 DEF TimerInv
<1> QED BY <1>1, <1>2

\* A registered client never forgets to register again, except for a timer that
\* expires while it is cancelling a call.
THEOREM RegistrationIsRenewed == Spec => []RegistrationRenewed
<1>1. TimerInv => RegistrationRenewed
    BY DEF TimerInv, RenewalAhead, InCallOrRegistered, RegistrationRenewed
<1> QED
    BY <1>1, TimerInvInit, TimerInvStep, PTL DEF Spec

\* A client that awaits the reply to a REGISTER has a timeout to end the wait,
\* unless a packet that was not the reply has cancelled it.
THEOREM ReplyIsAwaitedWithTimeout == Spec => []ReplyAwaitedWithTimeout
<1>1. TimerInv => ReplyAwaitedWithTimeout
    BY DEF TimerInv
<1> QED
    BY <1>1, TimerInvInit, TimerInvStep, PTL DEF Spec
-----------------------------------------------------------------------------
(* Credentials *)

\* Where a REGISTER's response must be gone.
Registered == {"registered", "calling", "call_established", "cancelling", "X"}

\* NoRegisterCredentialsInCall is about what is sent, and not inductive: an INVITE
\* is sent with what the client has kept since it was registered.
Forgotten == sm \in Registered => auth.response.method # "REGISTER"

CredentialsInv == Forgotten /\ NoRegisterCredentialsInCall

LEMMA CredentialsForgotten == NoCredentials.response.method # "REGISTER"
BY DEF NoCredentials, NoResponse

\* The handler sends neither an INVITE nor a CANCEL.
NoCallRequest == \A m \in ToSet(tx') : m.method # "INVITE" /\ m.method # "CANCEL"

\* The datagrams a handler sends that are neither an INVITE nor a CANCEL.
LEMMA NoCallSent ==
    ASSUME NEW h, NEW a, NEW p,
           \/ tx' = <<>>
           \/ tx' = <<Register(h, a)>>
           \/ tx' = <<Ack(h, p)>>
           \/ tx' = <<Reply("200 OK")>>
           \/ tx' = <<Reply("603 Decline")>>
    PROVE  NoCallRequest
<1>1. ASSUME NEW x, tx' = <<x>>, x.method # "INVITE", x.method # "CANCEL"
      PROVE  NoCallRequest
    <2>1. ToSet(tx') = {x}
        BY <1>1, SentSets
    <2> QED BY <1>1, <2>1 DEF NoCallRequest
<1>2. CASE tx' = <<>>
    BY <1>2, SentSets DEF NoCallRequest
<1> QED
    BY <1>1, <1>2, RequestFields

\* A step keeps the invariant that sends no request of a call, and forgets or
\* keeps the credentials.
LEMMA CredentialsKept ==
    ASSUME CredentialsInv,
           NoCallRequest,
           \/ sm' \notin Registered
           \/ sm \in Registered /\ auth'.response = auth.response
           \/ auth' = NoCredentials
    PROVE  CredentialsInv'
<1>1. Forgotten'
    BY CredentialsForgotten DEF CredentialsInv, Forgotten
<1> QED
    BY <1>1 DEF CredentialsInv, NoRegisterCredentialsInCall, NoCallRequest

LEMMA CredentialsStay ==
    ASSUME CredentialsInv, UNCHANGED <<sm, auth>>,
           \/ tx' = <<>> \/ tx' = <<Reply("200 OK")>> \/ tx' = <<Reply("603 Decline")>>
           \/ tx' = <<Ack(hdr, peer')>>
    PROVE  CredentialsInv'
<1>1. NoCallRequest
    BY NoCallSent
<1>2. sm' \in Registered => sm \in Registered /\ auth'.response = auth.response
    OBVIOUS
<1> QED
    BY <1>1, <1>2, CredentialsKept

\* A message with the credentials the client keeps, sent from a state in which
\* they are no REGISTER's.
LEMMA CredentialsSent ==
    ASSUME NEW x, x.auth.response.method # "REGISTER",
           \/ tx' = <<x>>
           \/ \E h, p : tx' = <<Ack(h, p), x>>,
           auth'.response.method # "REGISTER"
    PROVE  CredentialsInv'
<1>1. \A m \in ToSet(tx') : m = x \/ m.method = "ACK"
    <2>1. CASE tx' = <<x>>
        BY <2>1, SentSets
    <2>2. CASE \E h, p : tx' = <<Ack(h, p), x>>
        <3>1. PICK h, p : tx' = <<Ack(h, p), x>>
            BY <2>2
        <3>2. ToSet(tx') = {Ack(h, p), x}
            BY <3>1, SentSets
        <3>3. Ack(h, p).method = "ACK"
            BY DEF Ack, Request
        <3> QED
            BY <3>2, <3>3
    <2> QED BY <2>1, <2>2
<1> QED
    BY <1>1 DEF CredentialsInv, Forgotten, NoRegisterCredentialsInCall

LEMMA CredentialsInit == Init => CredentialsInv
BY SentSets, CredentialsForgotten
DEF Init, CredentialsInv, Forgotten, NoRegisterCredentialsInCall

LEMMA CredentialsRegistration ==
    ASSUME CredentialsInv, NEW from, BeginRegistration(from)
    PROVE  CredentialsInv'
<1>1. PICK h : tx' = <<Register(h, auth)>>
    BY DEF BeginRegistration, RegisterUnauth
<1>2. NoCallRequest
    BY <1>1, NoCallSent
<1>3. sm' \notin Registered
    BY DEF BeginRegistration, Registered
<1> QED
    BY <1>2, <1>3, CredentialsKept

LEMMA CredentialsHandle == CredentialsInv /\ Handle => CredentialsInv'
<1> SUFFICES ASSUME CredentialsInv, Handle PROVE CredentialsInv'
    OBVIOUS
<1>1. CASE HandleStart
    BY <1>1, CredentialsRegistration, CredentialsStay DEF HandleStart, Drop, Silent
<1>2. CASE HandleReplyTimeout
    BY <1>2, CredentialsRegistration, CredentialsStay
    DEF HandleReplyTimeout, Drop, Silent
<1>3. CASE HandleReregister
    BY <1>3, CredentialsRegistration, CredentialsStay
    DEF HandleReregister, Drop, Silent
<1>4. CASE HandleRequestCall
    <2>1. CASE sm = "registered"
        <3>1. PICK h : tx' = <<Invite(h, auth)>> /\ auth' = auth
            BY <1>4, <2>1 DEF HandleRequestCall, RequestCall, SendInvite
        <3>2. auth.response.method # "REGISTER"
            BY <2>1 DEF CredentialsInv, Forgotten, Registered
        <3>3. Invite(h, auth).auth = auth
            BY DEF Invite, Request
        <3> QED
            BY <3>1, <3>2, <3>3, CredentialsSent
    <2>2. CASE sm # "registered"
        BY <1>4, <2>2, CredentialsStay DEF HandleRequestCall, Drop, Silent
    <2> QED BY <2>1, <2>2
<1>5. CASE HandleCancelCall
    <2>1. CASE sm = "calling"
        <3>1. tx' = <<Cancel(hdr, auth)>> /\ auth' = auth
            BY <1>5, <2>1 DEF HandleCancelCall, CancelCall
        <3>2. auth.response.method # "REGISTER"
            BY <2>1 DEF CredentialsInv, Forgotten, Registered
        <3>3. Cancel(hdr, auth).auth = auth
            BY DEF Cancel, Request
        <3> QED
            BY <3>1, <3>2, <3>3, CredentialsSent
    <2>2. CASE sm # "calling"
        BY <1>5, <2>2, CredentialsStay DEF HandleCancelCall, Drop, Silent
    <2> QED BY <2>1, <2>2
<1> QED
    BY <1>1, <1>2, <1>3, <1>4, <1>5 DEF Handle

\* A challenge leaves its credentials: a REGISTER's while registering, an INVITE's
\* while calling, and elsewhere only its nonce.
LEMMA CredentialsChallenged ==
    ASSUME TypeOK, CredentialsInv, NEW p, RxUnauthorized(p)
    PROVE  CredentialsInv'
<1>1. CASE sm = "waiting_for_auth_reply"
    <2>1. PICK h, a : sm' = sm /\ tx' = <<Register(h, a)>>
        BY <1>1 DEF RxUnauthorized, RegisterAuth
    <2>2. NoCallRequest
        BY <2>1, NoCallSent
    <2>3. sm' \notin Registered
        BY <1>1, <2>1 DEF Registered
    <2> QED
        BY <2>2, <2>3, CredentialsKept
<1>2. CASE sm = "calling"
    <2>1. tx' = <<Ack(hdr, peer'), Invite(hdr', auth')>>
        BY <1>2 DEF RxUnauthorized, SendInviteAuth
    <2>2. auth'.response.method # "REGISTER"
        BY <1>2 DEF RxUnauthorized, SendInviteAuth, Response
    <2>3. Invite(hdr', auth').auth = auth'
        BY DEF Invite, Request
    <2> QED
        BY <2>1, <2>2, <2>3, CredentialsSent
<1>3. CASE sm \notin {"waiting_for_auth_reply", "calling"}
    <2>1. sm' = sm /\ tx' = <<>> /\ auth' = [auth EXCEPT !.nonce = p.nonce]
        BY <1>3 DEF RxUnauthorized, Silent
    <2>2. auth'.response = auth.response
        BY <2>1 DEF TypeOK, Auth
    <2>3. NoCallRequest
        BY <2>1, NoCallSent
    <2> QED
        BY <2>1, <2>2, <2>3, CredentialsKept
<1> QED BY <1>1, <1>2, <1>3

\* A packet that is no challenge is answered with a reply or an ACK, and moves the
\* client within the registered states, or into them without credentials.
LEMMA CredentialsRx ==
    \A p \in Packet : TypeOK /\ CredentialsInv /\ Rx(p) => CredentialsInv'
<1> SUFFICES ASSUME NEW p \in Packet, TypeOK, CredentialsInv, Rx(p) PROVE CredentialsInv'
    OBVIOUS
<1>1. CASE RxUnparsable(p)
    BY <1>1, CredentialsStay DEF RxUnparsable, Drop, Silent
<1>2. ASSUME Stay(<<>>) \/ Stay(<<Reply("200 OK")>>) \/ Stay(<<Reply("603 Decline")>>)
      PROVE  CredentialsInv'
    BY <1>2, CredentialsStay DEF Stay
<1>3. ASSUME \/ tx' = <<>> \/ tx' = <<Reply("200 OK")>> \/ tx' = <<Ack(hdr, peer')>>,
             \/ sm' \notin Registered
             \/ sm \in Registered /\ auth' = auth
             \/ auth' = NoCredentials
      PROVE  CredentialsInv'
    <2>1. NoCallRequest
        BY <1>3, NoCallSent
    <2> QED
        BY <1>3, <2>1, CredentialsKept
<1>4. CASE RxServerError(p)
    BY <1>2, <1>3, <1>4 DEF RxServerError, Silent, Registered
<1>5. CASE RxUnauthorized(p)
    BY <1>5, CredentialsChallenged
<1>6. CASE RxOk(p)
    <2>1. CASE sm \in {"waiting_for_auth_reply", "calling", "call_established"}
        <3>1. tx' = <<>> \/ tx' = <<Ack(hdr, peer')>>
            BY <1>6, <2>1 DEF RxOk, CallEstablished, Silent
        <3>2. \/ sm \in Registered /\ auth' = auth
              \/ auth' = NoCredentials
            BY <1>6, <2>1 DEF RxOk, IsRegistered, ForgetCredentials, Registered
        <3> QED
            BY <3>1, <3>2, <1>3
    <2>2. CASE sm \notin {"waiting_for_auth_reply", "calling", "call_established"}
        BY <1>2, <1>6, <2>2 DEF RxOk
    <2> QED BY <2>1, <2>2
<1>7. CASE RxRequestCancelled(p)
    BY <1>2, <1>3, <1>7 DEF RxRequestCancelled, CallCancelled, EndedBy487, Registered
<1>8. CASE RxDeclined(p)
    BY <1>3, <1>8, CredentialsStay DEF RxDeclined, Registered
<1>9. CASE RxBye(p)
    BY <1>2, <1>3, <1>9 DEF RxBye, Registered
<1>10. CASE RxInvite(p)
    BY <1>2, <1>3, <1>10 DEF RxInvite, Registered
<1>11. CASE RxInviteFromSelf(p)
    BY <1>2, <1>11 DEF RxInviteFromSelf
<1>12. CASE RxInfoDtmf(p)
    BY <1>12, CredentialsStay DEF RxInfoDtmf
<1>13. CASE RxOther(p)
    BY <1>2, <1>13 DEF RxOther
<1> QED
    BY <1>1, <1>4, <1>5, <1>6, <1>7, <1>8, <1>9, <1>10, <1>11, <1>12, <1>13 DEF Rx

\* The rest of rx sends no request, and moves within the registered states.
LEMMA CredentialsRest == CredentialsInv /\ RestOfRx => CredentialsInv'
<1> SUFFICES ASSUME CredentialsInv, RestOfRx PROVE CredentialsInv'
    OBVIOUS
<1>1. /\ tx' = <<>> \/ tx' = <<Reply("200 OK")>> \/ tx' = <<Reply("603 Decline")>>
      /\ sm' \notin Registered \/ sm \in Registered
      /\ auth' = auth
    BY DEF RestOfRx, RestOfBye, RestOfInvite, RestOfInviteFromSelf, RestOfInfoDtmf, Registered
<1>2. NoCallRequest
    BY <1>1, NoCallSent
<1> QED
    BY <1>1, <1>2, CredentialsKept

LEMMA CredentialsQueue ==
    ASSUME CredentialsInv,
           \/ Start \/ StartHalf \/ Deinit \/ RequestRing \/ RequestCancel
           \/ DatagramArrives \/ \E t \in Timers : TimerExpires(t)
    PROVE  CredentialsInv'
BY CredentialsStay
DEF Start, StartHalf, Deinit, RequestRing, RequestCancel, DatagramArrives, TimerExpires,
    Post, Silent

LEMMA CredentialsStep == TypeOK /\ CredentialsInv /\ [Next]_vars => CredentialsInv'
<1> SUFFICES ASSUME TypeOK, CredentialsInv, [Next]_vars PROVE CredentialsInv'
    OBVIOUS
<1>1. CASE UNCHANGED vars
    BY <1>1 DEF vars, CredentialsInv, Forgotten, NoRegisterCredentialsInCall
<1>2. CASE Next
    BY <1>2, CredentialsQueue, CredentialsHandle, CredentialsRest, CredentialsRx
    DEF Next, RunsHandler
<1> QED BY <1>1, <1>2

\* No INVITE and no CANCEL carries the response computed for a REGISTER, however
\* often the client is challenged, restarted or called.
THEOREM CredentialsStayWithRegister == Spec => []NoRegisterCredentialsInCall
<1>1. CredentialsInv => NoRegisterCredentialsInCall
    BY DEF CredentialsInv
<1>2. Spec => []TypeOK
    BY TypeCorrect
<1> QED
    BY <1>1, <1>2, CredentialsInit, CredentialsStep, PTL DEF Spec
-----------------------------------------------------------------------------
(* The ACK of an answer *)

\* What an answer has replaces what was known of the peer.
LEMMA PeerOfAnswer ==
    ASSUME NEW p, peer' = PeerAfter(p)
    PROVE  /\ p.contact # "" => peer'.contact = p.contact
           /\ p.tag # "" => peer'.tag = p.tag
BY DEF PeerAfter

\* Of the packets, only the 200 of a call being placed leads from "calling" to
\* "call_established": rx has stored its contact and tag before it is acknowledged.
LEMMA AnswerStep ==
    ASSUME NEW p \in Packet, Rx(p), sm = "calling", sm' = "call_established"
    PROVE  peer' = PeerAfter(p) /\ tx' = <<Ack(hdr, peer')>>
<1>1. CASE RxOk(p)
    BY <1>1 DEF RxOk, CallEstablished
<1>2. CASE RxUnparsable(p) \/ RxServerError(p) \/ RxUnauthorized(p)
    BY <1>2 DEF RxUnparsable, Drop, RxServerError, RxUnauthorized, Stay
<1>3. CASE RxRequestCancelled(p) \/ RxDeclined(p)
    BY <1>3 DEF RxRequestCancelled, EndedBy487, RxDeclined, Stay
<1>4. CASE RxBye(p) \/ RxInvite(p) \/ RxInviteFromSelf(p)
    BY <1>4 DEF RxBye, RxInvite, RxInviteFromSelf, Stay
<1>5. CASE RxInfoDtmf(p) \/ RxOther(p)
    BY <1>5 DEF RxInfoDtmf, RxOther, Stay
<1> QED BY <1>1, <1>2, <1>3, <1>4, <1>5 DEF Rx

\* An answer is acknowledged at its own contact and with its own tag, whatever was
\* known of another peer before: those are used only if it lacks one.
THEOREM AnswersAreAcknowledged == Spec => AnswerAcknowledgedAtAnswerer
<1>1. ASSUME NEW p \in Packet, Rx(p), sm = "calling", sm' = "call_established"
      PROVE  \E m \in ToSet(tx') :
                 /\ m.method = "ACK"
                 /\ p.contact # "" => m.uri = p.contact
                 /\ p.tag # "" => m.toTag = p.tag
    <2> DEFINE a == Ack(hdr, peer')
    <2>1. a.method = "ACK" /\ a.toTag = peer'.tag
        BY DEF Ack, Request
    <2>2. peer'.contact # "" => a.uri = peer'.contact
        BY DEF Ack, Request
    <2>3. /\ p.contact # "" => peer'.contact = p.contact
          /\ p.tag # "" => peer'.tag = p.tag
        BY <1>1, AnswerStep, PeerOfAnswer
    <2>4. a \in ToSet(tx')
        BY <1>1, AnswerStep, SentSets
    <2> HIDE DEF a
    <2> QED
        BY <2>1, <2>2, <2>3, <2>4
<1>2. [Next]_vars =>
          [sm = "calling" /\ sm' = "call_established" =>
               \A p \in Packet : Rx(p) =>
                   \E m \in ToSet(tx') :
                       /\ m.method = "ACK"
                       /\ p.contact # "" => m.uri = p.contact
                       /\ p.tag # "" => m.toTag = p.tag]_vars
    BY <1>1 DEF vars
<1> QED
    BY <1>2, PTL DEF Spec, AnswerAcknowledgedAtAnswerer
=============================================================================
