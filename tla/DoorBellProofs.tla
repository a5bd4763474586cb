--------------------------- MODULE DoorBellProofs ---------------------------
(***************************************************************************)
(* The client in the door bell is the client of SipClient, so its theorems *)
(* hold there; and a phone that rings for the bell is timed.               *)
(***************************************************************************)
EXTENDS DoorBell, SipClientProofs, SequenceTheorems

LEMMA BellStepIsClientStep == [BellNext]_bellVars => [Next]_vars
<1>1. ASSUME NEW r, Posted(r) PROVE [Next]_vars
    BY <1>1 DEF Posted, Next
<1> QED
    BY <1>1
    DEF BellNext, PressBell, ButtonReceives, ButtonTimesOut, ClientStep,
        Surroundings, Next, bellVars

\* Composition leaves the client what it is: whatever the button does, the
\* client's part of the state moves as SipClient says.
THEOREM ClientInDoorBell == BellSpec => Spec
<1>1. BellInit => Init
    BY DEF BellInit
<1> QED
    BY <1>1, BellStepIsClientStep, PTL DEF BellSpec, Spec
-----------------------------------------------------------------------------
(* Requests that are followed by a cancel *)

\* Behind every queued ring there is a queued cancel.
CancelBehind(q) ==
    \E j \in 1..Len(q) :
        /\ q[j] = "ev_cancel_call"
        /\ \A i \in 1..Len(q) : q[i] = "ev_request_call" => i < j

LEMMA AppendCancel ==
    ASSUME NEW q \in Seq(Handlers)
    PROVE  CancelBehind(Append(q, "ev_cancel_call"))
<1> DEFINE r == Append(q, "ev_cancel_call")
<1>1. Len(q) \in Nat /\ Len(r) = Len(q) + 1 /\ r[Len(r)] = "ev_cancel_call"
    OBVIOUS
<1> HIDE DEF r
<1>2. Len(r) \in 1..Len(r)
    BY <1>1
<1>3. \A i \in 1..Len(r) : r[i] = "ev_request_call" => i < Len(r)
    BY <1>1
<1>4. CancelBehind(r)
    BY <1>1, <1>2, <1>3 DEF CancelBehind
<1> QED BY <1>4 DEF r

LEMMA AppendOther ==
    ASSUME NEW q \in Seq(Handlers), NEW h \in Handlers, h # "ev_request_call",
           CancelBehind(q)
    PROVE  CancelBehind(Append(q, h))
<1> DEFINE r == Append(q, h)
<1>1. /\ Len(q) \in Nat /\ Len(r) = Len(q) + 1 /\ r[Len(q) + 1] = h
      /\ \A i \in 1..Len(q) : r[i] = q[i]
    OBVIOUS
<1> HIDE DEF r
<1>2. PICK j \in 1..Len(q) :
          /\ q[j] = "ev_cancel_call"
          /\ \A i \in 1..Len(q) : q[i] = "ev_request_call" => i < j
    BY DEF CancelBehind
<1>3. j \in 1..Len(r) /\ r[j] = "ev_cancel_call"
    BY <1>1, <1>2
<1>4. \A i \in 1..Len(r) : r[i] = "ev_request_call" => i < j
    BY <1>1, <1>2
<1>5. CancelBehind(r)
    BY <1>3, <1>4 DEF CancelBehind
<1> QED BY <1>5 DEF r

\* Taking the head keeps the cancel behind the requests, unless it was the head,
\* and then no request is left.
LEMMA TailKeeps ==
    ASSUME NEW q \in Seq(Handlers), q # <<>>, CancelBehind(q)
    PROVE  \/ CancelBehind(Tail(q))
           \/ /\ Head(q) = "ev_cancel_call"
              /\ \A i \in 1..Len(Tail(q)) : Tail(q)[i] # "ev_request_call"
<1> DEFINE r == Tail(q)
<1>1. /\ Len(q) \in Nat /\ Len(q) > 0 /\ Len(r) = Len(q) - 1
      /\ \A i \in 1..Len(r) : r[i] = q[i + 1]
      /\ Head(q) = q[1]
    OBVIOUS
<1> HIDE DEF r
<1>2. PICK j \in 1..Len(q) :
          /\ q[j] = "ev_cancel_call"
          /\ \A i \in 1..Len(q) : q[i] = "ev_request_call" => i < j
    BY DEF CancelBehind
<1>3. \A i \in 1..Len(r) : r[i] = "ev_request_call" => i + 1 < j
    BY <1>1, <1>2
<1>4. CASE j = 1
    BY <1>1, <1>2, <1>3, <1>4 DEF r
<1>5. CASE j > 1
    <2>1. j - 1 \in 1..Len(r) /\ r[j - 1] = "ev_cancel_call"
        BY <1>1, <1>2, <1>5
    <2>2. \A i \in 1..Len(r) : r[i] = "ev_request_call" => i < j - 1
        BY <1>3
    <2> QED BY <2>1, <2>2 DEF CancelBehind, r
<1> QED BY <1>4, <1>5

\* The rest of rx at the head is neither a request nor a cancel.
LEMMA RestAhead ==
    ASSUME NEW q \in Seq(Handlers), NEW rest \in Rests
    PROVE  /\ <<rest>> \o q \in Seq(Handlers)
           /\ CancelBehind(q) => CancelBehind(<<rest>> \o q)
           /\ \A i \in 1..Len(<<rest>> \o q) :
                  (<<rest>> \o q)[i] = "ev_request_call" =>
                      i - 1 \in 1..Len(q) /\ q[i - 1] = "ev_request_call"
<1> DEFINE r == <<rest>> \o q
<1>1. rest \in Handlers /\ rest # "ev_request_call"
    BY DEF Handlers, Rests
<1>2. <<rest>> \in Seq(Handlers)
    BY <1>1
<1>3. /\ r \in Seq(Handlers) /\ Len(q) \in Nat /\ Len(r) = Len(q) + 1 /\ r[1] = rest
      /\ \A i \in 1..Len(q) : r[i + 1] = q[i]
    BY <1>2
<1> HIDE DEF r
<1>4. \A i \in 1..Len(r) : r[i] = "ev_request_call" =>
          i - 1 \in 1..Len(q) /\ q[i - 1] = "ev_request_call"
    <2> SUFFICES ASSUME NEW i \in 1..Len(r), r[i] = "ev_request_call"
                 PROVE  i - 1 \in 1..Len(q) /\ q[i - 1] = "ev_request_call"
        OBVIOUS
    <2>1. i # 1
        BY <1>1, <1>3
    <2>2. i - 1 \in 1..Len(q)
        BY <1>3, <2>1
    <2>3. r[(i - 1) + 1] = q[i - 1] /\ (i - 1) + 1 = i
        BY <1>3, <2>2
    <2> QED BY <2>2, <2>3
<1>5. ASSUME CancelBehind(q) PROVE CancelBehind(r)
    <2>1. PICK j \in 1..Len(q) :
              /\ q[j] = "ev_cancel_call"
              /\ \A i \in 1..Len(q) : q[i] = "ev_request_call" => i < j
        BY <1>5 DEF CancelBehind
    <2>2. j + 1 \in 1..Len(r) /\ r[j + 1] = "ev_cancel_call"
        BY <1>3, <2>1
    <2>3. \A i \in 1..Len(r) : r[i] = "ev_request_call" => i < j + 1
        BY <1>3, <1>4, <2>1
    <2> QED BY <2>2, <2>3 DEF CancelBehind
<1> QED BY <1>3, <1>4, <1>5 DEF r

LEMMA QueuedIsElement ==
    ASSUME NEW q \in Seq(Handlers), NEW h
    PROVE  h \in ToSet(q) <=> \E i \in 1..Len(q) : q[i] = h
BY DEF ToSet
-----------------------------------------------------------------------------
(* The inductive invariant *)

\* RingIsTimedUnlessOrphaned says nothing of a ring that is still a request: a
\* request that the button no longer waits for must have its cancel behind it.
RingInv ==
    RingAhead => btn = "sRinging" \/ orphaned \/ CancelBehind(ready)

LEMMA RingInvSuffices ==
    ASSUME TypeOK, RingInv PROVE RingIsTimedUnlessOrphaned
<1>1. CancelBehind(ready) => Queued("ev_cancel_call")
    BY QueuedIsElement DEF CancelBehind, TypeOK, Queued
<1> QED
    BY <1>1 DEF RingInv, RingAhead, RingIsTimedUnlessOrphaned, RingIsTimed

LEMMA RingInvInit == BellInit => RingInv
<1> SUFFICES ASSUME BellInit PROVE RingInv
    OBVIOUS
<1>1. sm = "idle" /\ ready = <<>>
    BY DEF BellInit, Init
<1>2. ~Queued("ev_request_call")
    BY <1>1, SentSets DEF Queued
<1> QED BY <1>1, <1>2 DEF RingInv, RingAhead

\* Posting a handler that is not a request adds no ring.
LEMMA RingInvPost ==
    ASSUME TypeOK, NEW h \in Handlers, Enqueue(h), UNCHANGED sm,
           h # "ev_request_call"
    PROVE  /\ RingAhead' => RingAhead
           /\ CancelBehind(ready) => CancelBehind(ready')
<1>1. ready \in Seq(Handlers) /\ ready' = Append(ready, h)
    BY DEF TypeOK, Enqueue
<1>2. CancelBehind(ready) => CancelBehind(ready')
    BY <1>1, AppendOther
<1>3. Queued("ev_request_call")' => Queued("ev_request_call")
    <2>1. HAVE Queued("ev_request_call")'
    <2>2. ready' \in Seq(Handlers)
        BY <1>1
    <2>3. PICK i \in 1..Len(ready') : ready'[i] = "ev_request_call"
        BY <2>1, <2>2, QueuedIsElement DEF Queued
    <2>4. i \in 1..Len(ready) /\ ready[i] = "ev_request_call"
        BY <1>1, <2>3
    <2> QED BY <1>1, <2>4, QueuedIsElement DEF Queued
<1> QED BY <1>2, <1>3 DEF RingAhead

\* A handler starts a ring only if it is the request for it, and the cancel
\* leaves none.
LEMMA HandlerAndRing ==
    ASSUME TypeOK, RunsHandler
    PROVE  /\ ready # <<>>
           /\ \/ ready' = Tail(ready)
              \/ \E rest \in Rests : ready' = <<rest>> \o Tail(ready)
           /\ sm' = "calling" => sm = "calling" \/ Head(ready) = "ev_request_call"
           /\ sm' = "calling" => Head(ready) # "ev_cancel_call"
<1>1. CASE Handle
    BY <1>1
    DEF Handle, HandleStart, HandleReplyTimeout, HandleReregister,
        HandleRequestCall, HandleCancelCall, BeginRegistration, Drop, Take
<1>2. CASE \E p \in Packet : Rx(p)
    <2>1. PICK p \in Packet : Rx(p)
        BY <1>2
    <2>2. p.rest \in Rests \union {"none"}
        BY DEF Packet
    <2>3. /\ ready # <<>> /\ Head(ready) = "rx"
          /\ \/ ready' = Tail(ready)
             \/ \E rest \in Rests : ready' = <<rest>> \o Tail(ready)
        BY <2>1, <2>2 DEF Rx, TakePacket
    <2>4. sm' = "calling" => sm = "calling"
        BY <2>1
        DEF Rx, RxUnparsable, RxServerError, RxUnauthorized, RxOk,
            RxRequestCancelled, RxDeclined, RxBye, RxInvite, RxInviteFromSelf,
            RxInfoDtmf, RxOther, Drop, Stay
    <2> QED BY <2>3, <2>4
<1>3. CASE RestOfRx
    BY <1>3
    DEF RestOfRx, RestOfBye, RestOfInvite, RestOfInviteFromSelf, RestOfInfoDtmf, Take
<1> QED BY <1>1, <1>2, <1>3 DEF RunsHandler

\* What such a handler leaves of the queue.
LEMMA HandlerLeaves ==
    ASSUME TypeOK, RunsHandler
    PROVE  /\ ready' \in Seq(Handlers)
           /\ CancelBehind(Tail(ready)) => CancelBehind(ready')
           /\ Queued("ev_request_call")' =>
                  \E i \in 1..Len(Tail(ready)) : Tail(ready)[i] = "ev_request_call"
<1> DEFINE t == Tail(ready)
<1>1. t \in Seq(Handlers)
    BY HandlerAndRing DEF TypeOK
<1>2. \/ ready' = t
      \/ \E rest \in Rests : ready' = <<rest>> \o t
    BY HandlerAndRing
<1> HIDE DEF t
<1>3. CASE ready' = t
    BY <1>1, <1>3, QueuedIsElement DEF Queued, t
<1>4. ASSUME NEW rest \in Rests, ready' = <<rest>> \o t
      PROVE  /\ ready' \in Seq(Handlers)
             /\ CancelBehind(t) => CancelBehind(ready')
             /\ Queued("ev_request_call")' => \E i \in 1..Len(t) : t[i] = "ev_request_call"
    <2>1. /\ ready' \in Seq(Handlers)
          /\ CancelBehind(t) => CancelBehind(ready')
          /\ \A i \in 1..Len(ready') : ready'[i] = "ev_request_call" =>
                 i - 1 \in 1..Len(t) /\ t[i - 1] = "ev_request_call"
        BY <1>1, <1>4, RestAhead
    <2>2. ASSUME Queued("ev_request_call")'
          PROVE  \E i \in 1..Len(t) : t[i] = "ev_request_call"
        <3>1. PICK i \in 1..Len(ready') : ready'[i] = "ev_request_call"
            BY <2>1, <2>2, QueuedIsElement DEF Queued
        <3> QED BY <2>1, <3>1
    <2> QED BY <2>1, <2>2
<1> QED BY <1>2, <1>3, <1>4 DEF t

LEMMA RingInvClient ==
    ASSUME TypeOK, RingInv, ClientStep PROVE RingInv'
<1> SUFFICES ASSUME RingAhead' PROVE (btn = "sRinging" \/ orphaned)' \/ CancelBehind(ready')
    BY DEF RingInv
<1>1. /\ ready # <<>> /\ ready \in Seq(Handlers)
      /\ sm' = "calling" => sm = "calling" \/ Head(ready) = "ev_request_call"
      /\ sm' = "calling" => Head(ready) # "ev_cancel_call"
    BY HandlerAndRing DEF ClientStep, TypeOK
<1>2. /\ CancelBehind(Tail(ready)) => CancelBehind(ready')
      /\ Queued("ev_request_call")' =>
             \E i \in 1..Len(Tail(ready)) : Tail(ready)[i] = "ev_request_call"
    BY HandlerLeaves DEF ClientStep
<1>3. RingAhead
    <2>1. CASE sm' = "calling"
        BY <1>1, <2>1, QueuedIsElement DEF RingAhead, Queued
    <2>2. CASE Queued("ev_request_call")'
        <3>1. PICK i \in 1..Len(Tail(ready)) : Tail(ready)[i] = "ev_request_call"
            BY <1>2, <2>2
        <3>2. i + 1 \in 1..Len(ready) /\ ready[i + 1] = "ev_request_call"
            BY <1>1, <3>1
        <3> QED BY <1>1, <3>2, QueuedIsElement DEF RingAhead, Queued
    <2> QED BY <2>1, <2>2 DEF RingAhead
<1>4. btn' = btn /\ (orphaned => orphaned')
    BY DEF ClientStep, bell, Button!CallEnd, Button!Send
<1>5. CASE btn = "sRinging" \/ orphaned
    BY <1>4, <1>5
<1>6. CASE CancelBehind(ready)
    <2>1. CASE CancelBehind(Tail(ready))
        BY <1>2, <2>1
    <2>2. CASE /\ Head(ready) = "ev_cancel_call"
               /\ \A i \in 1..Len(Tail(ready)) : Tail(ready)[i] # "ev_request_call"
        <3>1. sm' # "calling"
            BY <1>1, <2>2
        <3>2. ~Queued("ev_request_call")'
            BY <1>2, <2>2
        <3> QED BY <3>1, <3>2 DEF RingAhead
    <2> QED BY <1>1, <1>6, <2>1, <2>2, TailKeeps
<1> QED BY <1>3, <1>5, <1>6 DEF RingInv

LEMMA RingInvButton ==
    ASSUME TypeOK, orphaned \in BOOLEAN, RingInv, ButtonReceives \/ ButtonTimesOut
    PROVE  RingInv'
<1>1. CASE ButtonTimesOut
    <2>1. /\ request' = "request_cancel" /\ RequestCancel
        BY <1>1 DEF ButtonTimesOut, Posted, Button!Timeout
    <2>2. ready \in Seq(Handlers) /\ ready' = Append(ready, "ev_cancel_call")
        BY <2>1 DEF RequestCancel, Post, Enqueue, TypeOK
    <2> QED BY <2>2, AppendCancel DEF RingInv
<1>2. CASE ButtonReceives
    <2>1. CASE btn = "idle" /\ btn' = "sRinging"
        BY <2>1 DEF RingInv
    <2>2. CASE btn = "sRinging" /\ btn' = "idle"
        <3>1. request' = "none"
            BY <1>2, <2>2 DEF ButtonReceives, Button!Receive
        <3>2. UNCHANGED vars /\ orphaned' = (orphaned \/ RingAhead)
            BY <1>2, <2>2, <3>1 DEF ButtonReceives, Posted
        <3>3. RingAhead' <=> RingAhead
            BY <3>2 DEF vars, RingAhead, Queued
        <3> QED BY <3>2, <3>3 DEF RingInv
    <2>3. CASE btn' = btn /\ request' = "none"
        <3>1. UNCHANGED vars /\ orphaned' = orphaned
            BY <1>2, <2>3 DEF ButtonReceives, Posted
        <3> QED BY <2>3, <3>1 DEF RingInv, RingAhead, Queued, vars
    <2> QED BY <1>2, <2>1, <2>2, <2>3 DEF ButtonReceives, Button!Receive
<1> QED BY <1>1, <1>2

LEMMA RingInvSurroundings ==
    ASSUME TypeOK, RingInv, Surroundings PROVE RingInv'
<1>1. UNCHANGED <<btn, orphaned>>
    BY DEF Surroundings, bell
<1>2. ASSUME NEW h \in Handlers, Post(h), h # "ev_request_call"
      PROVE  RingInv'
    <2>1. Enqueue(h) /\ UNCHANGED sm
        BY <1>2 DEF Post
    <2> QED BY <1>1, <1>2, <2>1, RingInvPost DEF RingInv
<1>3. CASE Start
    BY <1>2, <1>3 DEF Start, Handlers
<1>4. CASE DatagramArrives
    BY <1>2, <1>4 DEF DatagramArrives, Handlers
<1>5. CASE \E t \in Timers : TimerExpires(t)
    <2>1. PICK t \in Timers : Post(Expiry[t])
        BY <1>5 DEF TimerExpires
    <2>2. Expiry[t] \in Handlers /\ Expiry[t] # "ev_request_call"
        BY DEF Timers, Expiry, Handlers
    <2> QED BY <1>2, <2>1, <2>2
<1>6. CASE StartHalf \/ Deinit
    BY <1>1, <1>6 DEF StartHalf, Deinit, RingInv, RingAhead, Queued
<1> QED
    BY <1>3, <1>4, <1>5, <1>6 DEF Surroundings

\* orphaned is TRUE or FALSE.
OrphanedType == orphaned \in BOOLEAN

LEMMA OrphanedTypeStep ==
    OrphanedType /\ [BellNext]_bellVars => OrphanedType'
<1> SUFFICES ASSUME OrphanedType, [BellNext]_bellVars PROVE OrphanedType'
    OBVIOUS
<1> USE DEF OrphanedType
<1>1. CASE ButtonReceives
    <2>1. CASE btn = btn'
        BY <1>1, <2>1 DEF ButtonReceives
    <2>2. CASE btn # btn' /\ btn' = "sRinging"
        BY <1>1, <2>2 DEF ButtonReceives
    <2>3. CASE btn # btn' /\ btn' = "idle"
        <3>1. orphaned' = (orphaned \/ RingAhead)
            BY <1>1, <2>3 DEF ButtonReceives
        <3> QED BY <3>1
    <2> QED BY <1>1, <2>1, <2>2, <2>3 DEF ButtonReceives, Button!Receive
<1>2. CASE ClientStep
    <2>1. orphaned' = (orphaned /\ RingAhead')
        BY <1>2 DEF ClientStep
    <2> QED BY <2>1
<1>3. CASE PressBell \/ ButtonTimesOut \/ Surroundings \/ UNCHANGED bellVars
    BY <1>3 DEF PressBell, ButtonTimesOut, Surroundings, bellVars
<1> QED BY <1>1, <1>2, <1>3 DEF BellNext

BellInv == TypeOK /\ OrphanedType /\ RingInv

LEMMA BellInvStep == BellInv /\ [BellNext]_bellVars => BellInv'
<1> SUFFICES ASSUME BellInv, [BellNext]_bellVars PROVE BellInv'
    OBVIOUS
<1>1. TypeOK'
    BY BellStepIsClientStep, TypeStep DEF BellInv
<1>2. OrphanedType'
    BY OrphanedTypeStep DEF BellInv
<1>3. RingInv'
    <2>1. CASE ClientStep
        BY <2>1, RingInvClient DEF BellInv
    <2>2. CASE ButtonReceives \/ ButtonTimesOut
        BY <2>2, RingInvButton DEF BellInv, OrphanedType
    <2>3. CASE Surroundings
        BY <2>3, RingInvSurroundings DEF BellInv
    <2>4. CASE PressBell \/ UNCHANGED bellVars
        BY <2>4
        DEF PressBell, bellVars, bell, Button!Press, Button!Send, BellInv,
            RingInv, RingAhead, Queued, vars
    <2> QED BY <2>1, <2>2, <2>3, <2>4 DEF BellNext
<1> QED BY <1>1, <1>2, <1>3 DEF BellInv

\* A phone rings timed, or about to be cancelled, unless the button has taken the
\* end of an earlier call for the end of this one: for queues of any length and
\* any number of presses.
THEOREM RingsAreTimed == BellSpec => []RingIsTimedUnlessOrphaned
<1>1. BellInit => BellInv
    BY TypeInit, RingInvInit DEF BellInit, BellInv, OrphanedType
<1>2. BellInv => RingIsTimedUnlessOrphaned
    BY RingInvSuffices DEF BellInv
<1> QED
    BY <1>1, <1>2, BellInvStep, PTL DEF BellSpec
-----------------------------------------------------------------------------
(* Types *)

ButtonType == Button!TypeOK /\ presses \in 0..MaxPresses

\* A full queue loses an event and is not overrun.
LEMMA SendKeepsType ==
    ASSUME Button!TypeOK, NEW e \in Button!Event, Button!Send(e)
    PROVE  Button!TypeOK'
<1>1. /\ queue \in Seq(Button!Event) /\ Len(queue) <= QueueSize
      /\ btn' = btn /\ request' = "none"
    BY DEF Button!TypeOK, Button!Send
<1>2. CASE Len(queue) < QueueSize
    <2>1. queue' = Append(queue, e)
        BY <1>2 DEF Button!Send
    <2>2. queue' \in Seq(Button!Event) /\ Len(queue') = Len(queue) + 1
        BY <1>1, <2>1, AppendProperties
    <2>3. Len(queue') <= QueueSize
        BY <1>1, <1>2, <2>2, LenProperties, DoorBellAssumption
    <2> QED
        BY <1>1, <2>2, <2>3 DEF Button!TypeOK, Button!Request
<1>3. CASE ~(Len(queue) < QueueSize)
    BY <1>1, <1>3 DEF Button!TypeOK, Button!Send, Button!Request
<1> QED
    BY <1>2, <1>3

LEMMA ReceiveKeepsType ==
    ASSUME Button!TypeOK, Button!Receive PROVE Button!TypeOK'
<1>1. /\ queue \in Seq(Button!Event) /\ Len(queue) <= QueueSize
      /\ queue # <<>> /\ queue' = Tail(queue)
    BY DEF Button!TypeOK, Button!Receive
<1>2. queue' \in Seq(Button!Event) /\ Len(queue') = Len(queue) - 1
    BY <1>1, HeadTailProperties
<1>3. Len(queue') <= QueueSize
    BY <1>1, <1>2, LenProperties, DoorBellAssumption
<1>4. btn' \in {"idle", "sRinging"} /\ request' \in Button!Request
    BY DEF Button!TypeOK, Button!Receive, Button!Request
<1> QED
    BY <1>2, <1>3, <1>4 DEF Button!TypeOK

LEMMA ButtonTypeStep == ButtonType /\ [BellNext]_bellVars => ButtonType'
<1> SUFFICES ASSUME ButtonType, [BellNext]_bellVars PROVE ButtonType'
    OBVIOUS
<1>1. Button!TypeOK /\ presses \in 0..MaxPresses
    BY DEF ButtonType
<1>2. CASE PressBell
    <2>1. presses' \in 0..MaxPresses
        BY <1>1, <1>2, DoorBellAssumption DEF PressBell
    <2>2. Button!TypeOK'
        BY <1>1, <1>2, SendKeepsType DEF PressBell, Button!Press, Button!Event
    <2> QED
        BY <2>1, <2>2 DEF ButtonType
<1>3. CASE ButtonReceives
    BY <1>1, <1>3, ReceiveKeepsType DEF ButtonType, ButtonReceives
<1>4. CASE ButtonTimesOut
    BY <1>1, <1>4
    DEF ButtonType, ButtonTimesOut, Button!Timeout, Button!TypeOK, Button!Request
<1>5. CASE ClientStep
    <2>1. presses' = presses
        BY <1>5 DEF ClientStep
    <2>2. CASE Button!CallEnd
        BY <1>1, <2>1, <2>2, SendKeepsType DEF ButtonType, Button!CallEnd, Button!Event
    <2>3. CASE UNCHANGED bell
        BY <1>1, <2>1, <2>3 DEF ButtonType, Button!TypeOK, bell
    <2> QED
        BY <1>5, <2>2, <2>3 DEF ClientStep
<1>6. CASE Surroundings \/ UNCHANGED bellVars
    BY <1>1, <1>6 DEF ButtonType, Button!TypeOK, Surroundings, bell, bellVars
<1> QED
    BY <1>2, <1>3, <1>4, <1>5, <1>6 DEF BellNext

\* Every variable of the two tasks keeps its shape, and the button's queue its length
\* however often the button is pressed and calls end.
THEOREM BellTypes == BellSpec => []BellTypeOK
<1>1. BellInit => BellInv /\ ButtonType
    <2>1. BellInit => BellInv
        BY TypeInit, RingInvInit DEF BellInit, BellInv, OrphanedType
    <2>2. BellInit => ButtonType
        BY DoorBellAssumption, EmptySeq
        DEF BellInit, ButtonType, Button!Init, Button!TypeOK, Button!Request
    <2> QED
        BY <2>1, <2>2
<1>2. BellInv /\ ButtonType => BellTypeOK
    BY DEF BellInv, ButtonType, BellTypeOK, OrphanedType
<1> QED
    BY <1>1, <1>2, BellInvStep, ButtonTypeStep, PTL DEF BellSpec
=============================================================================
