-------------------------- MODULE SipNetworkProofs --------------------------
(* Theorems about SipNetwork, for every value of its constants. *)
EXTENDS SipNetwork, SipClientProofs, SequenceTheorems
-----------------------------------------------------------------------------
(* What the invariant says of a queue q: which of its elements are in S *)

None(q, S) == \A i \in DOMAIN q : q[i] \notin S
One(q, S) == \E i \in DOMAIN q : q[i] \in S /\ \A j \in DOMAIN q : q[j] \in S => j = i
Before(q, S, T) == \A i, j \in DOMAIN q : q[i] \in S /\ q[j] \in T => i < j

\* With x, the queue q becomes r: how the two compare in what is said of them.
Queued1(q, r, x) ==
    /\ \A S : None(r, S) <=> None(q, S) /\ x \notin S
    /\ \A S : x \notin S => (One(r, S) <=> One(q, S))
    /\ \A S : x \in S /\ None(q, S) => One(r, S)
    /\ \A S, T : x \notin S => (Before(r, S, T) <=> Before(q, S, T))

\* Without its head x, the queue q becomes r.
Taken1(q, r, x) ==
    /\ \A S : None(q, S) <=> None(r, S) /\ x \notin S
    /\ \A S : x \notin S => (One(r, S) <=> One(q, S))
    /\ \A S : x \in S /\ One(q, S) => None(r, S)
    /\ \A S, T : Before(q, S, T) => Before(r, S, T)
    /\ \A S, T : Before(q, S, T) /\ x \in T => None(q, S)

LEMMA AppendSays ==
    ASSUME NEW D, NEW q \in Seq(D), NEW x \in D
    PROVE  Append(q, x) \in Seq(D) /\ Queued1(q, Append(q, x), x)
<1> DEFINE r == Append(q, x)
           n == Len(q)
<1>1. /\ r \in Seq(D) /\ n \in Nat /\ DOMAIN q = 1..n /\ DOMAIN r = 1..n + 1
      /\ r[n + 1] = x /\ \A i \in 1..n : r[i] = q[i]
    OBVIOUS
<1> HIDE DEF r, n
<1>2. \A S : None(r, S) <=> None(q, S) /\ x \notin S
    BY <1>1 DEF None
<1>3. \A S : x \notin S => (One(r, S) <=> One(q, S))
    <2> SUFFICES ASSUME NEW S, x \notin S PROVE One(r, S) <=> One(q, S)
        OBVIOUS
    <2>1. \A i \in 1..n + 1 : r[i] \in S => i \in 1..n
        BY <1>1
    <2>2. ASSUME One(r, S) PROVE One(q, S)
        <3>1. PICK i \in 1..n + 1 : r[i] \in S /\ \A j \in 1..n + 1 : r[j] \in S => j = i
            BY <1>1, <2>2 DEF One
        <3>2. i \in 1..n /\ q[i] \in S /\ \A j \in 1..n : q[j] \in S => j = i
            BY <1>1, <2>1, <3>1
        <3> QED BY <1>1, <3>2 DEF One
    <2>3. ASSUME One(q, S) PROVE One(r, S)
        <3>1. PICK i \in 1..n : q[i] \in S /\ \A j \in 1..n : q[j] \in S => j = i
            BY <1>1, <2>3 DEF One
        <3>2. i \in 1..n + 1 /\ r[i] \in S /\ \A j \in 1..n + 1 : r[j] \in S => j = i
            BY <1>1, <2>1, <3>1
        <3> QED BY <1>1, <3>2 DEF One
    <2> QED BY <2>2, <2>3
<1>4. \A S : x \in S /\ None(q, S) => One(r, S)
    <2> SUFFICES ASSUME NEW S, x \in S, None(q, S) PROVE One(r, S)
        OBVIOUS
    <2>1. n + 1 \in 1..n + 1 /\ r[n + 1] \in S /\ \A j \in 1..n + 1 : r[j] \in S => j = n + 1
        BY <1>1 DEF None
    <2> QED BY <1>1, <2>1 DEF One
<1>5. \A S, T : x \notin S => (Before(r, S, T) <=> Before(q, S, T))
    BY <1>1 DEF Before
<1> QED
    BY <1>1, <1>2, <1>3, <1>4, <1>5 DEF Queued1, r

LEMMA TailSays ==
    ASSUME NEW D, NEW q \in Seq(D), q # <<>>
    PROVE  Head(q) \in D /\ Tail(q) \in Seq(D) /\ Taken1(q, Tail(q), Head(q))
<1> DEFINE r == Tail(q)
           x == Head(q)
           n == Len(q)
<1>1. /\ x \in D /\ r \in Seq(D) /\ n \in Nat /\ n > 0 /\ x = q[1]
      /\ DOMAIN q = 1..n /\ DOMAIN r = 1..n - 1
      /\ \A i \in 1..n - 1 : r[i] = q[i + 1]
    OBVIOUS
<1> HIDE DEF r, x, n
<1>2. \A i \in 2..n : i - 1 \in 1..n - 1 /\ r[i - 1] = q[i]
    BY <1>1
<1>3. \A S : None(q, S) <=> None(r, S) /\ x \notin S
    <2> SUFFICES ASSUME NEW S PROVE None(q, S) <=> None(r, S) /\ x \notin S
        OBVIOUS
    <2>1. None(q, S) => None(r, S) /\ x \notin S
        BY <1>1 DEF None
    <2>2. ASSUME None(r, S), x \notin S, NEW i \in 1..n PROVE q[i] \notin S
        <3>1. CASE i = 1
            BY <1>1, <2>2, <3>1
        <3>2. CASE i \in 2..n
            BY <1>1, <1>2, <2>2, <3>2 DEF None
        <3> QED BY <1>1, <3>1, <3>2
    <2> QED BY <1>1, <2>1, <2>2 DEF None
<1>4. \A S : x \notin S => (One(r, S) <=> One(q, S))
    <2> SUFFICES ASSUME NEW S, x \notin S PROVE One(r, S) <=> One(q, S)
        OBVIOUS
    <2>1. \A i \in 1..n : q[i] \in S => i \in 2..n
        BY <1>1
    <2>2. ASSUME One(r, S) PROVE One(q, S)
        <3>1. PICK i \in 1..n - 1 : r[i] \in S /\ \A j \in 1..n - 1 : r[j] \in S => j = i
            BY <1>1, <2>2 DEF One
        <3>2. i + 1 \in 1..n /\ q[i + 1] \in S
            BY <1>1, <3>1
        <3>3. ASSUME NEW j \in 1..n, q[j] \in S PROVE j = i + 1
            <4>1. j - 1 \in 1..n - 1 /\ r[j - 1] \in S
                BY <1>1, <1>2, <2>1, <3>3
            <4>2. j - 1 = i
                BY <3>1, <4>1
            <4> QED BY <4>2, <3>1, <3>3, <1>1
        <3> QED BY <1>1, <3>2, <3>3 DEF One
    <2>3. ASSUME One(q, S) PROVE One(r, S)
        <3>1. PICK i \in 1..n : q[i] \in S /\ \A j \in 1..n : q[j] \in S => j = i
            BY <1>1, <2>3 DEF One
        <3>2. i - 1 \in 1..n - 1 /\ r[i - 1] \in S
            BY <1>2, <2>1, <3>1
        <3>3. ASSUME NEW j \in 1..n - 1, r[j] \in S PROVE j = i - 1
            <4>1. j + 1 \in 1..n /\ q[j + 1] \in S
                BY <1>1, <3>3
            <4>2. j + 1 = i
                BY <3>1, <4>1
            <4> QED BY <4>2, <3>1, <3>3, <1>1
        <3> QED BY <1>1, <3>2, <3>3 DEF One
    <2> QED BY <2>2, <2>3
<1>5. \A S : x \in S /\ One(q, S) => None(r, S)
    <2> SUFFICES ASSUME NEW S, x \in S, One(q, S), NEW j \in 1..n - 1, r[j] \in S PROVE FALSE
        BY <1>1 DEF None
    <2>1. PICK i \in 1..n : \A k \in 1..n : q[k] \in S => k = i
        BY <1>1 DEF One
    <2>2. j + 1 \in 1..n /\ q[j + 1] \in S /\ 1 \in 1..n /\ q[1] \in S
        BY <1>1
    <2> QED BY <2>1, <2>2
<1>6. \A S, T : Before(q, S, T) => Before(r, S, T)
    <2> SUFFICES ASSUME NEW S, NEW T, Before(q, S, T), NEW i \in 1..n - 1, NEW j \in 1..n - 1,
                        r[i] \in S, r[j] \in T
                 PROVE  i < j
        BY <1>1 DEF Before
    <2>1. i + 1 \in 1..n /\ j + 1 \in 1..n /\ q[i + 1] \in S /\ q[j + 1] \in T
        BY <1>1
    <2>2. i + 1 < j + 1
        BY <1>1, <2>1 DEF Before
    <2> QED BY <2>2
<1>7. \A S, T : Before(q, S, T) /\ x \in T => None(q, S)
    <2> SUFFICES ASSUME NEW S, NEW T, Before(q, S, T), x \in T, NEW i \in 1..n, q[i] \in S
                 PROVE  FALSE
        BY <1>1 DEF None
    <2>1. 1 \in 1..n /\ q[1] \in T
        BY <1>1
    <2>2. i < 1
        BY <1>1, <2>1 DEF Before
    <2> QED BY <2>2
<1> QED
    BY <1>1, <1>3, <1>4, <1>5, <1>6, <1>7 DEF Taken1, r, x

\* What is said of one queue, whatever it is.
LEMMA QueueSays ==
    ASSUME NEW q
    PROVE  /\ \A S : One(q, S) => ~None(q, S)
           /\ \A S, T : None(q, S) /\ T \subseteq S => None(q, T)
           /\ \A S, T : None(q, S) /\ None(q, T) => None(q, S \union T)
           /\ \A S, T : One(q, S) /\ T \subseteq S /\ None(q, S \ T) => One(q, T)
           /\ \A S, T : None(q, S) => Before(q, S, T)
           /\ \A S, T : None(q, T) => Before(q, S, T)
<1>1. \A S : One(q, S) => ~None(q, S)
    BY DEF One, None
<1>2. \A S, T : None(q, S) /\ T \subseteq S => None(q, T)
    BY DEF None
<1>3. \A S, T : None(q, S) /\ None(q, T) => None(q, S \union T)
    BY DEF None
<1>4. \A S, T : One(q, S) /\ T \subseteq S /\ None(q, S \ T) => One(q, T)
    <2> SUFFICES ASSUME NEW S, NEW T, One(q, S), T \subseteq S, None(q, S \ T) PROVE One(q, T)
        OBVIOUS
    <2>1. PICK i \in DOMAIN q : q[i] \in S /\ \A j \in DOMAIN q : q[j] \in S => j = i
        BY DEF One
    <2>2. q[i] \in T /\ \A j \in DOMAIN q : q[j] \in T => j = i
        BY <2>1 DEF None
    <2> QED BY <2>1, <2>2 DEF One
<1>5. \A S, T : None(q, S) => Before(q, S, T)
    BY DEF None, Before
<1>6. \A S, T : None(q, T) => Before(q, S, T)
    BY DEF None, Before
<1> QED BY <1>1, <1>2, <1>3, <1>4, <1>5, <1>6

LEMMA EmptySays == \A S : None(<<>>, S) /\ ~One(<<>>, S)
BY DEF None, One
-----------------------------------------------------------------------------
(* What is on its way *)

ReplyKinds == Finals \union {"401"}

\* The requests of the call to the client, and the one that ends a call of the client.
In(kind) == [kind |-> kind, of |-> "inc", call |-> 0]
ByeOf(call) == [kind |-> "BYE", of |-> "out", call |-> call]

Datagrams == [kind : ReplyKinds, of : {"REGISTER", "INVITE", "CANCEL"}, call : Nat]
             \union {In(kind) : kind \in {"INVITE", "BYE", "other request"}}
             \union [kind : {"BYE"}, of : {"out"}, call : Nat]
Messages == [method : {"REGISTER", "INVITE", "CANCEL", "ACK", "200 OK"},
             authorized : BOOLEAN, call : Nat,
             answers : {A \in SUBSET Datagrams : \A d, e \in A : d = e}]

OutStates == Finals \union {"none", "ringing", "talking", "hanging up"}

NetTypeOK ==
    /\ up \in Seq(Messages) /\ down \in Seq(Datagrams)
    /\ out \in [state : OutStates, call : Nat]
    /\ inc \in {"none", "offered", "answered", "hanging up"}
    /\ rings \in Nat /\ callers \in Nat /\ untaken \in BOOLEAN /\ faults \in Nat

LEMMA ReplyType ==
    ASSUME NEW kind \in ReplyKinds, NEW method \in {"REGISTER", "INVITE", "CANCEL"},
           NEW call \in Nat
    PROVE  /\ ReplyTo(kind, method, call) \in Datagrams
           /\ ReplyTo(kind, method, call).kind = kind
           /\ ReplyTo(kind, method, call).of = method
           /\ ReplyTo(kind, method, call).call = call
BY DEF ReplyTo, Datagrams

LEMMA RequestType ==
    /\ \A kind : RequestOf(kind, "inc") = In(kind)
    /\ RequestOf("BYE", "out") = ByeOf(out.call)
    /\ \A kind \in {"INVITE", "BYE", "other request"} : In(kind) \in Datagrams
    /\ \A call \in Nat : ByeOf(call) \in Datagrams
    /\ \A kind : In(kind).kind = kind
    /\ \A call : ByeOf(call).kind = "BYE"
<1>1. \A kind : RequestOf(kind, "inc") = In(kind)
    BY DEF RequestOf, In
<1>2. RequestOf("BYE", "out") = ByeOf(out.call)
    BY DEF RequestOf, ByeOf
<1>3. \A kind \in {"INVITE", "BYE", "other request"} : In(kind) \in Datagrams
    BY DEF Datagrams
<1>4. \A call \in Nat : ByeOf(call) \in Datagrams
    BY DEF Datagrams, ByeOf
<1>5. (\A kind : In(kind).kind = kind) /\ (\A call : ByeOf(call).kind = "BYE")
    BY DEF In, ByeOf
<1> QED BY <1>1, <1>2, <1>3, <1>4, <1>5

LEMMA DatagramKinds ==
    ASSUME NEW d \in Datagrams
    PROVE  /\ d.kind \in ReplyKinds \union {"INVITE", "BYE", "other request"}
           /\ d.kind = "INVITE" => d = In("INVITE")
           /\ d.kind = "BYE" => d = In("BYE") \/ \E call \in Nat : d = ByeOf(call)
<1>1. CASE d \in [kind : ReplyKinds, of : {"REGISTER", "INVITE", "CANCEL"}, call : Nat]
    BY <1>1 DEF ReplyKinds, Finals
<1>2. CASE d \in {In(kind) : kind \in {"INVITE", "BYE", "other request"}}
    BY <1>2, RequestType
<1>3. CASE d \in [kind : {"BYE"}, of : {"out"}, call : Nat]
    BY <1>3 DEF ByeOf
<1> QED BY <1>1, <1>2, <1>3 DEF Datagrams
-----------------------------------------------------------------------------
(* A step of the client, as the network sees it *)

\* Message m, as the server sees it.
Is(m, method, call, answers) ==
    m \in Messages /\ m.method = method /\ m.call = call /\ m.answers = answers

Sends(method, call, answers) ==
    \E m : Is(m, method, call, answers) /\ up' = Append(up, m)

\* What is sent for d in place of <<>>, <<a>> and <<a, b>>.
LEMMA Transmitted ==
    ASSUME NEW d, up \in Seq(Messages), Transmit(d)
    PROVE  /\ tx' = <<>> => up' = up
           /\ \A a : tx' = <<a>> /\ Sent(a, d) \in Messages => up' = Append(up, Sent(a, d))
           /\ \A a, b : /\ tx' = <<a, b>>
                        /\ Sent(a, d) \in Messages /\ Sent(b, d) \in Messages
                        => up' = Append(Append(up, Sent(a, d)), Sent(b, d))
<1>1. ASSUME tx' = <<>> PROVE up' = up
    <2>1. [i \in DOMAIN tx' |-> Sent(tx'[i], d)] = <<>>
        BY <1>1
    <2> QED BY <2>1 DEF Transmit
<1>2. ASSUME NEW a, tx' = <<a>>, Sent(a, d) \in Messages PROVE up' = Append(up, Sent(a, d))
    <2> DEFINE s == Sent(a, d)
    <2>1. [i \in DOMAIN tx' |-> Sent(tx'[i], d)] = <<s>>
        BY <1>2
    <2> HIDE DEF s
    <2>2. up' = up \o <<s>> /\ s \in Messages
        BY <2>1, <1>2 DEF Transmit, s
    <2>3. up \o <<s>> = Append(up, s)
        BY <2>2
    <2> QED BY <2>2, <2>3 DEF s
<1>3. ASSUME NEW a, NEW b, tx' = <<a, b>>, Sent(a, d) \in Messages, Sent(b, d) \in Messages
      PROVE  up' = Append(Append(up, Sent(a, d)), Sent(b, d))
    <2> DEFINE s == Sent(a, d)
               t == Sent(b, d)
    <2>1. [i \in DOMAIN tx' |-> Sent(tx'[i], d)] = <<s, t>>
        BY <1>3
    <2> HIDE DEF s, t
    <2>2. up' = up \o <<s, t>> /\ s \in Messages /\ t \in Messages
        BY <2>1, <1>3 DEF Transmit, s, t
    <2>3. up \o <<s, t>> = Append(Append(up, s), t)
        BY <2>2
    <2> QED BY <2>2, <2>3 DEF s, t
<1> QED BY <1>1, <1>2, <1>3

LEMMA RequestMethods ==
    /\ \A h, a : Register(h, a).method = "REGISTER"
    /\ \A h, a : Invite(h, a).method = "INVITE"
    /\ \A h, a : Cancel(h, a).method = "CANCEL"
    /\ \A h, p : Ack(h, p).method = "ACK"
    /\ Reply("200 OK").method = "200 OK"
BY DEF Register, Invite, Cancel, Ack, Reply, Request

\* A message as the server sees it.
LEMMA SentType ==
    ASSUME NEW m, NEW d, rings' \in Nat
    PROVE  /\ m.method = "REGISTER" => Is(Sent(m, d), "REGISTER", 0, {})
           /\ m.method \in {"INVITE", "CANCEL", "ACK"} => Is(Sent(m, d), m.method, rings', {})
           /\ m.method = "200 OK" /\ d \in Datagrams => Is(Sent(m, d), "200 OK", 0, {d})
BY DEF Sent, Is, Messages

\* With one message sent, and with two.
LEMMA SendsOne ==
    ASSUME NEW d, up \in Seq(Messages), Transmit(d),
           NEW m, tx' = <<m>>, NEW method, NEW call, NEW answers,
           Is(Sent(m, d), method, call, answers)
    PROVE  Sends(method, call, answers)
BY Transmitted DEF Is, Sends

SendsTwo(first, second) ==
    \E a, b : /\ Is(a, first, rings', {}) /\ Is(b, second, rings', {})
              /\ up' = Append(Append(up, a), b)

\* A handler sends nothing, or one request and enters the state that awaits its end.
LEMMA HandleSeen ==
    ASSUME NetTypeOK, ClientHandles
    PROVE  /\ UNCHANGED <<down, out, inc, callers, untaken, faults>>
           /\ \/ up' = up /\ rings' = rings /\ sm' = sm
              \/ /\ Sends("REGISTER", 0, {}) /\ rings' = rings
                 /\ sm' = "waiting_for_auth_reply"
                 /\ \/ sm \in {"idle", "registered"}
                    \/ Take("ev_reply_timeout")
                    \/ sm # "idle" /\ Take("ev_start")
              \/ /\ Sends("INVITE", rings', {}) /\ rings' = rings + 1
                 /\ sm = "registered" /\ sm' = "calling"
              \/ /\ Sends("CANCEL", rings, {}) /\ rings' = rings
                 /\ sm = "calling" /\ sm' = "cancelling"
<1>1. /\ UNCHANGED <<down, out, inc, callers, untaken, faults>> /\ Transmit({})
      /\ up \in Seq(Messages) /\ rings \in Nat
      /\ rings' = rings + (IF sm # "calling" /\ sm' = "calling" THEN 1 ELSE 0)
    BY DEF ClientHandles, RingPlaced, NetTypeOK
<1>2. ASSUME tx' = <<>>, sm' = sm PROVE up' = up /\ rings' = rings /\ sm' = sm
    BY <1>1, <1>2, Transmitted
<1>3. ASSUME Drop PROVE up' = up /\ rings' = rings /\ sm' = sm
    BY <1>2, <1>3 DEF Drop, Silent
<1>4. ASSUME NEW from, BeginRegistration(from)
      PROVE  /\ Sends("REGISTER", 0, {}) /\ rings' = rings
             /\ sm' = "waiting_for_auth_reply"
    <2>1. PICK h : tx' = <<Register(h, auth)>>
        BY <1>4 DEF BeginRegistration, RegisterUnauth
    <2>2. sm' = "waiting_for_auth_reply" /\ rings' = rings
        BY <1>1, <1>4 DEF BeginRegistration
    <2>3. Is(Sent(Register(h, auth), {}), "REGISTER", 0, {})
        BY <1>1, <2>2, RequestMethods, SentType
    <2> QED BY <1>1, <2>1, <2>2, <2>3, SendsOne
<1>5. CASE HandleStart
    BY <1>1, <1>3, <1>4, <1>5 DEF HandleStart
<1>6. CASE HandleReplyTimeout
    BY <1>1, <1>3, <1>4, <1>6 DEF HandleReplyTimeout
<1>7. CASE HandleReregister
    <2>1. CASE Drop
        BY <2>1, <1>3, <1>1
    <2>2. CASE Silent /\ UNCHANGED sm
        BY <2>2, <1>2, <1>1 DEF Silent
    <2>3. CASE BeginRegistration({"registered"})
        <3>1. sm = "registered"
            BY <2>3 DEF BeginRegistration
        <3> QED BY <2>3, <3>1, <1>4, <1>1
    <2> QED BY <1>7, <2>1, <2>2, <2>3 DEF HandleReregister
<1>8. CASE HandleRequestCall
    <2>1. CASE sm = "registered"
        <3>1. PICK h : tx' = <<Invite(h, auth)>>
            BY <1>8, <2>1 DEF HandleRequestCall, RequestCall, SendInvite
        <3>2. sm' = "calling" /\ rings' = rings + 1 /\ rings' \in Nat
            BY <1>1, <1>8, <2>1 DEF HandleRequestCall
        <3>3. Is(Sent(Invite(h, auth), {}), "INVITE", rings', {})
            BY <3>2, RequestMethods, SentType
        <3> QED BY <1>1, <2>1, <3>1, <3>2, <3>3, SendsOne
    <2>2. CASE sm # "registered"
        BY <1>1, <1>3, <1>8, <2>2 DEF HandleRequestCall
    <2> QED BY <2>1, <2>2
<1>9. CASE HandleCancelCall
    <2>1. CASE sm = "calling"
        <3>1. tx' = <<Cancel(hdr, auth)>> /\ sm' = "cancelling"
            BY <1>9, <2>1 DEF HandleCancelCall, CancelCall
        <3>2. rings' = rings
            BY <1>1, <3>1
        <3>3. Is(Sent(Cancel(hdr, auth), {}), "CANCEL", rings, {})
            BY <1>1, <3>2, RequestMethods, SentType
        <3> QED BY <1>1, <2>1, <3>1, <3>2, <3>3, SendsOne
    <2>2. CASE sm # "calling"
        BY <1>1, <1>3, <1>9, <2>2 DEF HandleCancelCall
    <2> QED BY <2>1, <2>2
<1> QED
    BY <1>5, <1>6, <1>7, <1>8, <1>9 DEF ClientHandles, Handle

\* What the client makes of a datagram depends on its kind and the client's state.
LEMMA ReceiveSeen ==
    ASSUME NetTypeOK, ClientReceives, NEW h, h = Head(down)
    PROVE  /\ h \in Datagrams /\ down' = Tail(down)
           /\ UNCHANGED <<out, inc, callers, faults, rings>>
           /\ untaken' = (untaken \/ (h.kind = "INVITE" /\ sm # "registered"))
           /\ h.kind = "other request" => up' = up /\ sm' = sm
           /\ h.kind = "INVITE" =>
                  /\ Sends("200 OK", 0, {h})
                  /\ sm' = IF sm = "registered" THEN "call_established" ELSE sm
           /\ h.kind = "BYE" =>
                  /\ Sends("200 OK", 0, {h})
                  /\ sm' = IF sm = "call_established" THEN "registered" ELSE sm
           /\ h.kind = "200" =>
                  IF sm = "calling"
                  THEN sm' = "call_established" /\ Sends("ACK", rings, {})
                  ELSE /\ up' = up
                       /\ sm' = IF sm = "waiting_for_auth_reply" THEN "registered"
                                ELSE IF sm = "call_established" THEN "X" ELSE sm
           /\ h.kind = "401" =>
                  /\ sm' = sm
                  /\ sm = "waiting_for_auth_reply" => Sends("REGISTER", 0, {})
                  /\ sm = "calling" => SendsTwo("ACK", "INVITE")
                  /\ sm \notin {"waiting_for_auth_reply", "calling"} => up' = up
           /\ h.kind \in Refusals =>
                  /\ Sends("ACK", rings, {})
                  /\ sm' = IF sm = "calling" THEN "registered" ELSE sm
           /\ h.kind = "487" =>
                  IF sm \in {"calling", "cancelling"}
                  THEN sm' = "registered" /\ Sends("ACK", rings, {})
                  ELSE sm' = sm /\ up' = up
<1> DEFINE p == Parsed(h)
<1>1. /\ h \in Datagrams /\ down' = Tail(down)
      /\ UNCHANGED <<out, inc, callers, faults, rings>> /\ rings \in Nat
      /\ untaken' = (untaken \/ (h.kind = "INVITE" /\ sm # "registered"))
      /\ Transmit(h) /\ up \in Seq(Messages) /\ Rx(p)
    <2>1. down \in Seq(Datagrams) /\ down # <<>> /\ rings \in Nat /\ up \in Seq(Messages)
        BY DEF NetTypeOK, ClientReceives
    <2>2. h \in Datagrams
        BY <2>1
    <2> QED BY <2>1, <2>2, Zenon DEF ClientReceives
<1>2. /\ p.kind = h.kind
      /\ h.kind \in {"200", "401", "486", "487", "603", "INVITE", "BYE", "other request"}
    BY <1>1, DatagramKinds DEF Parsed, ReplyKinds, Finals
<1> HIDE DEF p
<1>3. tx' = <<>> => up' = up
    BY <1>1, Transmitted
<1>4. ASSUME NEW r, NEW c, tx' = <<Ack(r, c)>> PROVE Sends("ACK", rings, {})
    <2>1. Is(Sent(Ack(r, c), h), "ACK", rings, {})
        BY <1>1, RequestMethods, SentType
    <2> QED BY <1>1, <1>4, <2>1, SendsOne
<1>5. ASSUME tx' = <<Reply("200 OK")>> PROVE Sends("200 OK", 0, {h})
    <2>1. Is(Sent(Reply("200 OK"), h), "200 OK", 0, {h})
        BY <1>1, RequestMethods, SentType
    <2> QED BY <1>1, <1>5, <2>1, SendsOne
<1>6. CASE h.kind = "other request"
    <2>1. RxOther(p)
        BY <1>1, <1>2, <1>6
        DEF Rx, RxUnparsable, RxServerError, RxUnauthorized, RxOk, RxRequestCancelled,
            RxDeclined, RxBye, RxInvite, RxInviteFromSelf, RxInfoDtmf
    <2>2. sm' = sm /\ tx' = <<>>
        BY <1>2, <1>6, <2>1 DEF RxOther, Stay
    <2> QED BY <1>1, <1>3, <1>6, <2>2 DEF Refusals
<1>7. CASE h.kind = "INVITE"
    <2>1. RxInvite(p)
        BY <1>1, <1>2, <1>7
        DEF Rx, RxUnparsable, RxServerError, RxUnauthorized, RxOk, RxRequestCancelled,
            RxDeclined, RxBye, RxInviteFromSelf, RxInfoDtmf, RxOther
    <2>2. /\ tx' = <<Reply("200 OK")>>
          /\ sm' = IF sm = "registered" THEN "call_established" ELSE sm
        BY <2>1 DEF RxInvite, Stay
    <2> QED BY <1>1, <1>5, <1>7, <2>2 DEF Refusals
<1>8. CASE h.kind = "BYE"
    <2>1. RxBye(p)
        BY <1>1, <1>2, <1>8
        DEF Rx, RxUnparsable, RxServerError, RxUnauthorized, RxOk, RxRequestCancelled,
            RxDeclined, RxInvite, RxInviteFromSelf, RxInfoDtmf, RxOther
    <2>2. /\ tx' = <<Reply("200 OK")>>
          /\ sm' = IF sm = "call_established" THEN "registered" ELSE sm
        BY <2>1 DEF RxBye, Stay
    <2> QED BY <1>1, <1>5, <1>8, <2>2 DEF Refusals
<1>9. CASE h.kind = "200"
    <2>1. RxOk(p)
        BY <1>1, <1>2, <1>9
        DEF Rx, RxUnparsable, RxServerError, RxUnauthorized, RxRequestCancelled,
            RxDeclined, RxBye, RxInvite, RxInviteFromSelf, RxInfoDtmf, RxOther
    <2>2. CASE sm = "calling"
        <3>1. sm' = "call_established" /\ tx' = <<Ack(hdr, peer')>>
            BY <2>1, <2>2 DEF RxOk, CallEstablished
        <3>2. Sends("ACK", rings, {})
            BY <1>4, <3>1
        <3> QED BY <1>1, <1>9, <2>2, <3>1, <3>2 DEF Refusals
    <2>3. CASE sm # "calling"
        <3>1. /\ tx' = <<>>
              /\ sm = "waiting_for_auth_reply" => sm' = "registered"
              /\ sm = "call_established" => sm' = "X"
              /\ sm \notin {"waiting_for_auth_reply", "call_established"} => sm' = sm
            BY <2>1, <2>3 DEF RxOk, Stay, Silent
        <3> QED BY <1>1, <1>3, <1>9, <2>3, <3>1 DEF Refusals
    <2> QED BY <2>2, <2>3
<1>10. CASE h.kind = "401"
    <2>1. RxUnauthorized(p)
        BY <1>1, <1>2, <1>10
        DEF Rx, RxUnparsable, RxServerError, RxOk, RxRequestCancelled,
            RxDeclined, RxBye, RxInvite, RxInviteFromSelf, RxInfoDtmf, RxOther
    <2>2. CASE sm = "waiting_for_auth_reply"
        <3>1. sm' = sm /\ tx' = <<Register(hdr', auth')>>
            BY <2>1, <2>2 DEF RxUnauthorized, RegisterAuth
        <3>2. Is(Sent(Register(hdr', auth'), h), "REGISTER", 0, {})
            BY <1>1, RequestMethods, SentType
        <3>3. Sends("REGISTER", 0, {})
            BY <1>1, <3>1, <3>2, SendsOne
        <3> QED BY <1>1, <1>10, <2>2, <3>1, <3>3 DEF Refusals
    <2>3. CASE sm = "calling"
        <3>1. sm' = sm /\ tx' = <<Ack(hdr, peer'), Invite(hdr', auth')>>
            BY <2>1, <2>3 DEF RxUnauthorized, SendInviteAuth
        <3>2. /\ Is(Sent(Ack(hdr, peer'), h), "ACK", rings', {})
              /\ Is(Sent(Invite(hdr', auth'), h), "INVITE", rings', {})
            BY <1>1, RequestMethods, SentType
        <3>3. SendsTwo("ACK", "INVITE")
            BY <1>1, <3>1, <3>2, Transmitted DEF Is, SendsTwo
        <3> QED BY <1>1, <1>10, <2>3, <3>1, <3>3 DEF Refusals
    <2>4. CASE sm \notin {"waiting_for_auth_reply", "calling"}
        <3>1. sm' = sm /\ tx' = <<>>
            BY <2>1, <2>4 DEF RxUnauthorized, Silent
        <3> QED BY <1>1, <1>3, <1>10, <2>4, <3>1 DEF Refusals
    <2> QED BY <2>2, <2>3, <2>4
<1>11. CASE h.kind \in Refusals
    <2>1. RxDeclined(p)
        BY <1>1, <1>2, <1>11
        DEF Rx, RxUnparsable, RxServerError, RxUnauthorized, RxOk, RxRequestCancelled,
            RxBye, RxInvite, RxInviteFromSelf, RxInfoDtmf, RxOther, Refusals
    <2>2. tx' = <<Ack(hdr, peer')>> /\ sm' = IF sm = "calling" THEN "registered" ELSE sm
        BY <2>1 DEF RxDeclined
    <2>3. Sends("ACK", rings, {})
        BY <1>4, <2>2
    <2> QED BY <1>1, <1>11, <2>2, <2>3 DEF Refusals
<1>12. CASE h.kind = "487"
    <2>1. RxRequestCancelled(p)
        BY <1>1, <1>2, <1>12
        DEF Rx, RxUnparsable, RxServerError, RxUnauthorized, RxOk,
            RxDeclined, RxBye, RxInvite, RxInviteFromSelf, RxInfoDtmf, RxOther
    <2>2. CASE sm \in {"calling", "cancelling"}
        <3>1. sm' = "registered" /\ tx' = <<Ack(hdr, peer')>>
            BY <2>1, <2>2 DEF RxRequestCancelled, CallCancelled, EndedBy487
        <3>2. Sends("ACK", rings, {})
            BY <1>4, <3>1
        <3> QED BY <1>1, <1>12, <2>2, <3>1, <3>2 DEF Refusals
    <2>3. CASE sm \notin {"calling", "cancelling"}
        <3>1. sm' = sm /\ tx' = <<>>
            BY <2>1, <2>3 DEF RxRequestCancelled, EndedBy487, Stay
        <3> QED BY <1>1, <1>3, <1>12, <2>3, <3>1 DEF Refusals
    <2> QED BY <2>2, <2>3
<1> QED
    BY <1>2, <1>6, <1>7, <1>8, <1>9, <1>10, <1>11, <1>12 DEF Refusals
-----------------------------------------------------------------------------
(* Whatever the network does: the client is still module SipClient's *)

LEMMA SendsType ==
    ASSUME up \in Seq(Messages),
           \/ up' = up \/ \E method, call, answers : Sends(method, call, answers)
           \/ \E first, second : SendsTwo(first, second)
    PROVE  up' \in Seq(Messages)
BY DEF Sends, SendsTwo, Is

\* A datagram the server sends is one the client's parser accepts.
LEMMA ParsedType == ASSUME NEW d \in Datagrams PROVE Parsed(d) \in Packet
<1>1. (CHOOSE n \in Nonces : TRUE) \in Nonces
    BY NetworkAssumption
<1>2. d.kind \in Replies \union Requests
    BY DatagramKinds DEF ReplyKinds, Finals, Replies, Requests
<1> QED BY <1>1, <1>2 DEF Parsed, Packet

LEMMA ClientStep == NetTypeOK /\ [NetworkNext]_networkVars => [Next]_vars
<1> SUFFICES ASSUME NetTypeOK, [NetworkNext]_networkVars PROVE [Next]_vars
    OBVIOUS
<1>1. CASE UNCHANGED vars
    BY <1>1
<1>2. CASE ClientReceives
    <2>1. down \in Seq(Datagrams) /\ down # <<>>
        BY <1>2 DEF ClientReceives, NetTypeOK
    <2>2. Head(down) \in Datagrams
        BY <2>1, TailSays
    <2>3. Parsed(Head(down)) \in Packet
        BY <2>2, ParsedType
    <2> QED BY <1>2, <2>3 DEF ClientReceives, Next, RunsHandler
<1>3. CASE Client /\ ~ClientReceives
    BY <1>3 DEF Client, ClientHandles, DatagramWaits, User, TimerRuns, Next, RunsHandler
<1>4. CASE Server
    BY <1>4
    DEF Server, Serves, ServeRegister, ServeInvite, ServeCancel, ServeAck, ServeOk,
        Answer, Refuse, HangUp, CallIn, Repeat, ServerOnly
<1>5. CASE Fault
    BY <1>5 DEF Fault
<1>6. CASE UNCHANGED networkVars
    BY <1>6 DEF networkVars
<1> QED BY <1>1, <1>2, <1>3, <1>4, <1>5, <1>6 DEF NetworkNext

LEMMA NetTypeInit == NetworkInit => NetTypeOK
<1>1. /\ <<>> \in Seq(Messages) /\ <<>> \in Seq(Datagrams)
      /\ [state |-> "none", call |-> 0] \in [state : OutStates, call : Nat]
    BY DEF OutStates
<1> QED BY <1>1 DEF NetworkInit, NetTypeOK

LEMMA NetTypeClient ==
    ASSUME NetTypeOK, Client
    PROVE  NetTypeOK'
<1>1. CASE ClientHandles
    <2>1. up' \in Seq(Messages)
        BY <1>1, HandleSeen, SendsType DEF NetTypeOK
    <2>2. UNCHANGED <<down, out, inc, callers, untaken, faults>>
        BY <1>1, HandleSeen
    <2>3. rings \in Nat /\ (rings' = rings \/ rings' = rings + 1)
        BY <1>1, HandleSeen DEF NetTypeOK
    <2>4. rings' \in Nat
        BY <2>3
    <2> QED BY <2>1, <2>2, <2>4 DEF NetTypeOK
<1>2. CASE ClientReceives
    <2> DEFINE h == Head(down)
    <2>1. h \in Datagrams /\ Tail(down) \in Seq(Datagrams)
        <3>1. down \in Seq(Datagrams) /\ down # <<>>
            BY <1>2 DEF ClientReceives, NetTypeOK
        <3> QED BY <3>1, TailSays
    <2>2. h.kind \in Refusals \union {"200", "401", "487", "INVITE", "BYE", "other request"}
        BY <2>1, DatagramKinds DEF ReplyKinds, Finals, Refusals
    <2> HIDE DEF h
    <2>3. /\ down' = Tail(down) /\ UNCHANGED <<out, inc, callers, faults, rings>>
          /\ untaken' = (untaken \/ (h.kind = "INVITE" /\ sm # "registered"))
          /\ \/ up' = up \/ \E method, call, answers : Sends(method, call, answers)
             \/ \E first, second : SendsTwo(first, second)
        BY <1>2, <2>2, ReceiveSeen DEF h
    <2>4. up' \in Seq(Messages)
        BY <2>3, SendsType DEF NetTypeOK
    <2> QED BY <2>1, <2>3, <2>4 DEF NetTypeOK, h
<1>3. CASE UNCHANGED <<up, down, out, inc, rings, callers, untaken>> /\ faults' \in Nat
    BY <1>3 DEF NetTypeOK
<1>4. CASE \E t \in Timers : TimerRuns(t)
    <2>1. faults' = faults \/ faults' = faults + 1
        BY <1>4 DEF TimerRuns
    <2>2. faults \in Nat
        BY DEF NetTypeOK
    <2>3. faults' \in Nat
        BY <2>1, <2>2
    <2> QED BY <1>3, <1>4, <2>3 DEF TimerRuns
<1>5. CASE UNCHANGED network
    BY <1>3, <1>5 DEF network, NetTypeOK
<1> QED
    BY <1>1, <1>2, <1>4, <1>5 DEF Client, DatagramWaits, User

LEMMA SendType ==
    ASSUME down \in Seq(Datagrams), NEW packets \in Seq(Datagrams), Send(packets)
    PROVE  down' \in Seq(Datagrams)
BY DEF Send

LEMMA NetTypeServer ==
    ASSUME NetTypeOK, Server
    PROVE  NetTypeOK'
<1>1. /\ up \in Seq(Messages) /\ down \in Seq(Datagrams)
      /\ out \in [state : OutStates, call : Nat] /\ out.call \in Nat /\ out.state \in OutStates
    BY DEF NetTypeOK
<1>2. ASSUME NEW d \in Datagrams, Send(<<d>>) PROVE down' \in Seq(Datagrams)
    <2>1. <<d>> \in Seq(Datagrams)
        OBVIOUS
    <2> QED BY <1>1, <1>2, <2>1, SendType
<1>3. ASSUME NEW method, Serve(method)
      PROVE  up' \in Seq(Messages) /\ Head(up) \in Messages /\ Head(up).call \in Nat
    <2>1. up # <<>> /\ up' = Tail(up)
        BY <1>3 DEF Serve
    <2>2. up' \in Seq(Messages) /\ Head(up) \in Messages
        BY <1>1, <2>1, TailSays
    <2> QED BY <2>2 DEF Messages
<1>4. CASE ServeRegister
    <2> DEFINE kind == IF Head(up).authorized THEN "200" ELSE "401"
               d == ReplyTo(kind, "REGISTER", 0)
    <2>1. d \in Datagrams
        BY ReplyType DEF ReplyKinds, Finals
    <2>2. down' \in Seq(Datagrams)
        BY <1>2, <1>4, <2>1 DEF ServeRegister
    <2> QED BY <1>3, <1>4, <2>2 DEF ServeRegister, ServerOnly, NetTypeOK
<1>5. CASE ServeInvite
    <2>1. up' \in Seq(Messages) /\ Head(up).call \in Nat
        BY <1>3, <1>5 DEF ServeInvite
    <2>2. CASE Send(<<ReplyTo("401", "INVITE", Head(up).call)>>) /\ UNCHANGED out
        <3>1. ReplyTo("401", "INVITE", Head(up).call) \in Datagrams
            BY <2>1, ReplyType DEF ReplyKinds
        <3>2. down' \in Seq(Datagrams)
            BY <1>2, <2>2, <3>1
        <3> QED BY <1>5, <2>1, <2>2, <3>2 DEF ServeInvite, ServerOnly, NetTypeOK
    <2>3. CASE out' = [state |-> "ringing", call |-> Head(up).call] /\ UNCHANGED down
        <3>1. out' \in [state : OutStates, call : Nat]
            BY <2>1, <2>3 DEF OutStates
        <3> QED BY <1>5, <2>1, <2>3, <3>1 DEF ServeInvite, ServerOnly, NetTypeOK
    <2> QED BY <1>5, <2>2, <2>3 DEF ServeInvite
<1>6. CASE ServeCancel
    <2>1. up' \in Seq(Messages) /\ Head(up).call \in Nat
        BY <1>3, <1>6 DEF ServeCancel
    <2>2. CASE /\ out' = [out EXCEPT !.state = "487"]
               /\ Send(<<ReplyTo("200", "CANCEL", out.call), ReplyTo("487", "INVITE", out.call)>>)
        <3> DEFINE a == ReplyTo("200", "CANCEL", out.call)
                   b == ReplyTo("487", "INVITE", out.call)
        <3>1. a \in Datagrams /\ b \in Datagrams
            BY <1>1, ReplyType DEF ReplyKinds, Finals
        <3> HIDE DEF a, b
        <3>2. <<a, b>> \in Seq(Datagrams)
            BY <3>1
        <3>3. down' \in Seq(Datagrams)
            BY <1>1, <2>2, <3>2, SendType DEF a, b
        <3>4. out' \in [state : OutStates, call : Nat]
            BY <1>1, <2>2 DEF OutStates, Finals
        <3> QED BY <1>6, <2>1, <3>3, <3>4 DEF ServeCancel, ServerOnly, NetTypeOK
    <2>3. CASE Send(<<ReplyTo("200", "CANCEL", Head(up).call)>>) /\ UNCHANGED out
        <3>1. ReplyTo("200", "CANCEL", Head(up).call) \in Datagrams
            BY <2>1, ReplyType DEF ReplyKinds, Finals
        <3>2. down' \in Seq(Datagrams)
            BY <1>2, <2>3, <3>1
        <3> QED BY <1>6, <2>1, <2>3, <3>2 DEF ServeCancel, ServerOnly, NetTypeOK
    <2> QED BY <1>6, <2>2, <2>3 DEF ServeCancel
<1>7. CASE ServeAck
    <2>1. up' \in Seq(Messages)
        BY <1>3, <1>7 DEF ServeAck
    <2>2. out' \in [state : OutStates, call : Nat]
        BY <1>1, <1>7 DEF ServeAck, OutStates
    <2> QED BY <1>7, <2>1, <2>2 DEF ServeAck, ServerOnly, NetTypeOK
<1>8. CASE ServeOk
    <2>1. up' \in Seq(Messages)
        BY <1>3, <1>8 DEF ServeOk
    <2>2. PICK d \in Head(up).answers :
              /\ inc' = CASE d.kind = "INVITE" /\ inc = "offered" -> "answered"
                          [] d = RequestOf("BYE", "inc") -> "none"
                          [] OTHER -> inc
              /\ out' = IF d = RequestOf("BYE", "out") /\ out.state = "hanging up"
                        THEN [out EXCEPT !.state = "none"]
                        ELSE out
              /\ Send(IF d.kind = "INVITE" THEN <<RequestOf("other request", "inc")>> ELSE <<>>)
        BY <1>8 DEF ServeOk
    <2>3. inc' \in {"none", "offered", "answered", "hanging up"}
        BY <2>2 DEF NetTypeOK
    <2>4. out' \in [state : OutStates, call : Nat]
        BY <1>1, <2>2 DEF OutStates
    <2>5. RequestOf("other request", "inc") \in Datagrams
        <3>1. "other request" \in {"INVITE", "BYE", "other request"}
            OBVIOUS
        <3> QED BY <3>1, RequestType, Zenon
    <2>6. down' \in Seq(Datagrams)
        <3>1. CASE d.kind = "INVITE"
            BY <1>2, <2>2, <2>5, <3>1
        <3>2. CASE d.kind # "INVITE"
            <4>1. Send(<<>>)
                BY <2>2, <3>2
            <4> QED BY <1>1, <4>1 DEF Send
        <3> QED BY <3>1, <3>2
    <2> QED BY <1>8, <2>1, <2>3, <2>4, <2>6 DEF ServeOk, ServerOnly, NetTypeOK
<1>9. CASE Answer
    <2>1. ReplyTo("200", "INVITE", out.call) \in Datagrams
        BY <1>1, ReplyType DEF ReplyKinds, Finals
    <2>2. down' \in Seq(Datagrams)
        BY <1>2, <1>9, <2>1 DEF Answer
    <2>3. out' \in [state : OutStates, call : Nat]
        BY <1>1, <1>9 DEF Answer, OutStates, Finals
    <2> QED BY <1>9, <2>2, <2>3 DEF Answer, ServerOnly, NetTypeOK
<1>10. CASE Refuse
    <2>1. PICK final \in Refusals :
              out' = [out EXCEPT !.state = final] /\ Send(<<ReplyTo(final, "INVITE", out.call)>>)
        BY <1>10 DEF Refuse
    <2>2. ReplyTo(final, "INVITE", out.call) \in Datagrams
        BY <1>1, ReplyType DEF ReplyKinds, Finals, Refusals
    <2>3. down' \in Seq(Datagrams)
        BY <1>2, <2>1, <2>2
    <2>4. out' \in [state : OutStates, call : Nat]
        BY <1>1, <2>1 DEF OutStates, Finals, Refusals
    <2> QED BY <1>10, <2>3, <2>4 DEF Refuse, ServerOnly, NetTypeOK
<1>11. CASE HangUp
    <2>1. RequestOf("BYE", "out") \in Datagrams /\ RequestOf("BYE", "inc") \in Datagrams
        BY <1>1, RequestType
    <2>2. down' \in Seq(Datagrams)
        BY <1>2, <1>11, <2>1 DEF HangUp
    <2>3. out' \in [state : OutStates, call : Nat]
        BY <1>1, <1>11 DEF HangUp, OutStates
    <2> QED BY <1>11, <2>2, <2>3 DEF HangUp, ServerOnly, NetTypeOK
<1>12. CASE CallIn
    <2>1. RequestOf("INVITE", "inc") \in Datagrams
        BY <1>1, RequestType
    <2>2. down' \in Seq(Datagrams)
        BY <1>2, <1>12, <2>1 DEF CallIn
    <2> QED BY <1>12, <2>2 DEF CallIn, NetTypeOK
<1>13. CASE Repeat
    <2>1. /\ RequestOf("BYE", "out") \in Datagrams /\ RequestOf("BYE", "inc") \in Datagrams
          /\ RequestOf("INVITE", "inc") \in Datagrams
        BY <1>1, RequestType
    <2>2. out.state \in Finals => ReplyTo(out.state, "INVITE", out.call) \in Datagrams
        BY <1>1, ReplyType DEF ReplyKinds
    <2>3. down' \in Seq(Datagrams)
        BY <1>2, <1>13, <2>1, <2>2 DEF Repeat
    <2> QED BY <1>13, <2>3 DEF Repeat, ServerOnly, NetTypeOK
<1> QED
    BY <1>4, <1>5, <1>6, <1>7, <1>8, <1>9, <1>10, <1>11, <1>12, <1>13 DEF Server, Serves

\* Lost, repeated and overtaken datagrams are still datagrams.
LEMMA NetTypeFault ==
    ASSUME NetTypeOK, Fault
    PROVE  NetTypeOK'
<1>1. faults \in Nat
    BY DEF NetTypeOK
<1>2. UNCHANGED <<out, inc, rings, callers, untaken>> /\ faults' \in Nat
    BY <1>1 DEF Fault
<1> SUFFICES up' \in Seq(Messages) /\ down' \in Seq(Datagrams)
    BY <1>2 DEF NetTypeOK
<1>3. up \in Seq(Messages) /\ down \in Seq(Datagrams)
    BY DEF NetTypeOK
<1>4. ASSUME NEW D, NEW q \in Seq(D), NEW i \in 1..Len(q) PROVE RemoveAt(q, i) \in Seq(D)
    <2>1. SubSeq(q, 1, i - 1) \in Seq(D) /\ SubSeq(q, i + 1, Len(q)) \in Seq(D)
        OBVIOUS
    <2> QED BY <2>1 DEF RemoveAt
<1>5. Underway \subseteq 1..Len(down)
    BY <1>3 DEF Underway
<1>6. CASE Lose
    <2>1. CASE \E i \in Underway : down' = RemoveAt(down, i) /\ UNCHANGED up
        <3>1. PICK i \in 1..Len(down) : down' = RemoveAt(down, i) /\ up' = up
            BY <2>1, <1>5
        <3>2. RemoveAt(down, i) \in Seq(Datagrams)
            BY <1>3, <1>4
        <3> QED BY <1>3, <3>1, <3>2
    <2>2. CASE \E i \in DOMAIN up : up' = RemoveAt(up, i) /\ UNCHANGED down
        <3>1. PICK i \in 1..Len(up) : up' = RemoveAt(up, i) /\ down' = down
            BY <1>3, <2>2
        <3>2. RemoveAt(up, i) \in Seq(Messages)
            BY <1>3, <1>4
        <3> QED BY <1>3, <3>1, <3>2
    <2> QED BY <1>6, <2>1, <2>2 DEF Lose
<1>7. CASE Duplicate
    <2>1. PICK i \in 1..Len(down) : down' = Append(down, down[i]) /\ up' = up
        BY <1>5, <1>7 DEF Duplicate
    <2>2. down[i] \in Datagrams
        BY <1>3
    <2>3. Append(down, down[i]) \in Seq(Datagrams)
        BY <1>3, <2>2
    <2> QED BY <1>3, <2>1, <2>3
<1>8. CASE Overtake
    <2>1. PICK i \in 1..Len(down) :
              /\ i - 1 \in 1..Len(down) /\ up' = up
              /\ down' = [down EXCEPT ![i - 1] = down[i], ![i] = down[i - 1]]
        BY <1>5, <1>8 DEF Overtake
    <2> DEFINE q == [down EXCEPT ![i - 1] = down[i]]
    <2>2. down[i] \in Datagrams /\ down[i - 1] \in Datagrams
        BY <1>3, <2>1
    <2>3. q \in Seq(Datagrams) /\ Len(q) = Len(down)
        BY <1>3, <2>1, <2>2, ExceptSeq
    <2>4. down' = [q EXCEPT ![i] = down[i - 1]]
        BY <2>1
    <2> HIDE DEF q
    <2>5. [q EXCEPT ![i] = down[i - 1]] \in Seq(Datagrams)
        BY <2>2, <2>3, ExceptSeq
    <2> QED BY <1>3, <2>1, <2>4, <2>5
<1> QED BY <1>6, <1>7, <1>8 DEF Fault

LEMMA NetTypeStep == NetTypeOK /\ [NetworkNext]_networkVars => NetTypeOK'
<1> SUFFICES ASSUME NetTypeOK, [NetworkNext]_networkVars PROVE NetTypeOK'
    OBVIOUS
<1>1. CASE UNCHANGED networkVars
    BY <1>1 DEF networkVars, network, NetTypeOK
<1> QED BY <1>1, NetTypeClient, NetTypeServer, NetTypeFault DEF NetworkNext

\* Between the server and the network, the client stays within what module SipClient
\* says of it, where it is open to any packet: what is proved there holds here.
THEOREM ClientInNetwork == NetworkSpec => Spec
<1>1. NetworkInit => Init
    BY DEF NetworkInit
<1> QED
    BY <1>1, NetTypeInit, NetTypeStep, ClientStep, PTL DEF NetworkSpec, Spec
-----------------------------------------------------------------------------
(* The invariant, while the network and the timeouts do not interfere *)

Methods(method) == {m \in Messages : m.method = method}
OfOtherCall(method, call) == {m \in Messages : m.method = method /\ m.call # call}
Acks(call) == {m \in Messages : m.method = "ACK" /\ m.call = call}
Oks(d) == {m \in Messages : m.method = "200 OK" /\ m.answers = {d}}
Kinds(kinds) == {d \in Datagrams : d.kind \in kinds}
Answers == Kinds(ReplyKinds)

\* q has one answer, and it is d.
Only(q, d) == One(q, Answers) /\ None(q, Answers \ {d})

\* The server waits for nothing but an ACK that is on its way.
Settled ==
    /\ out.state # "ringing"
    /\ out.state \in Finals => ~None(up, Acks(out.call))

NoneUp(methods) == \A method \in methods : None(up, Methods(method))

\* The client has no request of its own open.
FreeInv == None(down, Answers) /\ NoneUp({"REGISTER", "INVITE", "CANCEL"}) /\ Settled

\* Its REGISTER is on its way, or the answer to it.
WaitingInv ==
    /\ NoneUp({"INVITE", "CANCEL"}) /\ Settled
    /\ \/ One(up, Methods("REGISTER")) /\ None(down, Answers)
       \/ /\ None(up, Methods("REGISTER"))
          /\ \/ Only(down, ReplyTo("200", "REGISTER", 0))
             \/ Only(down, ReplyTo("401", "REGISTER", 0))

\* The INVITE of the call being placed is on its way, behind the ACK of its challenge.
InviteUp ==
    /\ One(up, Methods("INVITE")) /\ None(up, OfOtherCall("INVITE", rings))
    /\ Before(up, Acks(rings), Methods("INVITE"))
    /\ None(down, Answers) /\ out.call < rings /\ Settled

Challenged ==
    Only(down, ReplyTo("401", "INVITE", rings)) /\ out.call < rings /\ Settled

Ringing == None(down, Answers) /\ out = [state |-> "ringing", call |-> rings]

Answered ==
    /\ out.call = rings /\ out.state \in {"200", "486", "603"}
    /\ Only(down, ReplyTo(out.state, "INVITE", rings))

CallingInv ==
    /\ NoneUp({"REGISTER", "CANCEL"})
    /\ \/ InviteUp
       \/ /\ None(up, Methods("INVITE")) /\ None(up, Acks(rings))
          /\ Challenged \/ Ringing \/ Answered

CancelUp ==
    One(up, Methods("CANCEL")) /\ None(up, OfOtherCall("CANCEL", rings))

\* The CANCEL finds the call in one of these states, or none at all.
Cancellable(states) ==
    \/ out.call < rings /\ Settled /\ None(down, Kinds(Refusals))
    \/ /\ out.call = rings /\ out.state \in states
       /\ out.state \in {"ringing", "200"} =>
              None(up, Acks(rings)) /\ None(down, Kinds(Refusals))

Cancelled ==
    /\ out.call = rings /\ out.state \in {"487", "none"}
    /\ One(down, Kinds({"487"})) /\ None(down, Kinds(Refusals))
    /\ Before(down, Kinds(ReplyKinds \ {"487"}), Kinds({"487"}))

CancellingInv ==
    /\ None(up, Methods("REGISTER"))
    /\ \/ CancelUp /\ InviteUp /\ Before(up, Methods("INVITE"), Methods("CANCEL"))
       \/ /\ CancelUp /\ None(up, Methods("INVITE")) /\ None(down, Kinds({"487"}))
          /\ Cancellable({"ringing", "200", "486", "603", "none"})
       \/ NoneUp({"INVITE", "CANCEL"}) /\ Cancelled
       \/ /\ NoneUp({"INVITE", "CANCEL"}) /\ None(down, Kinds({"487"}))
          /\ Cancellable({"200", "486", "603", "none"})

\* The states of the client that no 500 and no 200 in a call has led to.
Phases == {"idle", "waiting_for_auth_reply", "registered", "calling", "cancelling",
           "call_established"}

OwnInv ==
    /\ out.call <= rings
    /\ sm \in {"idle", "registered", "call_established"} => FreeInv
    /\ sm = "waiting_for_auth_reply" => WaitingInv
    /\ sm = "calling" => CallingInv
    /\ sm = "cancelling" => CancellingInv

\* The other side has hung up (as a definition, for the SMT encoding takes no string
\* with a blank).
OutHung == out.state = "hanging up"
IncHung == inc = "hanging up"

\* The call to the client: its INVITE or BYE is on its way, or the answer to it.
Asks(request) ==
    \/ One(down, {request}) /\ None(up, Oks(request))
    \/ None(down, {request}) /\ One(up, Oks(request))
AsksNot(request) == None(down, {request}) /\ None(up, Oks(request))

IncInv ==
    /\ IF inc = "offered" THEN Asks(In("INVITE")) ELSE AsksNot(In("INVITE"))
    /\ IF IncHung THEN Asks(In("BYE")) ELSE AsksNot(In("BYE"))

\* Whom the client has in a call, as far as the server can know.
OutOnLine ==
    \/ out.state = "talking"
    \/ out.state = "200" /\ ~None(up, Acks(out.call))
    \/ OutHung /\ ~None(down, {ByeOf(out.call)})
InOnLine ==
    \/ inc = "answered"
    \/ inc = "offered" /\ ~None(up, Oks(In("INVITE")))
    \/ IncHung /\ ~None(down, {In("BYE")})

\* BYEs of other calls than the last, and answers to BYEs of calls to come.
OtherByes(call) == {d \in Datagrams : d.kind = "BYE" /\ d.of = "out" /\ d.call # call}
LaterOks(call) ==
    {m \in Messages : m.method = "200 OK" /\ \E d \in m.answers : d.of = "out" /\ d.call > call}

ByeInv ==
    /\ None(down, OtherByes(out.call)) /\ None(up, LaterOks(out.call))
    /\ IF OutHung
       THEN \/ One(down, {ByeOf(out.call)}) /\ None(up, Oks(ByeOf(out.call)))
            \/ None(down, {ByeOf(out.call)}) /\ ~None(up, Oks(ByeOf(out.call)))
       ELSE None(down, {ByeOf(out.call)})
    /\ ~OutHung /\ out.state # "none" => None(up, Oks(ByeOf(out.call)))

LineInv ==
    /\ sm = "call_established" <=> OutOnLine \/ InOnLine
    /\ ~(OutOnLine /\ InOnLine)
    /\ ByeInv

\* What the client waits for has not been started twice, nor times out early.
HandlersInv ==
    /\ sm \in Phases
    /\ ~timer["restart"]
    /\ timer["command"] => sm = "waiting_for_auth_reply"
    /\ None(ready, {"ev_reply_timeout"})
    /\ IF sm = "idle" /\ open THEN One(ready, {"ev_start"}) ELSE None(ready, {"ev_start"})

SmoothInv == HandlersInv /\ OwnInv /\ IncInv /\ (~untaken => LineInv)

NetInv == TypeOK /\ NetTypeOK /\ (Smooth => SmoothInv)
-----------------------------------------------------------------------------
(* Facts the steps share *)

LEMMA UpSays ==
    ASSUME NEW m \in Messages
    PROVE  /\ \A k : m \in Methods(k) <=> m.method = k
           /\ \A c : m \in Acks(c) <=> m.method = "ACK" /\ m.call = c
           /\ \A k, c : m \in OfOtherCall(k, c) <=> m.method = k /\ m.call # c
BY DEF Methods, Acks, OfOtherCall

LEMMA DownSays ==
    ASSUME NEW d \in Datagrams
    PROVE  /\ \A K : d \in Kinds(K) <=> d.kind \in K
           /\ d \in Answers <=> d.kind \in ReplyKinds
           /\ \A a : d \in Answers \ {a} <=> d.kind \in ReplyKinds /\ d # a
BY DEF Kinds, Answers

\* The first answer is the only one; and when it is taken there is none.
LEMMA FirstAnswer ==
    ASSUME NEW q, NEW r, NEW d \in Datagrams, d.kind \in ReplyKinds, None(q, Answers),
           Queued1(q, r, d)
    PROVE  Only(r, d)
<1>1. d \in Answers /\ d \notin Answers \ {d}
    BY DownSays
<1>2. None(q, Answers \ {d})
    BY QueueSays
<1> QED BY <1>1, <1>2 DEF Only, Queued1

LEMMA NoneOfKind ==
    ASSUME NEW q, None(q, Answers), NEW K \in SUBSET ReplyKinds
    PROVE  None(q, Kinds(K))
<1>1. Kinds(K) \subseteq Answers
    BY DEF Kinds, Answers
<1> QED BY <1>1, QueueSays

LEMMA RefusalKinds == Refusals \subseteq ReplyKinds /\ {"487"} \subseteq ReplyKinds
BY DEF Refusals, ReplyKinds, Finals

LEMMA ServeSays ==
    ASSUME NetTypeOK, NEW method, Serve(method)
    PROVE  \E m \in Messages : m = Head(up) /\ m.method = method /\ Taken1(up, up', m)
<1>1. up \in Seq(Messages) /\ up # <<>> /\ up' = Tail(up) /\ Head(up).method = method
    BY DEF NetTypeOK, Serve
<1>2. Head(up) \in Messages /\ Taken1(up, Tail(up), Head(up))
    BY <1>1, TailSays
<1> QED BY <1>1, <1>2

LEMMA SendSays ==
    ASSUME NetTypeOK, NEW d \in Datagrams, Send(<<d>>)
    PROVE  Queued1(down, down', d)
<1>1. down \in Seq(Datagrams) /\ down' = down \o <<d>>
    BY DEF NetTypeOK, Send
<1>2. down \o <<d>> = Append(down, d)
    BY <1>1
<1> QED BY <1>1, <1>2, AppendSays

LEMMA SendsSays ==
    ASSUME NetTypeOK, NEW method, NEW call, NEW answers, Sends(method, call, answers)
    PROVE  \E m \in Messages :
               /\ m.method = method /\ m.call = call /\ m.answers = answers
               /\ Queued1(up, up', m)
<1>1. up \in Seq(Messages)
    BY DEF NetTypeOK
<1> QED BY <1>1, AppendSays DEF Sends, Is
-----------------------------------------------------------------------------
(* OwnInv, step by step *)

LEMMA OwnServeRegister ==
    ASSUME NetTypeOK, OwnInv, ServeRegister, NEW m \in Messages, m.method = "REGISTER",
           Taken1(up, up', m), sm \in Phases
    PROVE  OwnInv'
<1> DEFINE ok == ReplyTo("200", "REGISTER", 0)
           no == ReplyTo("401", "REGISTER", 0)
<1>1. /\ ok \in Datagrams /\ no \in Datagrams
      /\ ok.kind \in ReplyKinds /\ no.kind \in ReplyKinds
    BY ReplyType DEF ReplyKinds, Finals
<1>2. PICK d \in {ok, no} : Queued1(down, down', d)
    <2>1. Send(<<ok>>) \/ Send(<<no>>)
        BY DEF ServeRegister
    <2> QED BY <1>1, <2>1, SendSays
<1> HIDE DEF ok, no
<1>3. UNCHANGED <<sm, rings, out>>
    BY DEF ServeRegister, ServerOnly, vars
<1>4. d \in Answers
    BY <1>1, <1>2, DownSays
<1>5. d \in Answers \ {ok} <=> d # ok
    BY <1>4
<1>6. d \in Answers \ {no} <=> d # no
    BY <1>4
<1>7. /\ m \in Methods("REGISTER") /\ m \notin Methods("INVITE") /\ m \notin Methods("CANCEL")
      /\ \A c : m \notin Acks(c)
    BY UpSays
<1>8. ~None(up, Methods("REGISTER"))
    BY <1>7 DEF Taken1
<1>9. sm = "waiting_for_auth_reply"
    BY <1>8 DEF OwnInv, FreeInv, CallingInv, CancellingInv, NoneUp, Phases
<1>10. /\ out.call <= rings /\ NoneUp({"INVITE", "CANCEL"}) /\ Settled
       /\ One(up, Methods("REGISTER")) /\ None(down, Answers)
    BY <1>8, <1>9 DEF OwnInv, WaitingInv
<1>11. NoneUp({"INVITE", "CANCEL"})' /\ None(up', Methods("REGISTER"))
    BY <1>7, <1>10 DEF NoneUp, Taken1
<1>12. Settled'
    BY <1>3, <1>7, <1>10 DEF Settled, Taken1
<1>13. Only(down', d)
    BY <1>1, <1>2, <1>10, FirstAnswer
<1> QED
    BY <1>2, <1>3, <1>9, <1>10, <1>11, <1>12, <1>13 DEF OwnInv, WaitingInv, ok, no

\* x is no message of the client's own requests, d is no answer.
Foreign(x) == /\ \A k : k # "200 OK" => x \notin Methods(k)
              /\ \A k, c : k # "200 OK" => x \notin OfOtherCall(k, c)
              /\ \A c : x \notin Acks(c)
NoAnswer(d) == d \notin Answers /\ \A K : K \subseteq ReplyKinds => d \notin Kinds(K)

\* Of what does not contain x, q and r hold the same.
Keeps(q, r, x) ==
    \A S : x \notin S => /\ None(r, S) <=> None(q, S)
                         /\ One(r, S) <=> One(q, S)
                         /\ \A T : x \notin T /\ Before(q, S, T) => Before(r, S, T)

LEMMA KeepsSays ==
    /\ \A q, x : Keeps(q, q, x)
    /\ \A q, r, x : Queued1(q, r, x) \/ Taken1(q, r, x) => Keeps(q, r, x)
BY DEF Keeps, Queued1, Taken1

LEMMA ForeignSays ==
    /\ \A m \in Messages : m.method = "200 OK" => Foreign(m)
    /\ \A d \in Datagrams : d.kind \notin ReplyKinds => NoAnswer(d)
BY UpSays, DownSays DEF Foreign, NoAnswer

LEMMA SomeForeign == (\E x : Foreign(x)) /\ (\E d : NoAnswer(d))
<1> DEFINE x == [method |-> "200 OK"]
           d == In("BYE")
<1>1. Foreign(x)
    BY DEF Foreign, Methods, OfOtherCall, Acks
<1>2. d \in Datagrams /\ d.kind = "BYE"
    BY RequestType
<1>3. NoAnswer(d)
    BY <1>2, ForeignSays DEF ReplyKinds, Finals
<1> QED BY <1>1, <1>3

\* What the client's own requests are not concerned in.
LEMMA OwnFrame ==
    ASSUME OwnInv, rings' = rings, sm \in Phases,
           NEW x, Foreign(x), Keeps(up, up', x),
           NEW d, NoAnswer(d), Keeps(down, down', d),
           \/ UNCHANGED out
           \/ /\ out'.call = out.call
              /\ out.state \in {"talking", "hanging up"} /\ out'.state \in {"hanging up", "none"},
           \/ UNCHANGED sm
           \/ {sm, sm'} \subseteq {"idle", "registered", "call_established"}
    PROVE  OwnInv'
<1>1. /\ \A k \in {"REGISTER", "INVITE", "CANCEL"} :
             /\ None(up', Methods(k)) <=> None(up, Methods(k))
             /\ One(up', Methods(k)) <=> One(up, Methods(k))
             /\ \A c : None(up', OfOtherCall(k, c)) <=> None(up, OfOtherCall(k, c))
             /\ \A c : Before(up, Acks(c), Methods(k)) => Before(up', Acks(c), Methods(k))
      /\ \A c : None(up', Acks(c)) <=> None(up, Acks(c))
      /\ Before(up, Methods("INVITE"), Methods("CANCEL")) =>
             Before(up', Methods("INVITE"), Methods("CANCEL"))
    BY DEF Foreign, Keeps
<1>2. /\ None(down', Answers) <=> None(down, Answers)
      /\ \A a : Only(down, a) => Only(down', a)
      /\ \A K : K \subseteq ReplyKinds =>
             /\ None(down', Kinds(K)) <=> None(down, Kinds(K))
             /\ One(down', Kinds(K)) <=> One(down, Kinds(K))
             /\ \A L : L \subseteq ReplyKinds /\ Before(down, Kinds(K), Kinds(L)) =>
                           Before(down', Kinds(K), Kinds(L))
    BY DEF NoAnswer, Keeps, Only
<1>3. /\ Refusals \subseteq ReplyKinds /\ {"487"} \subseteq ReplyKinds
      /\ ReplyKinds \ {"487"} \subseteq ReplyKinds
    BY DEF Refusals, ReplyKinds, Finals
<1>4. Settled => Settled'
    BY <1>1 DEF Settled, Finals
<1>5. out'.call = out.call
    OBVIOUS
<1>6. CASE sm \in {"idle", "registered", "call_established"}
    BY <1>1, <1>2, <1>4, <1>5, <1>6 DEF OwnInv, FreeInv, NoneUp
<1>7. CASE sm = "waiting_for_auth_reply"
    BY <1>1, <1>2, <1>4, <1>5, <1>7 DEF OwnInv, WaitingInv, NoneUp
<1>8. InviteUp => InviteUp'
    BY <1>1, <1>2, <1>4, <1>5 DEF InviteUp
<1>9. CASE sm = "calling"
    <2>1. Challenged => Challenged'
        BY <1>2, <1>4, <1>5 DEF Challenged
    <2>2. Ringing => Ringing'
        BY <1>2 DEF Ringing
    <2>3. Answered => Answered'
        BY <1>2 DEF Answered
    <2> QED BY <1>1, <1>5, <1>8, <1>9, <2>1, <2>2, <2>3 DEF OwnInv, CallingInv, NoneUp
<1>10. CASE sm = "cancelling"
    <2>1. CancelUp => CancelUp'
        BY <1>1 DEF CancelUp
    <2>2. \A states : states \subseteq {"ringing", "200", "486", "603", "none"} =>
              (Cancellable(states) => Cancellable(states)')
        BY <1>1, <1>2, <1>3, <1>4, <1>5 DEF Cancellable
    <2>3. Cancelled => Cancelled'
        BY <1>2, <1>3 DEF Cancelled
    <2> QED BY <1>1, <1>2, <1>3, <1>5, <1>8, <1>10, <2>1, <2>2, <2>3 DEF OwnInv, CancellingInv,
               NoneUp
<1> QED BY <1>6, <1>7, <1>9, <1>10 DEF Phases

LEMMA OwnServeInvite ==
    ASSUME NetTypeOK, OwnInv, ServeInvite, sm \in Phases
    PROVE  OwnInv'
<1>1. PICK m \in Messages : m = Head(up) /\ m.method = "INVITE" /\ Taken1(up, up', m)
    BY ServeSays DEF ServeInvite
<1>2. /\ m \in Methods("INVITE") /\ \A k : k # "INVITE" => m \notin Methods(k)
      /\ \A c : m \notin Acks(c) /\ (m.call # c => m \in OfOtherCall("INVITE", c))
      /\ \A c, k : k # "INVITE" => m \notin OfOtherCall(k, c)
    BY <1>1, UpSays
<1>3. ~None(up, Methods("INVITE"))
    BY <1>1, <1>2 DEF Taken1
<1>4. UNCHANGED <<sm, rings>>
    BY DEF ServeInvite, ServerOnly, vars
<1>5. InviteUp /\ m.call = rings
    <2>1. InviteUp
        BY <1>3 DEF OwnInv, FreeInv, WaitingInv, CallingInv, CancellingInv, NoneUp, Phases
    <2>2. m \notin OfOtherCall("INVITE", rings)
        BY <1>1, <2>1 DEF InviteUp, Taken1
    <2> QED BY <1>2, <2>1, <2>2
<1>6. None(up', Methods("INVITE")) /\ None(up', Acks(rings))
    <2>1. One(up, Methods("INVITE")) /\ Before(up, Acks(rings), Methods("INVITE"))
        BY <1>5 DEF InviteUp
    <2>2. None(up, Acks(rings))
        BY <1>1, <1>2, <2>1 DEF Taken1
    <2> QED BY <1>1, <1>2, <2>1, <2>2 DEF Taken1
<1>7. /\ NoneUp({"REGISTER"}) => NoneUp({"REGISTER"})'
      /\ NoneUp({"CANCEL"}) => NoneUp({"CANCEL"})'
      /\ CancelUp => CancelUp'
    BY <1>1, <1>2, <1>4 DEF Taken1, NoneUp, CancelUp
<1>8. /\ NoneUp({"REGISTER"})
      /\ \/ sm = "calling" /\ NoneUp({"CANCEL"})
         \/ sm = "cancelling" /\ CancelUp
    <2>1. sm \in {"calling", "cancelling"}
        BY <1>3 DEF OwnInv, FreeInv, WaitingInv, NoneUp, Phases
    <2>2. CASE sm = "calling"
        <3>1. NoneUp({"REGISTER", "CANCEL"})
            BY <2>2 DEF OwnInv, CallingInv
        <3> QED BY <2>2, <3>1 DEF NoneUp
    <2>3. CASE sm = "cancelling"
        BY <1>3, <2>3 DEF OwnInv, CancellingInv, NoneUp
    <2> QED BY <2>1, <2>2, <2>3
<1> DEFINE d == ReplyTo("401", "INVITE", rings)
<1>9. CASE Send(<<d>>) /\ UNCHANGED out
    <2>0. rings \in Nat /\ "401" \in ReplyKinds
        BY DEF NetTypeOK, ReplyKinds
    <2>1. d \in Datagrams /\ d.kind = "401"
        BY <2>0, ReplyType
    <2>2. Queued1(down, down', d)
        BY <1>9, <2>1, SendSays
    <2> HIDE DEF d
    <2>3. None(down, Answers) /\ out.call < rings /\ Settled
        BY <1>5 DEF InviteUp
    <2>4. d \notin Kinds({"487"}) /\ d \notin Kinds(Refusals)
        BY <2>1, DownSays DEF Refusals
    <2>5. Only(down', d)
        BY <2>0, <2>1, <2>2, <2>3, FirstAnswer
    <2>6. None(down', Kinds({"487"})) /\ None(down', Kinds(Refusals))
        <3>1. None(down, Kinds({"487"})) /\ None(down, Kinds(Refusals))
            BY <2>3, NoneOfKind, RefusalKinds
        <3> QED BY <2>2, <2>4, <3>1 DEF Queued1
    <2>7. Settled' /\ out'.call < rings'
        BY <1>1, <1>2, <1>4, <1>9, <2>3 DEF Settled, Taken1
    <2>8. sm = "calling" => CallingInv'
        BY <1>4, <1>6, <1>7, <1>8, <2>5, <2>7 DEF CallingInv, Challenged, NoneUp, d
    <2>9. sm = "cancelling" => CancellingInv'
        BY <1>4, <1>6, <1>7, <1>8, <2>6, <2>7 DEF CancellingInv, Cancellable, NoneUp
    <2> QED BY <1>4, <1>8, <1>9, <2>8, <2>9 DEF OwnInv
<1>10. CASE out' = [state |-> "ringing", call |-> rings] /\ UNCHANGED down
    <2>1. None(down, Answers) /\ None(down, Kinds({"487"})) /\ None(down, Kinds(Refusals))
        BY <1>5, NoneOfKind, RefusalKinds DEF InviteUp
    <2>2. sm = "calling" => CallingInv'
        BY <1>4, <1>6, <1>7, <1>8, <1>10, <2>1 DEF CallingInv, Ringing, NoneUp
    <2>3. sm = "cancelling" => CancellingInv'
        BY <1>4, <1>6, <1>7, <1>8, <1>10, <2>1 DEF CancellingInv, Cancellable, NoneUp
    <2>4. out'.call = rings /\ rings \in Nat
        BY <1>10 DEF NetTypeOK
    <2> QED BY <1>4, <1>8, <2>2, <2>3, <2>4 DEF OwnInv
<1> QED BY <1>1, <1>5, <1>9, <1>10 DEF ServeInvite

LEMMA OwnServeAck ==
    ASSUME NetTypeOK, OwnInv, ServeAck, sm \in Phases
    PROVE  OwnInv'
<1>1. PICK m \in Messages : m = Head(up) /\ m.method = "ACK" /\ Taken1(up, up', m)
    BY ServeSays DEF ServeAck
<1>2. /\ \A k : k # "ACK" => m \notin Methods(k) /\ \A c : m \notin OfOtherCall(k, c)
      /\ \A c : m \in Acks(c) <=> m.call = c
    BY <1>1, UpSays
<1>3. UNCHANGED <<sm, rings, down>>
    BY DEF ServeAck, ServerOnly, vars
<1>4. /\ out'.call = out.call
      /\ \/ UNCHANGED out /\ (m.call # out.call \/ out.state \notin Finals)
         \/ /\ m.call = out.call /\ out.state \in Finals
            /\ out'.state = IF out.state = "200" THEN "talking" ELSE "none"
    <2>1. out \in [state : OutStates, call : Nat]
        BY DEF NetTypeOK
    <2> QED BY <1>1, <2>1 DEF ServeAck, IsOut
<1>5. /\ \A k \in {"REGISTER", "INVITE", "CANCEL"} :
             /\ None(up', Methods(k)) <=> None(up, Methods(k))
             /\ One(up', Methods(k)) <=> One(up, Methods(k))
             /\ \A c : None(up', OfOtherCall(k, c)) <=> None(up, OfOtherCall(k, c))
             /\ \A c : Before(up, Acks(c), Methods(k)) => Before(up', Acks(c), Methods(k))
      /\ \A c : None(up, Acks(c)) => None(up', Acks(c)) /\ m.call # c
      /\ Before(up, Methods("INVITE"), Methods("CANCEL")) =>
             Before(up', Methods("INVITE"), Methods("CANCEL"))
    BY <1>1, <1>2 DEF Taken1
<1>6. Settled => Settled'
    BY <1>1, <1>2, <1>4 DEF Settled, Finals, Taken1
<1>7. out' # out => m.call = out.call /\ out.state \in Finals
    BY <1>4
<1>8. CASE sm \in {"idle", "registered", "call_established"}
    BY <1>3, <1>4, <1>5, <1>6, <1>8 DEF OwnInv, FreeInv, NoneUp
<1>9. CASE sm = "waiting_for_auth_reply"
    BY <1>3, <1>4, <1>5, <1>6, <1>9 DEF OwnInv, WaitingInv, NoneUp
<1>10. InviteUp => InviteUp'
    BY <1>3, <1>4, <1>5, <1>6 DEF InviteUp
<1>11. CASE sm = "calling"
    <2>1. Challenged => Challenged'
        BY <1>3, <1>4, <1>6 DEF Challenged
    <2>2. Ringing => Ringing'
        BY <1>3, <1>7 DEF Ringing, Finals
    <2>3. Answered /\ None(up, Acks(rings)) => Answered'
        BY <1>3, <1>5, <1>7 DEF Answered
    <2> QED BY <1>3, <1>4, <1>5, <1>10, <1>11, <2>1, <2>2, <2>3 DEF OwnInv, CallingInv, NoneUp
<1>12. CASE sm = "cancelling"
    <2>1. CancelUp => CancelUp'
        BY <1>3, <1>5 DEF CancelUp
    <2>2. /\ Cancellable({"ringing", "200", "486", "603", "none"}) =>
                 Cancellable({"ringing", "200", "486", "603", "none"})'
          /\ Cancellable({"200", "486", "603", "none"}) =>
                 Cancellable({"200", "486", "603", "none"})'
        BY <1>3, <1>4, <1>5, <1>6 DEF Cancellable, Finals
    <2>3. Cancelled => Cancelled'
        BY <1>3, <1>4 DEF Cancelled
    <2> QED BY <1>3, <1>4, <1>5, <1>10, <1>12, <2>1, <2>2, <2>3 DEF OwnInv, CancellingInv, NoneUp
<1> QED BY <1>8, <1>9, <1>11, <1>12 DEF Phases

LEMMA OwnServeCancel ==
    ASSUME NetTypeOK, OwnInv, ServeCancel, sm \in Phases
    PROVE  OwnInv'
<1> DEFINE ok == ReplyTo("200", "CANCEL", rings)
           no == ReplyTo("487", "INVITE", rings)
<1>1. PICK m \in Messages : m = Head(up) /\ m.method = "CANCEL" /\ Taken1(up, up', m)
    BY ServeSays DEF ServeCancel
<1>2. /\ \A k : k # "CANCEL" => m \notin Methods(k) /\ \A c : m \notin OfOtherCall(k, c)
      /\ m \in Methods("CANCEL") /\ \A c : m \notin Acks(c)
      /\ m \in OfOtherCall("CANCEL", rings) <=> m.call # rings
    BY <1>1, UpSays
<1>3. /\ UNCHANGED <<sm, rings>> /\ out.call \in Nat /\ rings \in Nat
      /\ out \in [state : OutStates, call : Nat]
    BY DEF ServeCancel, ServerOnly, vars, NetTypeOK
<1>4. ~None(up, Methods("CANCEL"))
    BY <1>1, <1>2 DEF Taken1
<1>5. sm = "cancelling"
    BY <1>4 DEF OwnInv, FreeInv, WaitingInv, CallingInv, NoneUp, Phases
<1>6. ~(InviteUp /\ Before(up, Methods("INVITE"), Methods("CANCEL")))
    <2>1. SUFFICES ASSUME InviteUp, Before(up, Methods("INVITE"), Methods("CANCEL")) PROVE FALSE
        OBVIOUS
    <2>2. None(up, Methods("INVITE"))
        BY <1>1, <1>2, <2>1 DEF Taken1
    <2> QED BY <2>1, <2>2, QueueSays DEF InviteUp
<1>7. /\ None(up, Methods("REGISTER")) /\ CancelUp /\ None(up, Methods("INVITE"))
      /\ None(down, Kinds({"487"})) /\ Cancellable({"ringing", "200", "486", "603", "none"})
    BY <1>4, <1>5, <1>6 DEF OwnInv, CancellingInv, NoneUp
<1>8. m.call = rings
    BY <1>1, <1>2, <1>7 DEF CancelUp, Taken1
<1>9. NoneUp({"INVITE", "CANCEL"})' /\ None(up', Methods("REGISTER"))
    BY <1>1, <1>2, <1>7 DEF Taken1, CancelUp, NoneUp
<1>10. \A c : None(up', Acks(c)) <=> None(up, Acks(c))
    BY <1>1, <1>2 DEF Taken1
<1>11. ok \in Datagrams /\ ok.kind = "200" /\ no \in Datagrams /\ no.kind = "487"
    BY <1>3, ReplyType DEF ReplyKinds, Finals
<1> HIDE DEF ok, no
<1>12. /\ ok \notin Kinds({"487"}) /\ ok \notin Kinds(Refusals)
       /\ no \in Kinds({"487"}) /\ no \notin Kinds(Refusals) /\ no \notin Kinds(ReplyKinds \ {"487"})
    BY <1>11, DownSays DEF Refusals
<1>13. CASE /\ IsOut({"ringing"}) /\ out' = [out EXCEPT !.state = "487"]
            /\ Send(<<ReplyTo("200", "CANCEL", out.call), ReplyTo("487", "INVITE", out.call)>>)
    <2>1. out.call = rings /\ out.state = "ringing" /\ Send(<<ok, no>>)
        BY <1>1, <1>8, <1>13 DEF IsOut, ok, no
    <2>2. None(down, Kinds(Refusals))
        BY <1>7, <2>1 DEF Cancellable, Settled
    <2>3. \E q : Queued1(down, q, ok) /\ Queued1(q, down', no)
        <3>1. down \in Seq(Datagrams) /\ down' = down \o <<ok, no>>
            BY <2>1 DEF NetTypeOK, Send
        <3>2. down \o <<ok, no>> = Append(Append(down, ok), no)
            BY <1>11, <3>1
        <3>3. Append(down, ok) \in Seq(Datagrams) /\ Queued1(down, Append(down, ok), ok)
            BY <1>11, <3>1, AppendSays
        <3>4. Queued1(Append(down, ok), Append(Append(down, ok), no), no)
            BY <1>11, <3>3, AppendSays
        <3> QED BY <3>1, <3>2, <3>3, <3>4
    <2>4. PICK q : Queued1(down, q, ok) /\ Queued1(q, down', no)
        BY <2>3
    <2>5. None(q, Kinds({"487"})) /\ None(q, Kinds(Refusals))
        BY <1>7, <1>12, <2>2, <2>4 DEF Queued1
    <2>6. /\ One(down', Kinds({"487"})) /\ None(down', Kinds(Refusals))
          /\ Before(down', Kinds(ReplyKinds \ {"487"}), Kinds({"487"}))
        BY <1>12, <2>4, <2>5, QueueSays DEF Queued1
    <2>7. out'.call = rings' /\ out'.state = "487"
        BY <1>3, <1>13, <2>1
    <2>8. Cancelled'
        BY <2>6, <2>7 DEF Cancelled
    <2> QED BY <1>3, <1>5, <1>9, <2>7, <2>8 DEF OwnInv, CancellingInv
<1>14. CASE ~IsOut({"ringing"}) /\ Send(<<ReplyTo("200", "CANCEL", m.call)>>) /\ UNCHANGED out
    <2>1. ~(out.call = rings /\ out.state = "ringing") /\ Send(<<ok>>)
        BY <1>1, <1>8, <1>14 DEF IsOut, ok
    <2>2. Queued1(down, down', ok)
        BY <1>11, <2>1, SendSays
    <2>3. /\ None(down', Kinds({"487"}))
          /\ None(down, Kinds(Refusals)) => None(down', Kinds(Refusals))
        BY <1>7, <1>12, <2>2 DEF Queued1
    <2>4. Settled => Settled'
        BY <1>10, <1>14 DEF Settled
    <2>5. Cancellable({"200", "486", "603", "none"})'
        BY <1>3, <1>7, <1>10, <1>14, <2>1, <2>3, <2>4 DEF Cancellable
    <2> QED BY <1>3, <1>5, <1>9, <1>14, <2>3, <2>5 DEF OwnInv, CancellingInv
<1> QED BY <1>1, <1>13, <1>14 DEF ServeCancel

\* The call that rings at the server is the client's last one, not answered yet.
LEMMA RingsOnly ==
    ASSUME NetTypeOK, OwnInv, sm \in Phases, out.state = "ringing"
    PROVE  /\ out.call = rings /\ None(up, Methods("REGISTER")) /\ None(up, Methods("INVITE"))
           /\ None(up, Acks(rings))
           /\ \/ sm = "calling" /\ None(up, Methods("CANCEL")) /\ None(down, Answers)
              \/ /\ sm = "cancelling" /\ CancelUp
                 /\ None(down, Kinds({"487"})) /\ None(down, Kinds(Refusals))
<1>1. ~Settled
    BY DEF Settled
<1>2. sm \in {"calling", "cancelling"}
    BY <1>1 DEF OwnInv, FreeInv, WaitingInv, Phases
<1>3. CASE sm = "calling"
    BY <1>1, <1>3 DEF OwnInv, CallingInv, InviteUp, Challenged, Ringing, Answered, NoneUp
<1>4. CASE sm = "cancelling"
    BY <1>1, <1>4 DEF OwnInv, CancellingInv, InviteUp, Cancellable, Cancelled
<1> QED BY <1>2, <1>3, <1>4

\* The call that rings is answered, or refused.
LEMMA OwnFinal ==
    ASSUME NetTypeOK, OwnInv, sm \in Phases, out.state = "ringing",
           UNCHANGED <<sm, rings, up>>, NEW final \in Refusals \union {"200"},
           out' = [out EXCEPT !.state = final],
           Send(<<ReplyTo(final, "INVITE", out.call)>>)
    PROVE  OwnInv'
<1> DEFINE d == ReplyTo(final, "INVITE", rings)
<1>1. /\ rings \in Nat /\ out \in [state : OutStates, call : Nat]
      /\ final \in ReplyKinds /\ final \in {"200", "486", "603"}
    BY DEF NetTypeOK, Refusals, ReplyKinds, Finals
<1>2. d \in Datagrams /\ d.kind = final
    BY <1>1, ReplyType
<1>3. out.call = rings /\ out'.call = rings /\ out'.state = final
    BY <1>1, RingsOnly
<1>4. Queued1(down, down', d)
    BY <1>2, <1>3, SendSays
<1> HIDE DEF d
<1>5. CASE sm = "calling"
    <2>1. Only(down', d)
        BY <1>1, <1>2, <1>4, <1>5, RingsOnly, FirstAnswer
    <2>2. Answered'
        BY <1>1, <1>3, <2>1 DEF Answered, d
    <2> QED BY <1>3, <1>1, <1>5, <2>2, RingsOnly DEF OwnInv, CallingInv, NoneUp
<1>6. CASE sm = "cancelling"
    <2>1. d \notin Kinds({"487"}) /\ (final = "200" => d \notin Kinds(Refusals))
        BY <1>1, <1>2, DownSays DEF Refusals
    <2>2. None(down', Kinds({"487"})) /\ (final = "200" => None(down', Kinds(Refusals)))
        BY <1>4, <1>6, <2>1, RingsOnly DEF Queued1
    <2>3. Cancellable({"ringing", "200", "486", "603", "none"})'
        BY <1>1, <1>3, <2>2, RingsOnly DEF Cancellable
    <2> QED BY <1>1, <1>3, <1>6, <2>2, <2>3, RingsOnly DEF OwnInv, CancellingInv, CancelUp
<1> QED BY <1>5, <1>6, RingsOnly

\* A final reply is repeated only while the CANCEL that lost the race awaits no answer.
LEMMA OwnRepeat ==
    ASSUME NetTypeOK, OwnInv, sm \in Phases, Quiet, UNCHANGED <<sm, rings, up, out>>,
           out.state \in Finals, Send(<<ReplyTo(out.state, "INVITE", out.call)>>)
    PROVE  OwnInv'
<1>1. \A S : None(up, S) /\ ~One(up, S) /\ None(down, S) /\ ~One(down, S)
    BY EmptySays DEF Quiet
<1>2. ~Settled
    BY <1>1 DEF Settled
<1>3. sm = "cancelling" /\ out.call = rings /\ out.state \in {"200", "486", "603"}
    BY <1>1, <1>2
    DEF OwnInv, FreeInv, WaitingInv, CallingInv, InviteUp, Challenged, Ringing, Answered,
        Only, CancellingInv, CancelUp, Cancelled, Cancellable, Phases, Finals
<1> DEFINE d == ReplyTo(out.state, "INVITE", rings)
<1>4. out.state \in ReplyKinds /\ rings \in Nat
    BY <1>3 DEF NetTypeOK, ReplyKinds
<1>5. d \in Datagrams /\ d.kind = out.state
    BY <1>4, ReplyType
<1>6. Queued1(down, down', d)
    BY <1>3, <1>5, SendSays
<1> HIDE DEF d
<1>7. d \notin Kinds({"487"}) /\ (out.state = "200" => d \notin Kinds(Refusals))
    BY <1>3, <1>5, DownSays DEF Refusals
<1>8. None(down', Kinds({"487"})) /\ (out.state = "200" => None(down', Kinds(Refusals)))
    BY <1>1, <1>6, <1>7 DEF Queued1
<1>9. Cancellable({"200", "486", "603", "none"})' /\ NoneUp({"INVITE", "CANCEL"})'
    BY <1>1, <1>3, <1>8 DEF Cancellable, NoneUp
<1> QED BY <1>1, <1>3, <1>8, <1>9 DEF OwnInv, CancellingInv
-----------------------------------------------------------------------------
(* OwnInv, as the client receives and handles *)

LEMMA ReceiveSays ==
    ASSUME NetTypeOK, ClientReceives
    PROVE  /\ Head(down) \in Datagrams /\ down' = Tail(down)
           /\ Taken1(down, down', Head(down))
<1>1. down \in Seq(Datagrams) /\ down # <<>> /\ down' = Tail(down)
    BY DEF NetTypeOK, ClientReceives
<1> QED BY <1>1, TailSays

\* The 200 that ends "calling" is the answer to the INVITE of the call.
LEMMA AnswerOfCall ==
    ASSUME NetTypeOK, OwnInv, sm = "calling", ClientReceives, NEW h, h = Head(down),
           h.kind \in ReplyKinds
    PROVE  /\ None(up, Methods("REGISTER")) /\ None(up, Methods("INVITE")) /\ None(up, Methods("CANCEL"))
           /\ None(up, Acks(rings)) /\ None(down', Answers)
           /\ \/ h.kind = "401" /\ out.call < rings /\ Settled
              \/ /\ h = ReplyTo(out.state, "INVITE", rings) /\ out.call = rings
                 /\ out.state \in {"200", "486", "603"} /\ h.kind = out.state
<1>1. h \in Datagrams /\ Taken1(down, down', h)
    BY ReceiveSays
<1>2. h \in Answers
    BY <1>1, DownSays
<1>3. ~None(down, Answers)
    BY <1>1, <1>2 DEF Taken1
<1>4. /\ None(up, Methods("REGISTER")) /\ None(up, Methods("INVITE")) /\ None(up, Methods("CANCEL"))
      /\ None(up, Acks(rings))
      /\ Challenged \/ Answered
    BY <1>3 DEF OwnInv, CallingInv, NoneUp, InviteUp, Ringing
<1>5. ASSUME NEW d, Only(down, d) PROVE h = d /\ None(down', Answers)
    <2>1. h \notin Answers \ {d}
        BY <1>1, <1>5 DEF Only, Taken1
    <2> QED BY <1>1, <1>2, <1>5, <2>1 DEF Only, Taken1
<1>6. CASE Challenged
    <2>1. h = ReplyTo("401", "INVITE", rings) /\ None(down', Answers)
        BY <1>5, <1>6 DEF Challenged
    <2>2. h.kind = "401"
        BY <2>1 DEF ReplyTo
    <2> QED BY <1>4, <1>6, <2>1, <2>2 DEF Challenged
<1>7. CASE Answered
    <2>1. h = ReplyTo(out.state, "INVITE", rings) /\ None(down', Answers)
        BY <1>5, <1>7 DEF Answered
    <2>2. h.kind = out.state
        BY <2>1 DEF ReplyTo
    <2> QED BY <1>4, <1>7, <2>1, <2>2 DEF Answered
<1> QED BY <1>4, <1>6, <1>7

LEMMA OwnReceiveRequest ==
    ASSUME NetTypeOK, OwnInv, sm \in Phases, ClientReceives, Head(down).kind \notin ReplyKinds
    PROVE  OwnInv' /\ sm' \in Phases
<1> DEFINE h == Head(down)
<1>1. h \in Datagrams /\ Taken1(down, down', h) /\ h.kind \in {"INVITE", "BYE", "other request"}
    BY ReceiveSays, DatagramKinds
<1>2. NoAnswer(h) /\ Keeps(down, down', h)
    BY <1>1, ForeignSays, KeepsSays
<1> HIDE DEF h
<1>3. /\ rings' = rings /\ UNCHANGED out
      /\ sm' = sm \/ {sm, sm'} \subseteq {"idle", "registered", "call_established"}
      /\ up' = up \/ Sends("200 OK", 0, {h})
    BY <1>1, ReceiveSeen DEF h
<1>4. \E x : Foreign(x) /\ Keeps(up, up', x)
    <2>1. CASE up' = up
        BY <2>1, SomeForeign, KeepsSays
    <2>2. CASE Sends("200 OK", 0, {h})
        <3>1. PICK m \in Messages : m.method = "200 OK" /\ Queued1(up, up', m)
            BY <2>2, SendsSays
        <3>2. Foreign(m) /\ Keeps(up, up', m)
            BY <3>1, ForeignSays, KeepsSays
        <3> QED BY <3>2
    <2> QED BY <1>3, <2>1, <2>2
<1>5. OwnInv'
    BY <1>2, <1>3, <1>4, OwnFrame
<1>6. sm' \in Phases
    BY <1>3 DEF Phases
<1> QED BY <1>5, <1>6

LEMMA OwnReceiveRegistering ==
    ASSUME NetTypeOK, OwnInv, sm = "waiting_for_auth_reply", ClientReceives,
           Head(down).kind \in ReplyKinds
    PROVE  OwnInv' /\ sm' \in Phases
<1> DEFINE h == Head(down)
           ok == ReplyTo("200", "REGISTER", 0)
           no == ReplyTo("401", "REGISTER", 0)
<1>1. h \in Datagrams /\ Taken1(down, down', h)
    BY ReceiveSays
<1>2. h \in Answers
    BY <1>1, DownSays
<1>3. ok.kind = "200" /\ no.kind = "401"
    BY DEF ReplyTo
<1> HIDE DEF h, ok, no
<1>4. ~None(down, Answers)
    BY <1>1, <1>2 DEF Taken1
<1>5. /\ NoneUp({"INVITE", "CANCEL"}) /\ Settled /\ None(up, Methods("REGISTER"))
      /\ Only(down, ok) \/ Only(down, no)
    BY <1>4 DEF OwnInv, WaitingInv, ok, no
<1>6. None(down', Answers) /\ (h = ok \/ h = no)
    BY <1>1, <1>2, <1>5 DEF Only, Taken1
<1>7. UNCHANGED <<rings, out>>
    BY ReceiveSeen DEF h
<1>8. CASE h = ok
    <2>1. sm' = "registered" /\ up' = up
        BY <1>3, <1>8, ReceiveSeen DEF h
    <2>2. FreeInv'
        BY <1>5, <1>6, <1>7, <2>1 DEF FreeInv, NoneUp, Settled
    <2> QED BY <1>7, <2>1, <2>2 DEF OwnInv, Phases
<1>9. CASE h = no
    <2>1. sm' = sm /\ Sends("REGISTER", 0, {})
        BY <1>3, <1>9, ReceiveSeen DEF h
    <2>2. PICK m \in Messages : m.method = "REGISTER" /\ Queued1(up, up', m)
        BY <2>1, SendsSays
    <2>3. /\ m \in Methods("REGISTER") /\ m \notin Methods("INVITE") /\ m \notin Methods("CANCEL")
          /\ \A c : m \notin Acks(c)
        BY <2>2, UpSays
    <2>4. One(up', Methods("REGISTER")) /\ NoneUp({"INVITE", "CANCEL"})' /\ Settled'
        BY <1>5, <1>7, <2>2, <2>3 DEF Queued1, NoneUp, Settled
    <2> QED BY <1>6, <1>7, <2>1, <2>4 DEF OwnInv, WaitingInv, Phases
<1> QED BY <1>6, <1>8, <1>9

LEMMA OwnReceiveCalling ==
    ASSUME NetTypeOK, OwnInv, sm = "calling", ClientReceives, Head(down).kind \in ReplyKinds
    PROVE  OwnInv' /\ sm' \in Phases
<1> DEFINE h == Head(down)
<1>1. /\ None(up, Methods("REGISTER")) /\ None(up, Methods("INVITE")) /\ None(up, Methods("CANCEL"))
      /\ None(up, Acks(rings)) /\ None(down', Answers)
      /\ \/ h.kind = "401" /\ out.call < rings /\ Settled
         \/ /\ out.call = rings /\ out.state \in {"200", "486", "603"} /\ h.kind = out.state
    BY AnswerOfCall
<1> HIDE DEF h
<1>2. UNCHANGED <<rings, out>> /\ out.call <= rings
    BY ReceiveSeen DEF h, OwnInv
<1>3. CASE h.kind = "401" /\ out.call < rings /\ Settled
    <2>1. sm' = sm /\ SendsTwo("ACK", "INVITE")
        BY <1>3, ReceiveSeen DEF h
    <2>2. PICK a, b : /\ Is(a, "ACK", rings', {}) /\ Is(b, "INVITE", rings', {})
                      /\ up' = Append(Append(up, a), b)
        BY <2>1 DEF SendsTwo
    <2> DEFINE q == Append(up, a)
    <2>3. up \in Seq(Messages) /\ a \in Messages /\ b \in Messages
        BY <2>2 DEF NetTypeOK, Is
    <2>4. q \in Seq(Messages) /\ Queued1(up, q, a)
        BY <2>3, AppendSays
    <2>5. up' = Append(q, b)
        BY <2>2
    <2> HIDE DEF q
    <2>6. Queued1(q, up', b)
        BY <2>3, <2>4, <2>5, AppendSays
    <2>7. /\ \A k : k # "ACK" => a \notin Methods(k) /\ \A c : a \notin OfOtherCall(k, c)
          /\ \A k : k # "INVITE" => b \notin Methods(k)
          /\ b \in Methods("INVITE") /\ b \notin OfOtherCall("INVITE", rings)
          /\ \A c : b \notin Acks(c)
        BY <1>2, <2>2, <2>3, UpSays DEF Is
    <2>8. /\ One(up', Methods("INVITE")) /\ NoneUp({"REGISTER", "CANCEL"})'
          /\ Before(q, Acks(rings), Methods("INVITE"))
        BY <1>1, <2>4, <2>6, <2>7, QueueSays DEF Queued1, NoneUp
    <2>9. Before(up', Acks(rings), Methods("INVITE"))
        BY <2>6, <2>7, <2>8 DEF Queued1
    <2>10. None(up', OfOtherCall("INVITE", rings))
        <3>1. OfOtherCall("INVITE", rings) \subseteq Methods("INVITE")
            BY DEF OfOtherCall, Methods
        <3>2. None(up, OfOtherCall("INVITE", rings))
            BY <1>1, <3>1, QueueSays
        <3> QED BY <2>4, <2>6, <2>7, <3>2 DEF Queued1
    <2>11. Settled'
        BY <1>2, <1>3, <2>4, <2>6 DEF Settled, Queued1
    <2>12. InviteUp'
        BY <1>1, <1>2, <1>3, <2>8, <2>9, <2>10, <2>11 DEF InviteUp
    <2> QED BY <1>2, <2>1, <2>8, <2>12 DEF OwnInv, CallingInv, Phases
<1>4. CASE out.call = rings /\ out.state \in {"200", "486", "603"} /\ h.kind = out.state
    <2>1. Sends("ACK", rings, {}) /\ sm' \in {"registered", "call_established"}
        BY <1>4, ReceiveSeen DEF h, Refusals
    <2>2. PICK m \in Messages : m.method = "ACK" /\ m.call = rings /\ Queued1(up, up', m)
        BY <2>1, SendsSays
    <2>3. m \in Acks(rings) /\ \A k : k # "ACK" => m \notin Methods(k)
        BY <2>2, UpSays
    <2>4. NoneUp({"REGISTER", "INVITE", "CANCEL"})' /\ ~None(up', Acks(rings))
        BY <1>1, <2>2, <2>3 DEF Queued1, NoneUp
    <2>5. FreeInv'
        BY <1>1, <1>2, <1>4, <2>4 DEF FreeInv, Settled
    <2> QED BY <1>2, <2>1, <2>5 DEF OwnInv, Phases
<1> QED BY <1>1, <1>3, <1>4

\* While it cancels, the client acknowledges refusals, and the 487 ends the call.
LEMMA OwnReceiveCancelling ==
    ASSUME NetTypeOK, OwnInv, sm = "cancelling", ClientReceives, Head(down).kind \in ReplyKinds
    PROVE  OwnInv' /\ sm' \in Phases
<1> DEFINE h == Head(down)
<1>1. h \in Datagrams /\ Taken1(down, down', h) /\ h.kind \in ReplyKinds
    BY ReceiveSays
<1>2. h \in Answers /\ \A K : h \in Kinds(K) <=> h.kind \in K
    BY <1>1, DownSays
<1> HIDE DEF h
<1>3. ~None(down, Answers)
    BY <1>1, <1>2 DEF Taken1
<1>4. UNCHANGED <<rings, out>> /\ out.call <= rings
    BY ReceiveSeen DEF h, OwnInv
<1> DEFINE Until == /\ CancelUp /\ None(up, Methods("INVITE")) /\ None(down, Kinds({"487"}))
                    /\ Cancellable({"ringing", "200", "486", "603", "none"})
           Ended == NoneUp({"INVITE", "CANCEL"}) /\ Cancelled
           After == /\ NoneUp({"INVITE", "CANCEL"}) /\ None(down, Kinds({"487"}))
                    /\ Cancellable({"200", "486", "603", "none"})
<1>5. None(up, Methods("REGISTER")) /\ (Until \/ Ended \/ After)
    <2>1. ~InviteUp
        BY <1>3 DEF InviteUp
    <2>2. CancellingInv
        BY DEF OwnInv
    <2> QED BY <2>1, <2>2 DEF CancellingInv
<1>6. \A K : None(down, Kinds(K)) => None(down', Kinds(K))
    BY <1>1 DEF Taken1
<1>7. CASE h.kind = "487"
    <2>1. NoneUp({"INVITE", "CANCEL"}) /\ Cancelled
        BY <1>1, <1>2, <1>5, <1>7 DEF Taken1
    <2>2. sm' = "registered" /\ Sends("ACK", rings, {})
        BY <1>7, ReceiveSeen DEF h
    <2>3. PICK m \in Messages : m.method = "ACK" /\ m.call = rings /\ Queued1(up, up', m)
        BY <2>2, SendsSays
    <2>4. m \in Acks(rings) /\ \A k : k # "ACK" => m \notin Methods(k)
        BY <2>3, UpSays
    <2>5. NoneUp({"REGISTER", "INVITE", "CANCEL"})' /\ ~None(up', Acks(rings))
        BY <1>5, <2>1, <2>3, <2>4 DEF Queued1, NoneUp
    <2>6. None(down', Kinds({"487"})) /\ None(down', Kinds(ReplyKinds \ {"487"}))
        BY <1>1, <1>2, <1>6, <1>7, <2>1 DEF Cancelled, Taken1
    <2>7. None(down', Answers)
        <3>1. Answers \subseteq Kinds({"487"}) \union Kinds(ReplyKinds \ {"487"})
            BY DEF Answers, Kinds
        <3> QED BY <2>6, <3>1, QueueSays
    <2>8. FreeInv'
        BY <1>4, <2>1, <2>5, <2>7 DEF FreeInv, Settled, Cancelled
    <2> QED BY <1>4, <2>2, <2>8 DEF OwnInv, Phases
<1>8. CASE h.kind # "487"
    <2>1. sm' = sm /\ (up' = up \/ (h.kind \in Refusals /\ Sends("ACK", rings, {})))
        <3>1. h.kind \in Refusals \union {"200", "401"}
            BY <1>1, <1>8 DEF Refusals, ReplyKinds, Finals
        <3>2. CASE h.kind = "200"
            <4>1. /\ up' = up
                  /\ sm' = IF sm = "waiting_for_auth_reply" THEN "registered"
                           ELSE IF sm = "call_established" THEN "X" ELSE sm
                BY <3>2, ReceiveSeen DEF h
            <4> QED BY <4>1
        <3>3. CASE h.kind = "401"
            <4>1. /\ sm' = sm
                  /\ sm \notin {"waiting_for_auth_reply", "calling"} => up' = up
                BY <3>3, ReceiveSeen DEF h
            <4> QED BY <4>1
        <3>4. CASE h.kind \in Refusals
            BY <3>4, ReceiveSeen DEF h
        <3> QED BY <3>1, <3>2, <3>3, <3>4
    <2>2. /\ One(down, Kinds({"487"})) => One(down', Kinds({"487"}))
          /\ \A K, L : Before(down, Kinds(K), Kinds(L)) => Before(down', Kinds(K), Kinds(L))
        BY <1>1, <1>2, <1>8 DEF Taken1
    <2>3. CASE up' = up
        <3>1. Settled => Settled'
            BY <1>4, <2>3 DEF Settled
        <3>2. \A states : Cancellable(states) => Cancellable(states)'
            BY <1>4, <1>6, <2>3, <3>1 DEF Cancellable
        <3>3. Cancelled => Cancelled'
            BY <1>4, <1>6, <2>2 DEF Cancelled
        <3> QED BY <1>4, <1>5, <1>6, <2>1, <2>3, <3>2, <3>3 DEF OwnInv, CancellingInv,
                   CancelUp, NoneUp, Phases
    <2>4. CASE h.kind \in Refusals /\ Sends("ACK", rings, {})
        <3>1. ~None(down, Kinds(Refusals))
            BY <1>1, <1>2, <2>4 DEF Taken1
        <3>2. PICK m \in Messages : m.method = "ACK" /\ Queued1(up, up', m)
            BY <2>4, SendsSays
        <3>3. /\ \A k : k # "ACK" => m \notin Methods(k) /\ \A c : m \notin OfOtherCall(k, c)
            BY <3>2, UpSays
        <3>4. /\ \A k \in {"REGISTER", "INVITE", "CANCEL"} : None(up, Methods(k)) =>
                                                                 None(up', Methods(k))
              /\ CancelUp => CancelUp'
            BY <1>4, <3>2, <3>3 DEF CancelUp, Queued1
        <3>5. out.call = rings /\ out.state \in {"486", "603", "none"}
            BY <1>5, <3>1 DEF Cancellable, Cancelled
        <3>6. \A states : Cancellable(states) => Cancellable(states)'
            <4>1. rings \in Nat
                BY DEF NetTypeOK
            <4> QED BY <1>4, <1>6, <3>5, <4>1 DEF Cancellable
        <3> QED BY <1>4, <1>5, <1>6, <2>1, <3>1, <3>4, <3>6 DEF OwnInv, CancellingInv,
                   Cancelled, NoneUp, Phases
    <2> QED BY <2>1, <2>3, <2>4
<1> QED BY <1>7, <1>8

LEMMA OwnReceive ==
    ASSUME NetTypeOK, OwnInv, sm \in Phases, ClientReceives
    PROVE  OwnInv' /\ sm' \in Phases
<1>1. CASE Head(down).kind \notin ReplyKinds
    BY <1>1, OwnReceiveRequest
<1>2. CASE Head(down).kind \in ReplyKinds
    <2>1. Head(down) \in Answers /\ Taken1(down, down', Head(down))
        BY <1>2, ReceiveSays, DownSays
    <2>2. ~None(down, Answers)
        BY <2>1 DEF Taken1
    <2>3. sm \in {"waiting_for_auth_reply", "calling", "cancelling"}
        BY <2>2 DEF OwnInv, FreeInv, Phases
    <2> QED BY <1>2, <2>3, OwnReceiveRegistering, OwnReceiveCalling, OwnReceiveCancelling
<1> QED BY <1>1, <1>2
-----------------------------------------------------------------------------
(* The queue of handlers and the timers *)

LEMMA TakeSays ==
    ASSUME TypeOK, NEW h, Take(h)
    PROVE  Taken1(ready, ready', h)
<1>1. ready \in Seq(Handlers) /\ ready # <<>> /\ ready' = Tail(ready) /\ Head(ready) = h
    BY DEF TypeOK, Take
<1> QED BY <1>1, TailSays

LEMMA PostSays ==
    ASSUME TypeOK, NEW h \in Handlers, Post(h)
    PROVE  Queued1(ready, ready', h) /\ UNCHANGED sm
<1>1. ready \in Seq(Handlers) /\ ready' = Append(ready, h) /\ UNCHANGED sm
    BY DEF TypeOK, Post, Enqueue
<1> QED BY <1>1, AppendSays

LEMMA RegistersFromRest ==
    ASSUME TypeOK, HandlersInv,
           \/ sm \in {"idle", "registered"}
           \/ Take("ev_reply_timeout")
           \/ sm # "idle" /\ Take("ev_start")
    PROVE  sm \in {"idle", "registered"}
<1>1. ~Take("ev_reply_timeout")
    BY TakeSays DEF HandlersInv, Taken1
<1>2. ~(sm # "idle" /\ Take("ev_start"))
    BY TakeSays DEF HandlersInv, Taken1
<1> QED BY <1>1, <1>2

\* No handler queues another one, and only ev_start leads out of "idle".
LEMMA HandlersHandle ==
    ASSUME TypeOK, HandlersInv, Handle
    PROVE  HandlersInv'
<1>1. /\ timer \in [Timers -> BOOLEAN] /\ {"restart", "command", "reregister"} \subseteq Timers
    BY DEF TypeOK, Timers
<1>2. ASSUME NEW from, BeginRegistration(from) 
      PROVE  /\ sm' = "waiting_for_auth_reply" /\ ~timer'["restart"] /\ UNCHANGED open
    BY <1>1, <1>2 DEF BeginRegistration, RegisterUnauth, CommandTimerArmed, HandlersInv
<1>3. ASSUME Drop PROVE UNCHANGED <<sm, timer, open>>
    BY <1>3 DEF Drop
<1>4. CASE HandleStart
    <2>1. Taken1(ready, ready', "ev_start")
        BY <1>4, TakeSays DEF HandleStart
    <2>2. sm = "idle" /\ One(ready, {"ev_start"})
        BY <2>1 DEF HandlersInv, Taken1
    <2>3. sm' = "waiting_for_auth_reply" /\ ~timer'["restart"]
        BY <1>2, <1>4, <2>2 DEF HandleStart
    <2>4. None(ready', {"ev_start"}) /\ None(ready', {"ev_reply_timeout"})
        BY <2>1, <2>2 DEF HandlersInv, Taken1
    <2> QED BY <2>3, <2>4 DEF HandlersInv, Phases
<1>5. CASE HandleReplyTimeout
    <2>1. Taken1(ready, ready', "ev_reply_timeout")
        BY <1>5, TakeSays DEF HandleReplyTimeout
    <2> QED BY <2>1 DEF HandlersInv, Taken1
<1>6. ASSUME NEW h, h # "ev_start", Take(h)
      PROVE  /\ None(ready', {"ev_reply_timeout"})
             /\ None(ready, {"ev_start"}) => None(ready', {"ev_start"})
             /\ One(ready, {"ev_start"}) => One(ready', {"ev_start"})
    <2>1. Taken1(ready, ready', h) /\ h \notin {"ev_start"}
        BY <1>6, TakeSays
    <2> QED BY <2>1 DEF HandlersInv, Taken1
<1>7. CASE HandleReregister
    <2>1. /\ None(ready', {"ev_reply_timeout"})
          /\ None(ready, {"ev_start"}) => None(ready', {"ev_start"})
          /\ One(ready, {"ev_start"}) => One(ready', {"ev_start"})
        BY <1>6, <1>7 DEF HandleReregister
    <2>2. CASE BeginRegistration({"registered"})
        <3>1. sm = "registered"
            BY <2>2 DEF BeginRegistration
        <3> QED BY <1>2, <2>1, <2>2, <3>1 DEF HandlersInv, Phases
    <2>3. CASE UNCHANGED <<sm, open>> /\ timer' = ScheduleReregister(timer)
        <3>1. timer'["restart"] = timer["restart"] /\ timer'["command"] = timer["command"]
            BY <1>1, <2>3 DEF ScheduleReregister
        <3> QED BY <2>1, <2>3, <3>1 DEF HandlersInv
    <2>4. CASE Drop
        BY <1>3, <2>1, <2>4 DEF HandlersInv
    <2> QED BY <1>7, <2>2, <2>3, <2>4 DEF HandleReregister
<1>8. CASE HandleRequestCall
    <2>1. /\ None(ready', {"ev_reply_timeout"})
          /\ None(ready, {"ev_start"}) => None(ready', {"ev_start"})
          /\ One(ready, {"ev_start"}) => One(ready', {"ev_start"})
        BY <1>6, <1>8 DEF HandleRequestCall
    <2>2. /\ UNCHANGED <<timer, open>>
          /\ sm' = sm \/ (sm = "registered" /\ sm' = "calling")
        BY <1>3, <1>8 DEF HandleRequestCall
    <2> QED BY <2>1, <2>2 DEF HandlersInv, Phases
<1>9. CASE HandleCancelCall
    <2>1. /\ None(ready', {"ev_reply_timeout"})
          /\ None(ready, {"ev_start"}) => None(ready', {"ev_start"})
          /\ One(ready, {"ev_start"}) => One(ready', {"ev_start"})
        BY <1>6, <1>9 DEF HandleCancelCall
    <2>2. /\ UNCHANGED <<timer, open>>
          /\ sm' = sm \/ (sm = "calling" /\ sm' = "cancelling")
        BY <1>3, <1>9 DEF HandleCancelCall
    <2> QED BY <2>1, <2>2 DEF HandlersInv, Phases
<1> QED BY <1>4, <1>5, <1>7, <1>8, <1>9 DEF Handle

\* What rx does to the timers, and that it does not lead back to "idle".
LEMMA ReceiveTimers ==
    ASSUME TypeOK, NEW p, Rx(p),
           p.kind \in {"200", "401", "486", "487", "603", "INVITE", "BYE", "other request"}
    PROVE  /\ TakePacket(p.rest) /\ UNCHANGED open /\ timer'["restart"] = timer["restart"]
           /\ timer'["command"] => sm' = "waiting_for_auth_reply"
           /\ sm' = "idle" <=> sm = "idle"
<1>1. timer \in [Timers -> BOOLEAN] /\ {"restart", "command", "reregister"} \subseteq Timers
    BY DEF TypeOK, Timers
<1>2. ASSUME timer' = CommandTimerOff
      PROVE  timer'["restart"] = timer["restart"] /\ ~timer'["command"]
    BY <1>1, <1>2 DEF CommandTimerOff
<1>3. ASSUME NEW sent, Stay(sent)
      PROVE  UNCHANGED sm /\ timer' = CommandTimerOff
    BY <1>3 DEF Stay
<1>4. CASE RxOther(p)
    BY <1>2, <1>3, <1>4 DEF RxOther, Rx
<1>5. CASE RxInvite(p)
    <2>1. timer' = CommandTimerOff
        BY <1>3, <1>5 DEF RxInvite
    <2> QED BY <1>2, <1>3, <1>5, <2>1 DEF RxInvite, Rx
<1>6. CASE RxBye(p)
    <2>1. timer' = CommandTimerOff
        BY <1>3, <1>6 DEF RxBye
    <2> QED BY <1>2, <1>3, <1>6, <2>1 DEF RxBye, Rx
<1>7. CASE RxOk(p)
    <2>1. CASE timer' = CommandTimerOff
        BY <1>2, <1>3, <1>7, <2>1 DEF RxOk, Rx
    <2>2. CASE /\ sm' = "registered" /\ sm = "waiting_for_auth_reply"
               /\ timer' = ScheduleReregister(CommandTimerOff)
        <3>1. timer'["restart"] = timer["restart"] /\ ~timer'["command"]
            BY <1>1, <2>2 DEF ScheduleReregister, CommandTimerOff
        <3> QED BY <1>7, <2>2, <3>1 DEF RxOk, Rx
    <2> QED BY <1>3, <1>7, <2>1, <2>2 DEF RxOk
<1>8. CASE RxUnauthorized(p)
    <2>1. CASE sm = "waiting_for_auth_reply"
        <3>1. sm' = sm /\ timer' = CommandTimerArmed
            BY <1>8, <2>1 DEF RxUnauthorized, RegisterAuth
        <3>2. timer'["restart"] = timer["restart"]
            BY <1>1, <3>1 DEF CommandTimerArmed
        <3> QED BY <1>8, <2>1, <3>1, <3>2 DEF RxUnauthorized, Rx
    <2>2. CASE sm # "waiting_for_auth_reply"
        BY <1>2, <1>8, <2>2 DEF RxUnauthorized, Rx
    <2> QED BY <2>1, <2>2
<1>9. CASE RxRequestCancelled(p)
    <2>1. timer' = CommandTimerOff
        BY <1>3, <1>9 DEF RxRequestCancelled
    <2> QED BY <1>2, <1>3, <1>9, <2>1 DEF RxRequestCancelled, EndedBy487, Rx
<1>10. CASE RxDeclined(p)
    BY <1>2, <1>10 DEF RxDeclined, Rx
<1> QED BY <1>4, <1>5, <1>6, <1>7, <1>8, <1>9, <1>10
    DEF Rx, RxUnparsable, RxServerError, RxInviteFromSelf, RxInfoDtmf

LEMMA HandlersReceive ==
    ASSUME TypeOK, NetTypeOK, HandlersInv, ClientReceives, sm' \in Phases
    PROVE  HandlersInv'
<1> DEFINE p == Parsed(Head(down))
<1>1. Rx(p)
    BY DEF ClientReceives
<1>2. p.kind \in {"200", "401", "486", "487", "603", "INVITE", "BYE", "other request"}
    BY ReceiveSays, DatagramKinds DEF Parsed, ReplyKinds, Finals
<1>0. p.rest = "none"
    BY DEF Parsed
<1> HIDE DEF p
<1>3. /\ TakePacket(p.rest) /\ UNCHANGED open /\ timer'["restart"] = timer["restart"]
      /\ timer'["command"] => sm' = "waiting_for_auth_reply"
      /\ sm' = "idle" <=> sm = "idle"
    BY <1>1, <1>2, ReceiveTimers
<1>4. Taken1(ready, ready', "rx")
    BY <1>0, <1>3, TakeSays DEF TakePacket, Take
<1>5. /\ None(ready', {"ev_reply_timeout"})
      /\ None(ready, {"ev_start"}) => None(ready', {"ev_start"})
      /\ One(ready, {"ev_start"}) => One(ready', {"ev_start"})
    BY <1>4 DEF HandlersInv, Taken1
<1> QED BY <1>3, <1>5 DEF HandlersInv

\* What is queued while the client is not in "idle" is no ev_start.
LEMMA HandlersQueue ==
    ASSUME TypeOK, HandlersInv, NEW h \in Handlers \ {"ev_start", "ev_reply_timeout"}, Post(h),
           UNCHANGED open,
           \A t \in {"restart", "command"} : timer'[t] = timer[t]
    PROVE  HandlersInv'
<1>1. Queued1(ready, ready', h) /\ UNCHANGED sm
    BY PostSays
<1>2. /\ None(ready', {"ev_reply_timeout"})
      /\ None(ready, {"ev_start"}) => None(ready', {"ev_start"})
      /\ One(ready, {"ev_start"}) => One(ready', {"ev_start"})
    BY <1>1 DEF HandlersInv, Queued1
<1> QED BY <1>1, <1>2 DEF HandlersInv

LEMMA HandlersClient ==
    ASSUME TypeOK, NetTypeOK, HandlersInv, OwnInv, Client, Smooth'
    PROVE  HandlersInv'
<1>1. CASE sm = "idle" /\ Start
    <2>1. ~open /\ open' /\ UNCHANGED <<timer, sm>> /\ Queued1(ready, ready', "ev_start")
        BY <1>1, PostSays DEF Start, Handlers
    <2>2. None(ready', {"ev_reply_timeout"}) /\ One(ready', {"ev_start"})
        BY <1>1, <2>1 DEF HandlersInv, Queued1
    <2> QED BY <1>1, <2>1, <2>2 DEF HandlersInv
<1>2. CASE ClientHandles
    BY <1>2, HandlersHandle DEF ClientHandles
<1>3. CASE ClientReceives
    BY <1>3, OwnReceive, HandlersReceive DEF HandlersInv
<1>4. CASE DatagramWaits
    BY <1>4, HandlersQueue DEF DatagramWaits, DatagramArrives, Handlers
<1>5. CASE User
    BY <1>5, HandlersQueue DEF User, RequestRing, RequestCancel, Handlers
<1>6. ASSUME NEW t \in Timers, TimerRuns(t) PROVE HandlersInv'
    <2>1. timer[t] /\ timer' = [timer EXCEPT ![t] = FALSE] /\ Post(Expiry[t]) /\ UNCHANGED open
        BY <1>6 DEF TimerRuns, TimerExpires
    <2>2. t # "restart"
        BY <2>1 DEF HandlersInv
    <2>3. t # "command"
        <3> SUFFICES ASSUME t = "command" PROVE FALSE
            OBVIOUS
        <3>1. sm = "waiting_for_auth_reply"
            BY <2>1 DEF HandlersInv
        <3>2. up # <<>> \/ down # <<>>
            BY <3>1, EmptySays DEF OwnInv, WaitingInv, Only
        <3>3. faults \in Nat /\ faults' = faults + 1 /\ faults' = 0
            BY <1>6, <3>2 DEF TimerRuns, Smooth, NetTypeOK
        <3> QED BY <3>3
    <2>4. t = "reregister" /\ Expiry[t] = "ev_reregister"
        BY <2>2, <2>3 DEF Timers, Expiry
    <2>5. \A s \in {"restart", "command"} : timer'[s] = timer[s]
        BY <2>1, <2>4 DEF TypeOK, Timers
    <2> QED BY <2>1, <2>4, <2>5, HandlersQueue DEF Handlers
<1> QED BY <1>1, <1>2, <1>3, <1>4, <1>5, <1>6 DEF Client

LEMMA HandlersSame ==
    ASSUME HandlersInv, UNCHANGED vars
    PROVE  HandlersInv'
BY DEF HandlersInv, vars

LEMMA OwnHandle ==
    ASSUME TypeOK, NetTypeOK, HandlersInv, OwnInv, ClientHandles
    PROVE  OwnInv'
<1>1. UNCHANGED <<down, out>> /\ rings \in Nat /\ out.call \in Nat /\ out.call <= rings
    BY HandleSeen DEF OwnInv, NetTypeOK
<1>2. CASE up' = up /\ rings' = rings /\ sm' = sm
    BY <1>1, <1>2, SomeForeign, KeepsSays, OwnFrame DEF HandlersInv
<1>3. CASE /\ Sends("REGISTER", 0, {}) /\ rings' = rings
           /\ sm' = "waiting_for_auth_reply" /\ sm \in {"idle", "registered"}
    <2>1. PICK m \in Messages : m.method = "REGISTER" /\ Queued1(up, up', m)
        BY <1>3, SendsSays
    <2>2. /\ m \in Methods("REGISTER") /\ m \notin Methods("INVITE") /\ m \notin Methods("CANCEL")
          /\ \A c : m \notin Acks(c)
        BY <2>1, UpSays
    <2>3. FreeInv
        BY <1>3 DEF OwnInv
    <2>4. /\ One(up', Methods("REGISTER")) /\ NoneUp({"INVITE", "CANCEL"})' /\ Settled'
          /\ None(down', Answers)
        BY <1>1, <2>1, <2>2, <2>3 DEF Queued1, FreeInv, NoneUp, Settled
    <2> QED BY <1>1, <1>3, <2>4 DEF OwnInv, WaitingInv
<1>4. CASE /\ Sends("INVITE", rings', {}) /\ rings' = rings + 1
           /\ sm = "registered" /\ sm' = "calling"
    <2>1. PICK m \in Messages : m.method = "INVITE" /\ m.call = rings' /\ Queued1(up, up', m)
        BY <1>4, SendsSays
    <2>2. /\ m \in Methods("INVITE") /\ m \notin Methods("REGISTER") /\ m \notin Methods("CANCEL")
          /\ \A c : m \notin Acks(c)
          /\ m \notin OfOtherCall("INVITE", rings')
        BY <2>1, UpSays
    <2>3. FreeInv
        BY <1>4 DEF OwnInv
    <2>4. /\ One(up', Methods("INVITE")) /\ NoneUp({"REGISTER", "CANCEL"})' /\ Settled'
          /\ None(down', Answers)
        BY <1>1, <2>1, <2>2, <2>3 DEF Queued1, FreeInv, NoneUp, Settled
    <2>5. None(up', OfOtherCall("INVITE", rings'))
        <3>1. OfOtherCall("INVITE", rings') \subseteq Methods("INVITE")
            BY DEF OfOtherCall, Methods
        <3>2. None(up, Methods("INVITE"))
            BY <2>3 DEF FreeInv, NoneUp
        <3>3. None(up, OfOtherCall("INVITE", rings'))
            BY <3>1, <3>2, QueueSays
        <3> QED BY <2>1, <2>2, <3>3 DEF Queued1
    <2>6. Before(up', Acks(rings'), Methods("INVITE"))
        <3>1. Before(up, Acks(rings'), Methods("INVITE"))
            BY <2>3, QueueSays DEF FreeInv, NoneUp
        <3> QED BY <2>1, <2>2, <3>1 DEF Queued1
    <2>7. out'.call < rings' /\ out'.call <= rings'
        BY <1>1, <1>4
    <2>8. InviteUp'
        BY <2>4, <2>5, <2>6, <2>7 DEF InviteUp
    <2> QED BY <1>4, <2>4, <2>7, <2>8 DEF OwnInv, CallingInv
<1>5. CASE /\ Sends("CANCEL", rings, {}) /\ rings' = rings
           /\ sm = "calling" /\ sm' = "cancelling"
    <2>1. PICK m \in Messages : m.method = "CANCEL" /\ m.call = rings /\ Queued1(up, up', m)
        BY <1>5, SendsSays
    <2>2. /\ m \in Methods("CANCEL") /\ \A c : m \notin Acks(c)
          /\ \A k : k # "CANCEL" => m \notin Methods(k) /\ \A c : m \notin OfOtherCall(k, c)
          /\ m \notin OfOtherCall("CANCEL", rings)
        BY <2>1, UpSays
    <2>3. CallingInv
        BY <1>5 DEF OwnInv
    <2>4. None(up, Methods("REGISTER")) /\ None(up, Methods("CANCEL"))
        BY <2>3 DEF CallingInv, NoneUp
    <2>5. None(up', Methods("REGISTER"))
        BY <2>1, <2>2, <2>4 DEF Queued1
    <2>6. CancelUp'
        <3>1. OfOtherCall("CANCEL", rings) \subseteq Methods("CANCEL")
            BY DEF OfOtherCall, Methods
        <3>2. None(up, OfOtherCall("CANCEL", rings))
            BY <2>4, <3>1, QueueSays
        <3> QED BY <1>5, <2>1, <2>2, <2>4, <3>2 DEF Queued1, CancelUp
    <2>7. Settled => Settled'
        BY <1>1, <2>1 DEF Settled, Queued1
    <2>8. CASE InviteUp
        <3>1. InviteUp'
            BY <1>1, <1>5, <2>1, <2>2, <2>7, <2>8 DEF InviteUp, Queued1
        <3>2. Before(up, Methods("INVITE"), Methods("CANCEL"))
            BY <2>4, QueueSays
        <3>3. Before(up', Methods("INVITE"), Methods("CANCEL"))
            BY <2>1, <2>2, <3>2 DEF Queued1
        <3> QED BY <1>1, <1>5, <2>5, <2>6, <3>1, <3>3 DEF OwnInv, CancellingInv
    <2>9. CASE ~InviteUp
        <3>1. None(up, Methods("INVITE")) /\ None(up, Acks(rings)) /\ (Challenged \/ Ringing \/ Answered)
            BY <2>3, <2>9 DEF CallingInv
        <3>2. None(up', Methods("INVITE")) /\ None(up', Acks(rings))
            BY <2>1, <2>2, <3>1 DEF Queued1
        <3>3. /\ None(down, Kinds({"487"}))
              /\ \/ out.state \in {"486", "603"} /\ out.call = rings
                 \/ None(down, Kinds(Refusals))
            <4>1. CASE Ringing
                BY <4>1, NoneOfKind, RefusalKinds DEF Ringing
            <4>2. ASSUME NEW d, Only(down, d), NEW K \in SUBSET ReplyKinds, d.kind \notin K
                  PROVE  None(down, Kinds(K))
                <5>1. Kinds(K) \subseteq Answers \ {d}
                    BY <4>2 DEF Kinds, Answers
                <5> QED BY <4>2, <5>1, QueueSays DEF Only
            <4>3. CASE Challenged
                <5>1. ReplyTo("401", "INVITE", rings).kind = "401"
                    BY DEF ReplyTo
                <5> QED BY <4>2, <4>3, <5>1, RefusalKinds DEF Challenged, Refusals
            <4>4. CASE Answered
                <5>1. ReplyTo(out.state, "INVITE", rings).kind = out.state
                    BY DEF ReplyTo
                <5> QED BY <4>2, <4>4, <5>1, RefusalKinds DEF Answered, Refusals
            <4> QED BY <3>1, <4>1, <4>3, <4>4
        <3>4. Cancellable({"ringing", "200", "486", "603", "none"})'
            BY <1>1, <1>5, <2>7, <3>1, <3>2, <3>3 DEF Cancellable, Challenged, Ringing, Answered
        <3> QED BY <1>1, <1>5, <2>5, <2>6, <3>2, <3>3, <3>4 DEF OwnInv, CancellingInv
    <2> QED BY <2>8, <2>9
<1> QED BY <1>2, <1>3, <1>4, <1>5, HandleSeen, RegistersFromRest

\* What changes neither what is under way nor the call the client places.
LEMMA OwnStill ==
    ASSUME OwnInv, sm \in Phases, UNCHANGED <<sm, up, down, out, rings>>
    PROVE  OwnInv'
BY SomeForeign, KeepsSays, OwnFrame

LEMMA OwnClient ==
    ASSUME TypeOK, NetTypeOK, HandlersInv, OwnInv, Client
    PROVE  OwnInv'
<1>1. sm \in Phases
    BY DEF HandlersInv
<1>2. CASE ClientHandles
    BY <1>2, OwnHandle
<1>3. CASE ClientReceives
    BY <1>1, <1>3, OwnReceive
<1>4. CASE (sm = "idle" /\ Start /\ UNCHANGED network) \/ DatagramWaits \/ User
    BY <1>1, <1>4, OwnStill DEF Start, DatagramWaits, DatagramArrives, User, RequestRing,
       RequestCancel, Post, network
<1>5. CASE \E t \in Timers : TimerRuns(t)
    BY <1>1, <1>5, OwnStill DEF TimerRuns, TimerExpires, Post
<1> QED BY <1>2, <1>3, <1>4, <1>5 DEF Client

\* What the server does that has nothing to do with the client's own requests.
LEMMA OwnServeOther ==
    ASSUME NetTypeOK, OwnInv, sm \in Phases, UNCHANGED <<sm, rings>>,
           \/ UNCHANGED up
           \/ Serve("200 OK"),
           \/ UNCHANGED down
           \/ \E d \in Datagrams : d.kind \notin ReplyKinds /\ Send(<<d>>),
           \/ UNCHANGED out
           \/ /\ out'.call = out.call
              /\ out.state \in {"talking", "hanging up"} /\ out'.state \in {"hanging up", "none"}
    PROVE  OwnInv'
<1>1. \E x : Foreign(x) /\ Keeps(up, up', x)
    <2>1. CASE UNCHANGED up
        BY <2>1, SomeForeign, KeepsSays
    <2>2. CASE Serve("200 OK")
        <3>1. PICK m \in Messages : m.method = "200 OK" /\ Taken1(up, up', m)
            BY <2>2, ServeSays
        <3>2. Foreign(m) /\ Keeps(up, up', m)
            BY <3>1, ForeignSays, KeepsSays
        <3> QED BY <3>2
    <2> QED BY <2>1, <2>2
<1>2. \E d : NoAnswer(d) /\ Keeps(down, down', d)
    <2>1. CASE UNCHANGED down
        BY <2>1, SomeForeign, KeepsSays
    <2>2. CASE \E d \in Datagrams : d.kind \notin ReplyKinds /\ Send(<<d>>)
        <3>1. PICK d \in Datagrams : d.kind \notin ReplyKinds /\ Send(<<d>>)
            BY <2>2
        <3>2. NoAnswer(d) /\ Keeps(down, down', d)
            BY <3>1, SendSays, ForeignSays, KeepsSays
        <3> QED BY <3>2
    <2> QED BY <2>1, <2>2
<1> QED BY <1>1, <1>2, OwnFrame

LEMMA OwnServer ==
    ASSUME NetTypeOK, OwnInv, sm \in Phases, Server
    PROVE  OwnInv'
<1>1. /\ out \in [state : OutStates, call : Nat]
      /\ \A kind \in {"INVITE", "BYE", "other request"} :
             /\ RequestOf(kind, "inc") \in Datagrams /\ RequestOf(kind, "inc").kind \notin ReplyKinds
      /\ RequestOf("BYE", "out") \in Datagrams /\ RequestOf("BYE", "out").kind \notin ReplyKinds
    BY RequestType DEF NetTypeOK, ReplyKinds, Finals
<1>2. CASE ServeRegister
    BY <1>2, ServeSays, OwnServeRegister DEF ServeRegister
<1>3. CASE ServeInvite
    BY <1>3, OwnServeInvite
<1>4. CASE ServeCancel
    BY <1>4, OwnServeCancel
<1>5. CASE ServeAck
    BY <1>5, OwnServeAck
<1>6. CASE ServeOk
    <2>1. Serve("200 OK") /\ UNCHANGED <<sm, rings>>
        BY <1>6 DEF ServeOk, ServerOnly, vars
    <2>2. PICK d \in Head(up).answers :
              /\ out' = IF d = RequestOf("BYE", "out") /\ out.state = "hanging up"
                        THEN [out EXCEPT !.state = "none"]
                        ELSE out
              /\ Send(IF d.kind = "INVITE" THEN <<RequestOf("other request", "inc")>> ELSE <<>>)
        BY <1>6 DEF ServeOk
    <2>3. UNCHANGED down \/ \E e \in Datagrams : e.kind \notin ReplyKinds /\ Send(<<e>>)
        <3>1. CASE d.kind = "INVITE"
            BY <1>1, <2>2, <3>1
        <3>2. CASE d.kind # "INVITE"
            <4>1. down \in Seq(Datagrams) /\ Send(<<>>)
                BY <2>2, <3>2 DEF NetTypeOK
            <4> QED BY <4>1 DEF Send
        <3> QED BY <3>1, <3>2
    <2>4. \/ UNCHANGED out
          \/ out'.call = out.call /\ out.state = "hanging up" /\ out'.state = "none"
        BY <1>1, <2>2
    <2> QED BY <2>1, <2>3, <2>4, OwnServeOther
<1>7. CASE Answer
    BY <1>7, OwnFinal DEF Answer, ServerOnly, vars
<1>8. CASE Refuse
    BY <1>8, OwnFinal DEF Refuse, ServerOnly, vars
<1>9. CASE HangUp
    <2>1. UNCHANGED <<sm, rings, up>>
        BY <1>9 DEF HangUp, ServerOnly, vars
    <2>2. \E d \in Datagrams : d.kind \notin ReplyKinds /\ Send(<<d>>)
        BY <1>1, <1>9 DEF HangUp
    <2>3. \/ UNCHANGED out
          \/ out'.call = out.call /\ out.state = "talking" /\ out'.state = "hanging up"
        BY <1>1, <1>9 DEF HangUp
    <2> QED BY <2>1, <2>2, <2>3, OwnServeOther
<1>10. CASE CallIn
    <2>1. UNCHANGED <<sm, rings, up, out>> /\ \E d \in Datagrams : d.kind \notin ReplyKinds /\ Send(<<d>>)
        BY <1>1, <1>10 DEF CallIn, vars
    <2> QED BY <2>1, OwnServeOther
<1>11. CASE Repeat
    <2>1. UNCHANGED <<sm, rings, up, out>> /\ Quiet
        BY <1>11 DEF Repeat, ServerOnly, vars
    <2>2. CASE out.state \in Finals /\ Send(<<ReplyTo(out.state, "INVITE", out.call)>>)
        BY <2>1, <2>2, OwnRepeat
    <2>3. CASE \E d \in Datagrams : d.kind \notin ReplyKinds /\ Send(<<d>>)
        BY <2>1, <2>3, OwnServeOther
    <2> QED BY <1>1, <1>11, <2>2, <2>3 DEF Repeat
<1> QED
    BY <1>2, <1>3, <1>4, <1>5, <1>6, <1>7, <1>8, <1>9, <1>10, <1>11 DEF Server, Serves
-----------------------------------------------------------------------------
(* The call to the client, step by step *)

LEMMA OkSays ==
    ASSUME NEW m \in Messages
    PROVE  /\ \A d : m \in Oks(d) <=> m.method = "200 OK" /\ m.answers = {d}
           /\ \A c : m \in LaterOks(c) <=>
                  m.method = "200 OK" /\ \E d \in m.answers : d.of = "out" /\ d.call > c
BY DEF Oks, LaterOks

LEMMA ByeSays ==
    /\ \A c : ByeOf(c).kind = "BYE" /\ ByeOf(c).of = "out" /\ ByeOf(c).call = c
    /\ \A k : In(k).kind = k /\ In(k).of = "inc"
    /\ \A d \in Datagrams : \A c :
           d \in OtherByes(c) <=> d.kind = "BYE" /\ d.of = "out" /\ d.call # c
BY DEF ByeOf, In, OtherByes

SameAbout(q, r, S) == (None(r, S) <=> None(q, S)) /\ (One(r, S) <=> One(q, S))

\* A step that has to do with neither the call to the client nor a BYE.
UpOther == (\A d : SameAbout(up, up', Oks(d))) /\ \A c : SameAbout(up, up', LaterOks(c))
DownOther ==
    /\ \A d : d.kind \in {"INVITE", "BYE"} => SameAbout(down, down', {d})
    /\ \A c : SameAbout(down, down', OtherByes(c))

LEMMA KeepsOther ==
    /\ \A m \in Messages : m.method # "200 OK" /\ Keeps(up, up', m) => UpOther
    /\ \A d \in Datagrams : d.kind \notin {"INVITE", "BYE"} /\ Keeps(down, down', d) => DownOther
    /\ UNCHANGED up => UpOther
    /\ UNCHANGED down => DownOther
<1>1. \A m \in Messages : m.method # "200 OK" /\ Keeps(up, up', m) => UpOther
    BY OkSays DEF Keeps, UpOther, SameAbout
<1>2. ASSUME NEW d \in Datagrams, d.kind \notin {"INVITE", "BYE"}, Keeps(down, down', d)
      PROVE  DownOther
    <2>1. \A c : d \notin OtherByes(c)
        BY <1>2, ByeSays
    <2>2. \A e : e.kind \in {"INVITE", "BYE"} => d \notin {e}
        BY <1>2
    <2> QED BY <1>2, <2>1, <2>2 DEF Keeps, DownOther, SameAbout
<1>3. UNCHANGED up => UpOther
    BY DEF UpOther, SameAbout
<1>4. UNCHANGED down => DownOther
    BY DEF DownOther, SameAbout
<1> QED BY <1>1, <1>2, <1>3, <1>4

\* What the client sends of its own concerns no other call.
LEMMA SendsOther ==
    ASSUME NetTypeOK,
           \/ UNCHANGED up
           \/ \E method, call : method # "200 OK" /\ Sends(method, call, {})
           \/ SendsTwo("ACK", "INVITE")
    PROVE  UpOther
<1>1. CASE UNCHANGED up
    BY <1>1, KeepsOther
<1>2. ASSUME NEW method, NEW call, method # "200 OK", Sends(method, call, {}) PROVE UpOther
    <2>1. PICK m \in Messages : m.method = method /\ Queued1(up, up', m)
        BY <1>2, SendsSays
    <2> QED BY <1>2, <2>1, KeepsSays, KeepsOther
<1>3. CASE SendsTwo("ACK", "INVITE")
    <2>1. PICK a, b : /\ Is(a, "ACK", rings', {}) /\ Is(b, "INVITE", rings', {})
                      /\ up' = Append(Append(up, a), b)
        BY <1>3 DEF SendsTwo
    <2> DEFINE q == Append(up, a)
    <2>2. up \in Seq(Messages) /\ a \in Messages /\ b \in Messages /\ a.method = "ACK" /\ b.method = "INVITE"
        BY <2>1 DEF NetTypeOK, Is
    <2>3. q \in Seq(Messages) /\ Queued1(up, q, a)
        BY <2>2, AppendSays
    <2>4. up' = Append(q, b)
        BY <2>1
    <2> HIDE DEF q
    <2>5. Queued1(q, up', b)
        BY <2>2, <2>3, <2>4, AppendSays
    <2>6. Keeps(up, q, a) /\ Keeps(q, up', b)
        BY <2>3, <2>5, KeepsSays
    <2>7. /\ \A d : a \notin Oks(d) /\ b \notin Oks(d)
          /\ \A c : a \notin LaterOks(c) /\ b \notin LaterOks(c)
        BY <2>2, OkSays
    <2> QED BY <2>6, <2>7 DEF Keeps, UpOther, SameAbout
<1> QED BY <1>1, <1>2, <1>3

\* The client's steps that are not the receipt of an INVITE or a BYE.
ReceivesRequest == ClientReceives /\ Head(down).kind \in {"INVITE", "BYE"}

LEMMA ClientOther ==
    ASSUME NetTypeOK, Client, ~ReceivesRequest
    PROVE  UpOther /\ DownOther /\ UNCHANGED <<out, inc>>
<1>1. CASE ClientHandles
    BY <1>1, HandleSeen, SendsOther, KeepsOther
<1>2. CASE ClientReceives
    <2> DEFINE h == Head(down)
    <2>1. h \in Datagrams /\ Taken1(down, down', h) /\ h.kind \notin {"INVITE", "BYE"}
        BY <1>2, ReceiveSays DEF ReceivesRequest
    <2>2. DownOther
        BY <2>1, KeepsSays, KeepsOther
    <2>3. h.kind \in Refusals \union {"200", "401", "487", "other request"}
        BY <2>1, DatagramKinds DEF Refusals, ReplyKinds, Finals
    <2> HIDE DEF h
    <2>4. UNCHANGED <<out, inc>>
        BY <1>2, ReceiveSeen DEF h
    <2>5. \/ UNCHANGED up
          \/ \E method, call : method # "200 OK" /\ Sends(method, call, {})
          \/ SendsTwo("ACK", "INVITE")
        <3>1. CASE h.kind = "other request"
            BY <1>2, <3>1, ReceiveSeen DEF h
        <3>2. CASE h.kind = "200"
            <4>1. up' = up \/ Sends("ACK", rings, {})
                BY <1>2, <3>2, ReceiveSeen DEF h
            <4> QED BY <4>1
        <3>3. CASE h.kind = "401"
            <4>1. up' = up \/ Sends("REGISTER", 0, {}) \/ SendsTwo("ACK", "INVITE")
                BY <1>2, <3>3, ReceiveSeen DEF h
            <4> QED BY <4>1
        <3>4. CASE h.kind \in Refusals
            <4>1. Sends("ACK", rings, {})
                BY <1>2, <3>4, ReceiveSeen DEF h
            <4> QED BY <4>1
        <3>5. CASE h.kind = "487"
            <4>1. up' = up \/ Sends("ACK", rings, {})
                BY <1>2, <3>5, ReceiveSeen DEF h
            <4> QED BY <4>1
        <3> QED BY <2>3, <3>1, <3>2, <3>3, <3>4, <3>5
    <2> QED BY <2>2, <2>4, <2>5, SendsOther
<1>3. CASE UNCHANGED <<up, down, out, inc>>
    BY <1>3, KeepsOther
<1> QED BY <1>1, <1>2, <1>3 DEF Client, DatagramWaits, User, TimerRuns, network

\* The server's steps that have to do with the client's own requests only.
ServesOwn ==
    \/ ServeRegister \/ ServeInvite \/ ServeCancel \/ ServeAck \/ Answer \/ Refuse
    \/ Repeat /\ Send(<<ReplyTo(out.state, "INVITE", out.call)>>) /\ out.state \in Finals

LEMMA ServerOther ==
    ASSUME NetTypeOK, ServesOwn
    PROVE  UpOther /\ DownOther /\ UNCHANGED <<inc, sm>>
<1>1. UNCHANGED <<inc, sm>>
    BY DEF ServesOwn, ServeRegister, ServeInvite, ServeCancel, ServeAck, Answer, Refuse,
       Repeat, ServerOnly, vars
<1>2. UpOther
    <2>1. ASSUME NEW method, method # "200 OK", Serve(method) PROVE UpOther
        <3>1. PICK m \in Messages : m.method = method /\ Taken1(up, up', m)
            BY <2>1, ServeSays
        <3> QED BY <2>1, <3>1, KeepsSays, KeepsOther
    <2>2. CASE UNCHANGED up
        BY <2>2, KeepsOther
    <2> QED BY <2>1, <2>2
        DEF ServesOwn, ServeRegister, ServeInvite, ServeCancel, ServeAck, Answer, Refuse, Repeat
<1>3. out.state \in OutStates /\ out.call \in Nat /\ down \in Seq(Datagrams)
    BY DEF NetTypeOK
<1>4. ASSUME NEW kind \in ReplyKinds, NEW method \in {"REGISTER", "INVITE", "CANCEL"}, NEW call \in Nat,
             Send(<<ReplyTo(kind, method, call)>>)
      PROVE  DownOther
    <2> DEFINE d == ReplyTo(kind, method, call)
    <2>1. d \in Datagrams /\ d.kind \notin {"INVITE", "BYE"}
        BY ReplyType DEF ReplyKinds, Finals
    <2>2. Queued1(down, down', d)
        BY <1>4, <2>1, SendSays
    <2> QED BY <2>1, <2>2, KeepsSays, KeepsOther
<1>5. {"200", "401", "486", "487", "603"} \subseteq ReplyKinds
    BY DEF ReplyKinds, Finals
<1>6. ASSUME NEW method, Serve(method) PROVE Head(up).call \in Nat
    BY <1>6, ServeSays DEF Messages
<1>7. CASE ServeRegister
    BY <1>1, <1>2, <1>4, <1>5, <1>7 DEF ServeRegister
<1>8. CASE ServeInvite
    BY <1>1, <1>2, <1>4, <1>5, <1>6, <1>8, KeepsOther DEF ServeInvite
<1>9. CASE ServeCancel
    <2>1. CASE Send(<<ReplyTo("200", "CANCEL", Head(up).call)>>)
        BY <1>1, <1>2, <1>4, <1>5, <1>6, <1>9, <2>1 DEF ServeCancel
    <2>2. CASE Send(<<ReplyTo("200", "CANCEL", out.call), ReplyTo("487", "INVITE", out.call)>>)
        <3> DEFINE a == ReplyTo("200", "CANCEL", out.call)
                   b == ReplyTo("487", "INVITE", out.call)
                   q == Append(down, a)
        <3>1. /\ a \in Datagrams /\ b \in Datagrams
              /\ a.kind \notin {"INVITE", "BYE"} /\ b.kind \notin {"INVITE", "BYE"}
            BY <1>3, <1>5, ReplyType
        <3>2. down' = down \o <<a, b>>
            BY <2>2 DEF Send
        <3> HIDE DEF a, b
        <3>3. down' = Append(q, b)
            BY <1>3, <3>1, <3>2
        <3>4. q \in Seq(Datagrams) /\ Keeps(down, q, a)
            BY <1>3, <3>1, AppendSays, KeepsSays
        <3> HIDE DEF q
        <3>5. Keeps(q, down', b)
            BY <3>1, <3>3, <3>4, AppendSays, KeepsSays
        <3>6. /\ \A c : a \notin OtherByes(c) /\ b \notin OtherByes(c)
              /\ \A d : d.kind \in {"INVITE", "BYE"} => a \notin {d} /\ b \notin {d}
            BY <3>1, ByeSays
        <3>7. DownOther
            BY <3>4, <3>5, <3>6 DEF Keeps, DownOther, SameAbout
        <3> QED BY <1>1, <1>2, <3>7
    <2> QED BY <1>9, <2>1, <2>2 DEF ServeCancel
<1>10. CASE ServeAck
    BY <1>1, <1>2, <1>10, KeepsOther DEF ServeAck
<1>11. CASE Answer
    BY <1>1, <1>2, <1>3, <1>4, <1>5, <1>11 DEF Answer
<1>12. CASE Refuse
    BY <1>1, <1>2, <1>3, <1>4, <1>5, <1>12 DEF Refuse, Refusals
<1>13. CASE Repeat /\ Send(<<ReplyTo(out.state, "INVITE", out.call)>>) /\ out.state \in Finals
    BY <1>1, <1>2, <1>3, <1>4, <1>13 DEF ReplyKinds
<1> QED BY <1>7, <1>8, <1>9, <1>10, <1>11, <1>12, <1>13 DEF ServesOwn
-----------------------------------------------------------------------------
(* The call to the client: what keeps IncInv *)

LEMMA IncFrame ==
    ASSUME IncInv, UpOther, DownOther, UNCHANGED inc
    PROVE  IncInv'
<1>1. \A k \in {"INVITE", "BYE"} : In(k).kind \in {"INVITE", "BYE"}
    BY DEF In
<1>2. \A k \in {"INVITE", "BYE"} :
          SameAbout(up, up', Oks(In(k))) /\ SameAbout(down, down', {In(k)})
    BY <1>1 DEF UpOther, DownOther
<1> QED BY <1>2 DEF IncInv, IncHung, Asks, AsksNot, SameAbout

\* The requests of the two sides differ, and so do their answers.
LEMMA RequestsDiffer ==
    /\ In("INVITE") # In("BYE")
    /\ \A k, c : In(k) # ByeOf(c)
    /\ \A m \in Messages : \A d, e : m \in Oks(d) /\ d # e => m \notin Oks(e)
<1>1. In("INVITE") # In("BYE")
    BY DEF In
<1>2. ASSUME NEW k, NEW c PROVE In(k).of = "inc" /\ ByeOf(c).of = "out"
    BY DEF In, ByeOf
<1>3. \A m \in Messages : \A d, e : m \in Oks(d) /\ d # e => m \notin Oks(e)
    BY DEF Oks
<1> QED BY <1>1, <1>2, <1>3

\* The client answers a request at once.
LEMMA RequestAnswered ==
    ASSUME NetTypeOK, ClientReceives, NEW h, h = Head(down), h.kind \in {"INVITE", "BYE"}
    PROVE  /\ h \in Datagrams /\ Taken1(down, down', h)
           /\ \E m \in Messages : m \in Oks(h) /\ Queued1(up, up', m)
           /\ UNCHANGED <<out, inc>>
<1>1. h \in Datagrams /\ Taken1(down, down', h)
    BY ReceiveSays
<1> DEFINE ok == "200 OK"
           A == {h}
<1>2. Sends(ok, 0, A) /\ UNCHANGED <<out, inc>>
    BY ReceiveSeen
<1> HIDE DEF ok, A
<1>3. PICK m \in Messages : /\ m.method = ok /\ m.call = 0 /\ m.answers = A
                           /\ Queued1(up, up', m)
    BY <1>2, SendsSays
<1>4. m \in Oks(h)
    BY <1>3, OkSays DEF A, ok
<1> QED BY <1>1, <1>2, <1>3, <1>4

LEMMA AsksAnswered ==
    ASSUME NEW h, NEW m, Asks(h), m \in Oks(h), Taken1(down, down', h), Queued1(up, up', m)
    PROVE  Asks(h)'
<1>1. One(down, {h}) /\ None(up, Oks(h))
    BY DEF Asks, Taken1
<1>2. None(down', {h}) /\ One(up', Oks(h))
    BY <1>1 DEF Taken1, Queued1
<1> QED BY <1>2 DEF Asks, Oks, Messages, Datagrams

LEMMA AsksFrame ==
    ASSUME NEW d, SameAbout(down, down', {d}), SameAbout(up, up', Oks(d))
    PROVE  (Asks(d) => Asks(d)') /\ (AsksNot(d) => AsksNot(d)')
BY DEF Asks, AsksNot, SameAbout

LEMMA IncReceive ==
    ASSUME NetTypeOK, IncInv, ReceivesRequest
    PROVE  IncInv'
<1> PICK h : h = Head(down)
    OBVIOUS
<1>1. /\ h \in Datagrams /\ Taken1(down, down', h)
      /\ h.kind \in {"INVITE", "BYE"} /\ UNCHANGED <<out, inc>>
    BY RequestAnswered DEF ReceivesRequest
<1>2. PICK m \in Messages : m \in Oks(h) /\ Queued1(up, up', m)
    BY RequestAnswered DEF ReceivesRequest
<1>3. ASSUME NEW d, d # h PROVE (Asks(d) => Asks(d)') /\ (AsksNot(d) => AsksNot(d)')
    <2>1. m \notin Oks(d) /\ h \notin {d}
        BY <1>2, <1>3, RequestsDiffer
    <2>2. SameAbout(down, down', {d}) /\ SameAbout(up, up', Oks(d))
        BY <1>1, <1>2, <2>1 DEF SameAbout, Taken1, Queued1
    <2> QED BY <2>2, AsksFrame
<1>4. ~AsksNot(h)
    BY <1>1 DEF AsksNot, Taken1
<1>5. Asks(h) => Asks(h)'
    BY <1>1, <1>2, AsksAnswered
<1>6. h = In("INVITE") \/ h = In("BYE") \/ \E c \in Nat : h = ByeOf(c)
    BY <1>1, DatagramKinds
<1>7. CASE h = In("INVITE")
    <2>1. inc = "offered" /\ ~IncHung /\ Asks(h)
        BY <1>4, <1>7 DEF IncInv, IncHung
    <2>2. Asks(In("INVITE"))' /\ AsksNot(In("BYE"))'
        BY <1>3, <1>5, <1>7, <2>1, RequestsDiffer DEF IncInv
    <2> QED BY <1>1, <2>1, <2>2 DEF IncInv, IncHung
<1>8. CASE h = In("BYE")
    <2>1. IncHung /\ inc # "offered" /\ Asks(h)
        BY <1>4, <1>8 DEF IncInv, IncHung
    <2>2. Asks(In("BYE"))' /\ AsksNot(In("INVITE"))'
        BY <1>3, <1>5, <1>8, <2>1, RequestsDiffer DEF IncInv
    <2> QED BY <1>1, <2>1, <2>2 DEF IncInv, IncHung
<1>9. CASE \E c \in Nat : h = ByeOf(c)
    <2>1. h # In("INVITE") /\ h # In("BYE")
        BY <1>9, RequestsDiffer
    <2> QED BY <1>1, <1>3, <2>1 DEF IncInv, IncHung
<1> QED BY <1>6, <1>7, <1>8, <1>9
\* The server reads what the client has answered to request d.
LEMMA OkTaken ==
    ASSUME NetTypeOK, ServeOk
    PROVE  \E d \in Datagrams, m \in Messages :
               /\ m \in Oks(d) /\ Taken1(up, up', m)
               /\ d = In("INVITE") /\ inc = "offered" => inc' = "answered"
               /\ d = In("BYE") => inc' = "none"
               /\ d # In("BYE") /\ ~(d = In("INVITE") /\ inc = "offered") => inc' = inc
               /\ out' = IF d = ByeOf(out.call) /\ OutHung THEN [out EXCEPT !.state = "none"]
                                                         ELSE out
               /\ DownOther /\ UNCHANGED vars
<1> DEFINE ok == "200 OK"
<1>1. PICK m \in Messages : m = Head(up) /\ m.method = ok /\ Taken1(up, up', m)
    BY ServeSays DEF ServeOk
<1>2. PICK d \in Head(up).answers :
          /\ inc' = CASE d.kind = "INVITE" /\ inc = "offered" -> "answered"
                      [] d = RequestOf("BYE", "inc") -> "none"
                      [] OTHER -> inc
          /\ out' = IF d = RequestOf("BYE", "out") /\ out.state = "hanging up"
                    THEN [out EXCEPT !.state = "none"]
                    ELSE out
          /\ Send(IF d.kind = "INVITE" THEN <<RequestOf("other request", "inc")>> ELSE <<>>)
    BY DEF ServeOk
<1>3. d \in Datagrams /\ m.answers = {d}
    <2>1. m.answers \subseteq Datagrams /\ \A a, b \in m.answers : a = b
        BY DEF Messages
    <2> QED BY <1>1, <1>2, <2>1
<1>4. m \in Oks(d)
    BY <1>1, <1>3, OkSays
<1>5. d.kind = "INVITE" <=> d = In("INVITE")
    BY <1>3, DatagramKinds, RequestType
<1>6. RequestOf("BYE", "inc") = In("BYE") /\ In("INVITE") # In("BYE")
    BY RequestType, RequestsDiffer
<1>7. /\ d = In("INVITE") /\ inc = "offered" => inc' = "answered"
      /\ d = In("BYE") => inc' = "none"
      /\ d # In("BYE") /\ ~(d = In("INVITE") /\ inc = "offered") => inc' = inc
    BY <1>2, <1>5, <1>6
<1>8. out' = IF d = ByeOf(out.call) /\ OutHung THEN [out EXCEPT !.state = "none"] ELSE out
    BY <1>2, RequestType DEF OutHung
<1>9. DownOther
    <2>1. CASE d.kind = "INVITE"
        <3> DEFINE r == In("other request")
        <3>1. Send(<<r>>) /\ r \in Datagrams /\ r.kind \notin {"INVITE", "BYE"}
            BY <1>2, <2>1, RequestType
        <3> HIDE DEF r
        <3>2. Queued1(down, down', r)
            BY <3>1, SendSays
        <3> QED BY <3>1, <3>2, KeepsSays, KeepsOther
    <2>2. CASE d.kind # "INVITE"
        <3>1. Send(<<>>) /\ down \in Seq(Datagrams)
            BY <1>2, <2>2 DEF NetTypeOK
        <3>2. down' = down
            BY <3>1 DEF Send
        <3> QED BY <3>2, KeepsOther
    <2> QED BY <2>1, <2>2
<1>10. UNCHANGED vars
    BY DEF ServeOk, ServerOnly
<1> HIDE DEF ok
<1> QED BY <1>1, <1>3, <1>4, <1>7, <1>8, <1>9, <1>10

\* inc is one of four things.
LEMMA IncStates == /\ inc \in {"none", "answered"} => inc # "offered" /\ ~IncHung
                   /\ inc = "offered" => ~IncHung
BY DEF IncHung

LEMMA IncServeOk ==
    ASSUME NetTypeOK, IncInv, ServeOk
    PROVE  IncInv'
<1>1. PICK h \in Datagrams, m \in Messages :
          /\ m \in Oks(h) /\ Taken1(up, up', m)
          /\ h = In("INVITE") /\ inc = "offered" => inc' = "answered"
          /\ h = In("BYE") => inc' = "none"
          /\ h # In("BYE") /\ ~(h = In("INVITE") /\ inc = "offered") => inc' = inc
          /\ DownOther
    BY OkTaken
<1>2. ~None(up, Oks(h))
    BY <1>1 DEF Taken1
<1>3. ASSUME NEW d, d.kind \in {"INVITE", "BYE"}, d # h
      PROVE  (Asks(d) => Asks(d)') /\ (AsksNot(d) => AsksNot(d)')
    <2>1. m \notin Oks(d)
        BY <1>1, <1>3, RequestsDiffer
    <2>2. SameAbout(down, down', {d}) /\ SameAbout(up, up', Oks(d))
        BY <1>1, <1>3, <2>1 DEF SameAbout, Taken1, DownOther
    <2> QED BY <2>2, AsksFrame
<1>4. ASSUME h.kind \in {"INVITE", "BYE"}, Asks(h) PROVE AsksNot(h)'
    <2>1. None(down, {h}) /\ One(up, Oks(h))
        BY <1>2, <1>4 DEF Asks
    <2>2. None(down', {h}) /\ None(up', Oks(h))
        BY <1>1, <1>4, <2>1 DEF Taken1, DownOther, SameAbout
    <2>3. Oks(h)' = Oks(h)
        BY DEF Oks, Messages, Datagrams
    <2> QED BY <2>2, <2>3 DEF AsksNot
<1>5. \A k : In(k).kind = k
    BY RequestType
<1>6. CASE h = In("INVITE")
    <2>1. inc = "offered" /\ Asks(h)
        BY <1>2, <1>6 DEF IncInv, AsksNot
    <2>2. AsksNot(In("BYE"))
        BY <2>1, IncStates DEF IncInv
    <2>3. AsksNot(In("INVITE"))' /\ AsksNot(In("BYE"))'
        BY <1>3, <1>4, <1>5, <1>6, <2>1, <2>2, RequestsDiffer
    <2>4. inc' # "offered" /\ ~IncHung'
        BY <1>1, <1>6, <2>1 DEF IncHung
    <2> QED BY <2>3, <2>4 DEF IncInv
<1>7. CASE h = In("BYE")
    <2>1. IncHung /\ Asks(h)
        BY <1>2, <1>7 DEF IncInv, AsksNot
    <2>2. AsksNot(In("INVITE"))
        BY <2>1, IncStates DEF IncInv
    <2>3. AsksNot(In("INVITE"))' /\ AsksNot(In("BYE"))'
        BY <1>3, <1>4, <1>5, <1>7, <2>1, <2>2, RequestsDiffer
    <2>4. inc' # "offered" /\ ~IncHung'
        BY <1>1, <1>7 DEF IncHung
    <2> QED BY <2>3, <2>4 DEF IncInv
<1>8. CASE h # In("INVITE") /\ h # In("BYE")
    <2>1. inc' = inc /\ (IncHung' <=> IncHung)
        BY <1>1, <1>8 DEF IncHung
    <2> QED BY <1>3, <1>5, <1>8, <2>1 DEF IncInv
<1> QED BY <1>6, <1>7, <1>8

\* The server asks what it has not asked before.
LEMMA IncAsks ==
    ASSUME NetTypeOK, NEW d \in Datagrams, Send(<<d>>), UNCHANGED up
    PROVE  /\ AsksNot(d) => Asks(d)'
           /\ \A e : e # d => (Asks(e) => Asks(e)') /\ (AsksNot(e) => AsksNot(e)')
<1>1. Queued1(down, down', d)
    BY SendSays
<1>2. \A e : Oks(e)' = Oks(e)
    BY DEF Oks, Messages, Datagrams
<1>3. AsksNot(d) => Asks(d)'
    BY <1>1, <1>2 DEF AsksNot, Asks, Queued1
<1>4. ASSUME NEW e, e # d PROVE (Asks(e) => Asks(e)') /\ (AsksNot(e) => AsksNot(e)')
    <2>1. SameAbout(down, down', {e}) /\ SameAbout(up, up', Oks(e))
        BY <1>1, <1>4 DEF SameAbout, Queued1
    <2> QED BY <2>1, AsksFrame
<1> QED BY <1>3, <1>4

LEMMA IncQuiet ==
    ASSUME IncInv, Quiet
    PROVE  inc # "offered" /\ ~IncHung
<1>1. \A d : ~Asks(d)
    BY EmptySays DEF Quiet, Asks
<1> QED BY <1>1 DEF IncInv

LEMMA IncServer ==
    ASSUME NetTypeOK, IncInv, Server
    PROVE  IncInv'
<1>1. CASE ServesOwn
    BY <1>1, ServerOther, IncFrame
<1>2. CASE ServeOk
    BY <1>2, IncServeOk
<1>3. ASSUME Send(<<ByeOf(out.call)>>), UNCHANGED <<up, inc>>
      PROVE  IncInv'
    <2>1. ByeOf(out.call) \in Datagrams /\ \A k : In(k) # ByeOf(out.call)
        BY RequestType, RequestsDiffer DEF NetTypeOK
    <2>2. \A k : /\ Asks(In(k)) => Asks(In(k))'
                 /\ AsksNot(In(k)) => AsksNot(In(k))'
        BY <1>3, <2>1, IncAsks
    <2> QED BY <1>3, <2>2 DEF IncInv, IncHung
<1>4. RequestOf("BYE", "out") = ByeOf(out.call) /\ \A k : RequestOf(k, "inc") = In(k)
    BY RequestType
<1>5. CASE HangUp
    <2>1. CASE Send(<<RequestOf("BYE", "out")>>) /\ UNCHANGED inc
        BY <1>3, <1>4, <1>5, <2>1 DEF HangUp
    <2>2. CASE inc = "answered" /\ inc' = "hanging up" /\ Send(<<RequestOf("BYE", "inc")>>)
        <3>1. inc # "offered" /\ ~IncHung /\ inc' # "offered" /\ IncHung'
            BY <2>2, IncStates DEF IncHung
        <3>2. Send(<<In("BYE")>>) /\ In("BYE") \in Datagrams /\ UNCHANGED up
            BY <1>4, <1>5, <2>2, RequestType DEF HangUp
        <3>3. Asks(In("BYE"))' /\ AsksNot(In("INVITE"))'
            BY <3>1, <3>2, IncAsks, RequestsDiffer DEF IncInv
        <3> QED BY <3>1, <3>3 DEF IncInv
    <2> QED BY <1>5, <2>1, <2>2 DEF HangUp
<1>6. CASE CallIn
    <2>1. inc # "offered" /\ ~IncHung /\ inc' = "offered" /\ ~IncHung'
        BY <1>6, IncStates DEF CallIn, IncHung
    <2>2. Send(<<In("INVITE")>>) /\ In("INVITE") \in Datagrams /\ UNCHANGED up
        BY <1>4, <1>6, RequestType DEF CallIn
    <2>3. Asks(In("INVITE"))' /\ AsksNot(In("BYE"))'
        BY <2>1, <2>2, IncAsks, RequestsDiffer DEF IncInv
    <2> QED BY <2>1, <2>3 DEF IncInv
<1>7. CASE Repeat
    <2>1. inc # "offered" /\ ~IncHung
        BY <1>7, IncQuiet DEF Repeat
    <2>2. \/ Send(<<ReplyTo(out.state, "INVITE", out.call)>>) /\ out.state \in Finals
          \/ Send(<<RequestOf("BYE", "out")>>)
        BY <1>7, <2>1 DEF Repeat, IncHung
    <2> QED BY <1>1, <1>3, <1>4, <1>7, <2>2 DEF Repeat, ServesOwn
<1> QED BY <1>1, <1>2, <1>5, <1>6, <1>7 DEF Server, Serves, ServesOwn

LEMMA IncClient ==
    ASSUME NetTypeOK, IncInv, Client
    PROVE  IncInv'
BY ClientOther, IncFrame, IncReceive
-----------------------------------------------------------------------------
(* Who is on the line: what keeps LineInv *)

\* A step has to do with none of a call's ACKs, with no request of the call to the
\* client, with no BYE of the call the client places.
AckSame == SameAbout(up, up', Acks(out.call))
InSame == \A k \in {"INVITE", "BYE"} :
              SameAbout(down, down', {In(k)}) /\ SameAbout(up, up', Oks(In(k)))
ByeSame == SameAbout(down, down', {ByeOf(out.call)}) /\ SameAbout(up, up', Oks(ByeOf(out.call)))
NothingOld ==
    /\ None(down, OtherByes(out.call)) => None(down', OtherByes(out.call))
    /\ None(up, LaterOks(out.call)) => None(up', LaterOks(out.call))

LEMMA Others == UpOther /\ DownOther => InSame /\ ByeSame /\ NothingOld
<1> SUFFICES ASSUME UpOther, DownOther PROVE InSame /\ ByeSame /\ NothingOld
    OBVIOUS
<1>1. InSame
    BY ByeSays DEF InSame, UpOther, DownOther
<1>2. ByeSame
    BY ByeSays DEF ByeSame, UpOther, DownOther
<1>3. NothingOld
    BY DEF NothingOld, UpOther, DownOther, SameAbout
<1> QED BY <1>1, <1>2, <1>3

\* "hanging up" is no other state.
LEMMA Hung ==
    /\ OutHung => out.state \notin {"none", "ringing", "talking"} \union Finals
    /\ OutHung' => out'.state \notin {"none", "ringing", "talking"} \union Finals
    /\ UNCHANGED out => (OutHung' <=> OutHung)
    /\ UNCHANGED inc => (IncHung' <=> IncHung)
    /\ inc' \in {"none", "offered", "answered"} => ~IncHung'
    /\ IncHung => inc \notin {"none", "offered", "answered"}
    /\ IncHung' => inc' \notin {"none", "offered", "answered"}
BY DEF OutHung, IncHung, Finals

LEMMA InFrame ==
    ASSUME InSame, UNCHANGED inc
    PROVE  InOnLine' <=> InOnLine
<1>1. /\ None(down', {In("BYE")}) <=> None(down, {In("BYE")})
      /\ None(up', Oks(In("INVITE"))) <=> None(up, Oks(In("INVITE")))
    BY DEF InSame, SameAbout
<1>2. Oks(In("INVITE"))' = Oks(In("INVITE")) /\ In("BYE")' = In("BYE")
    BY DEF Oks, Messages, Datagrams, In
<1> QED BY <1>1, <1>2, Hung DEF InOnLine

LEMMA OutFrame ==
    ASSUME None(down, {ByeOf(out.call)}) <=> None(down', {ByeOf(out.call)}), UNCHANGED out,
           out.state = "200" => AckSame
    PROVE  OutOnLine' <=> OutOnLine
<1>1. {ByeOf(out.call)}' = {ByeOf(out.call)} /\ Acks(out.call)' = Acks(out.call)
    BY DEF ByeOf, Acks, Messages, Datagrams
<1>2. out.state = "200" => (None(up', Acks(out.call)) <=> None(up, Acks(out.call)))
    BY DEF AckSame, SameAbout
<1> QED BY <1>1, <1>2, Hung DEF OutOnLine

LEMMA ByeFrame ==
    ASSUME ByeInv, ByeSame, NothingOld, out'.call = out.call, OutHung' <=> OutHung,
           out.state = "none" => out'.state = "none"
    PROVE  ByeInv'
<1> DEFINE c == out.call
<1>1. /\ ByeOf(c)' = ByeOf(c) /\ OtherByes(c)' = OtherByes(c) /\ LaterOks(c)' = LaterOks(c)
      /\ Oks(ByeOf(c))' = Oks(ByeOf(c))
    BY DEF ByeOf, OtherByes, LaterOks, Oks, Messages, Datagrams
<1> QED BY <1>1 DEF ByeInv, ByeSame, NothingOld, SameAbout

LEMMA LineFrame ==
    ASSUME LineInv, InSame, ByeSame, NothingOld, UNCHANGED <<out, inc>>,
           out.state = "200" => AckSame,
           sm' = "call_established" <=> sm = "call_established"
    PROVE  LineInv'
<1>1. InOnLine' <=> InOnLine
    BY InFrame
<1>2. OutOnLine' <=> OutOnLine
    BY OutFrame DEF ByeSame, SameAbout
<1>3. ByeInv'
    BY ByeFrame, Hung DEF LineInv
<1> QED BY <1>1, <1>2, <1>3 DEF LineInv

\* What is no ACK of the call changes nothing about its ACKs.
LEMMA AckFrame ==
    /\ UNCHANGED up => AckSame
    /\ \A m \in Messages : (m.method # "ACK" \/ m.call # out.call) /\ Keeps(up, up', m) => AckSame
<1>1. UNCHANGED up => AckSame
    BY DEF AckSame, SameAbout
<1>2. ASSUME NEW m \in Messages, m.method # "ACK" \/ m.call # out.call, Keeps(up, up', m)
      PROVE  AckSame
    <2>1. m \notin Acks(out.call)
        BY <1>2, UpSays
    <2> QED BY <1>2, <2>1 DEF AckSame, SameAbout, Keeps
<1> QED BY <1>1, <1>2

LEMMA AckSends ==
    ASSUME NetTypeOK, NEW method, NEW call, NEW answers, Sends(method, call, answers),
           method # "ACK" \/ call # out.call
    PROVE  AckSame
<1>1. PICK m \in Messages : /\ m.method = method /\ m.call = call /\ m.answers = answers
                            /\ Queued1(up, up', m)
    BY SendsSays
<1> QED BY <1>1, KeepsSays, AckFrame

\* No answer comes while the client has no request open.
LEMMA NoAnswerInPeace ==
    ASSUME NetTypeOK, OwnInv, ClientReceives, Head(down).kind \in ReplyKinds
    PROVE  sm \notin {"idle", "registered", "call_established"}
<1> PICK h : h = Head(down)
    OBVIOUS
<1>1. h \in Answers /\ Taken1(down, down', h)
    BY ReceiveSays, DownSays
<1>2. ~None(down, Answers)
    BY <1>1 DEF Taken1
<1> QED BY <1>2 DEF OwnInv, FreeInv

LEMMA LineHandle ==
    ASSUME TypeOK, NetTypeOK, HandlersInv, LineInv, ClientHandles
    PROVE  LineInv'
<1>1. UpOther /\ DownOther /\ UNCHANGED <<out, inc>>
    BY HandleSeen, SendsOther, KeepsOther
<1>2. AckSame /\ (sm' = "call_established" <=> sm = "call_established")
    <2>1. CASE up' = up /\ sm' = sm
        BY <2>1, AckFrame
    <2>2. CASE Sends("REGISTER", 0, {}) /\ sm' = "waiting_for_auth_reply" /\ sm \in {"idle", "registered"}
        BY <2>2, AckSends
    <2>3. CASE Sends("INVITE", rings', {}) /\ sm = "registered" /\ sm' = "calling"
        BY <2>3, AckSends
    <2>4. CASE Sends("CANCEL", rings, {}) /\ sm = "calling" /\ sm' = "cancelling"
        BY <2>4, AckSends
    <2> QED BY <2>1, <2>2, <2>3, <2>4, HandleSeen, RegistersFromRest
<1> QED BY <1>1, <1>2, Others, LineFrame
\* An ACK the client sends for an answer that is not the 200 of its call is not one
\* the server takes for that.
LEMMA LineAnswer ==
    ASSUME NetTypeOK, HandlersInv, OwnInv, LineInv, ClientReceives,
           Head(down).kind \in ReplyKinds,
           ~(sm = "calling" /\ Head(down).kind = "200")
    PROVE  /\ out.state = "200" => AckSame
           /\ sm' = "call_established" <=> sm = "call_established"
<1> PICK h : h = Head(down)
    OBVIOUS
<1>1. h \in Datagrams /\ Taken1(down, down', h) /\ h.kind \in ReplyKinds
    BY ReceiveSays
<1>2. h \in Answers /\ \A K : h \in Kinds(K) <=> h.kind \in K
    BY <1>1, DownSays
<1>3. h.kind \in Refusals \union {"200", "401", "487"}
    BY <1>1 DEF ReplyKinds, Refusals, Finals
<1>4. sm \in {"waiting_for_auth_reply", "calling", "cancelling"}
    BY NoAnswerInPeace DEF HandlersInv, Phases
<1>5. /\ h.kind = "200" =>
             IF sm = "calling" THEN sm' = "call_established" /\ Sends("ACK", rings, {})
             ELSE /\ up' = up
                  /\ sm' = IF sm = "waiting_for_auth_reply" THEN "registered"
                           ELSE IF sm = "call_established" THEN "X" ELSE sm
      /\ h.kind = "401" =>
             /\ sm' = sm
             /\ sm = "waiting_for_auth_reply" => Sends("REGISTER", 0, {})
             /\ sm = "calling" => SendsTwo("ACK", "INVITE")
             /\ sm \notin {"waiting_for_auth_reply", "calling"} => up' = up
      /\ h.kind \in Refusals =>
             Sends("ACK", rings, {}) /\ sm' = IF sm = "calling" THEN "registered" ELSE sm
      /\ h.kind = "487" => IF sm \in {"calling", "cancelling"}
                           THEN sm' = "registered" /\ Sends("ACK", rings, {})
                           ELSE sm' = sm /\ up' = up
    BY ReceiveSeen
<1>6. CASE sm = "waiting_for_auth_reply"
    <2>1. h = ReplyTo("200", "REGISTER", 0) \/ h = ReplyTo("401", "REGISTER", 0)
        <3>1. ASSUME NEW d, Only(down, d) PROVE h = d
            <4>1. h \notin Answers \ {d}
                BY <1>1, <3>1 DEF Only, Taken1
            <4> QED BY <1>2, <4>1
        <3>2. ~None(down, Answers)
            BY <1>1, <1>2 DEF Taken1
        <3> QED BY <1>6, <3>1, <3>2 DEF OwnInv, WaitingInv
    <2>2. h.kind \in {"200", "401"}
        BY <2>1 DEF ReplyTo
    <2>3. (up' = up \/ Sends("REGISTER", 0, {})) /\ sm' # "call_established"
        BY <1>5, <1>6, <2>2
    <2> QED BY <1>6, <2>3, AckFrame, AckSends
<1>7. CASE sm = "calling"
    <2>1. \/ h.kind = "401" /\ out.call < rings
          \/ out.state \in {"200", "486", "603"} /\ h.kind = out.state
        BY <1>1, <1>7, AnswerOfCall
    <2>2. CASE h.kind = "401" /\ out.call < rings
        <3>1. SendsTwo("ACK", "INVITE") /\ sm' = sm
            BY <1>5, <1>7, <2>2
        <3>2. rings' = rings /\ rings \in Nat /\ out.call \in Nat
            BY ReceiveSeen DEF NetTypeOK
        <3>3. PICK a, b : /\ Is(a, "ACK", rings', {}) /\ Is(b, "INVITE", rings', {})
                          /\ up' = Append(Append(up, a), b)
            BY <3>1 DEF SendsTwo
        <3>4. /\ up \in Seq(Messages) /\ a \in Messages /\ b \in Messages
              /\ a.call = rings /\ b.method = "INVITE"
            BY <3>2, <3>3 DEF NetTypeOK, Is
        <3>5. a \notin Acks(out.call) /\ b \notin Acks(out.call)
            BY <2>2, <3>2, <3>4, UpSays
        <3> DEFINE q == Append(up, a)
        <3>6. q \in Seq(Messages) /\ Keeps(up, q, a) /\ up' = Append(q, b)
            BY <3>3, <3>4, AppendSays, KeepsSays
        <3> HIDE DEF q
        <3>7. Keeps(q, up', b)
            BY <3>4, <3>6, AppendSays, KeepsSays
        <3>8. AckSame
            BY <3>5, <3>6, <3>7 DEF Keeps, AckSame, SameAbout
        <3> QED BY <3>1, <3>8
    <2>3. CASE out.state \in {"200", "486", "603"} /\ h.kind = out.state
        <3>1. out.state # "200" /\ h.kind \in Refusals
            BY <1>7, <2>3 DEF Refusals
        <3> QED BY <1>5, <1>7, <3>1
    <2> QED BY <2>1, <2>2, <2>3
<1>8. CASE sm = "cancelling"
    <2>1. CASE h.kind \in {"200", "401"}
        BY <1>5, <1>8, <2>1, AckFrame
    <2>2. ASSUME NEW K, h.kind \in K PROVE ~None(down, Kinds(K))
        BY <1>1, <1>2, <2>2 DEF Taken1
    <2>3. ~None(down, Answers)
        BY <1>1, <1>2 DEF Taken1
    <2>4. ~InviteUp /\ CancellingInv
        BY <1>8, <2>3 DEF InviteUp, OwnInv
    <2>5. CASE h.kind \in Refusals
        <3>1. out.state # "200"
            BY <2>2, <2>4, <2>5 DEF CancellingInv, Cancellable, Cancelled
        <3> QED BY <1>5, <1>8, <2>5, <3>1
    <2>6. CASE h.kind = "487"
        <3>1. out.state # "200"
            BY <2>2, <2>4, <2>6 DEF CancellingInv, Cancelled
        <3> QED BY <1>5, <1>8, <2>6, <3>1
    <2> QED BY <1>3, <2>1, <2>5, <2>6
<1> QED BY <1>4, <1>6, <1>7, <1>8

\* With its 200, the call the client places begins.
LEMMA LineAnswered ==
    ASSUME NetTypeOK, OwnInv, LineInv, ClientReceives, sm = "calling", Head(down).kind = "200"
    PROVE  LineInv'
<1> PICK h : h = Head(down)
    OBVIOUS
<1>1. h.kind \in ReplyKinds
    BY DEF ReplyKinds, Finals
<1>2. out.call = rings /\ out.state = "200"
    BY <1>1, AnswerOfCall
<1>3. UpOther /\ DownOther /\ UNCHANGED <<out, inc>>
    <2>1. Client /\ ~ReceivesRequest
        BY DEF Client, ReceivesRequest
    <2> QED BY <2>1, ClientOther
<1>4. sm' = "call_established" /\ Sends("ACK", rings, {})
    BY ReceiveSeen
<1>5. PICK m \in Messages : m.method = "ACK" /\ m.call = rings /\ Queued1(up, up', m)
    BY <1>4, SendsSays
<1>6. ~None(up', Acks(out.call)) /\ Acks(out.call)' = Acks(out.call)
    <2>1. m \in Acks(out.call)
        BY <1>2, <1>5, UpSays
    <2>2. Acks(out.call)' = Acks(out.call)
        BY <1>3 DEF Acks, Messages, Datagrams
    <2> QED BY <1>5, <2>1, <2>2 DEF Queued1
<1>7. OutOnLine'
    BY <1>2, <1>3, <1>6 DEF OutOnLine
<1>8. ~InOnLine'
    BY <1>3, Others, InFrame DEF LineInv
<1>9. ByeInv'
    BY <1>3, Others, ByeFrame, Hung DEF LineInv
<1> QED BY <1>4, <1>7, <1>8, <1>9 DEF LineInv
\* A request that has come and its answer are no other request, and none of their answers.
LEMMA RequestAlone ==
    ASSUME NetTypeOK, ClientReceives, NEW h, h = Head(down), h.kind \in {"INVITE", "BYE"}
    PROVE  /\ AckSame
           /\ \A d : d # h => SameAbout(down, down', {d}) /\ SameAbout(up, up', Oks(d))
           /\ ~None(down, {h}) /\ (One(down, {h}) => None(down', {h})) /\ ~None(up', Oks(h))
           /\ \A c : None(down, OtherByes(c)) =>
                         None(down', OtherByes(c)) /\ h \notin OtherByes(c)
           /\ \A c : None(up, LaterOks(c)) /\ ~(h.of = "out" /\ h.call > c) =>
                         None(up', LaterOks(c))
<1>1. h \in Datagrams /\ Taken1(down, down', h)
    BY RequestAnswered
<1>2. PICK m \in Messages : m \in Oks(h) /\ Queued1(up, up', m)
    BY RequestAnswered
<1>3. m \notin Acks(out.call)
    BY <1>2 DEF Oks, Acks
<1>4. \A d : d # h => m \notin Oks(d) /\ h \notin {d}
    BY <1>2, RequestsDiffer
<1>5. \A d : d # h => SameAbout(down, down', {d}) /\ SameAbout(up, up', Oks(d))
    BY <1>1, <1>2, <1>4 DEF SameAbout, Taken1, Queued1
<1>6. AckSame
    BY <1>2, <1>3 DEF AckSame, SameAbout, Queued1
<1>7. ~None(down, {h}) /\ (One(down, {h}) => None(down', {h})) /\ ~None(up', Oks(h))
    BY <1>1, <1>2 DEF Taken1, Queued1
<1>8. \A c : None(down, OtherByes(c)) => None(down', OtherByes(c)) /\ h \notin OtherByes(c)
    BY <1>1 DEF Taken1
<1>9. ASSUME NEW c, None(up, LaterOks(c)), ~(h.of = "out" /\ h.call > c)
      PROVE  None(up', LaterOks(c))
    <2>1. m.answers = {h}
        BY <1>2, OkSays
    <2>2. m \notin LaterOks(c)
        BY <1>9, <2>1, OkSays
    <2> QED BY <1>2, <1>9, <2>2 DEF Queued1
<1> QED BY <1>5, <1>6, <1>7, <1>8, <1>9

\* A call comes to a client that has none, which takes it.
LEMMA LineInvited ==
    ASSUME NetTypeOK, IncInv, LineInv, ClientReceives, Head(down).kind = "INVITE",
           sm = "registered"
    PROVE  LineInv'
<1> PICK h : h = Head(down)
    OBVIOUS
<1>1. h \in Datagrams /\ UNCHANGED <<out, inc>>
    BY RequestAnswered
<1>2. h = In("INVITE") /\ h # In("BYE") /\ \A c : h # ByeOf(c)
    BY <1>1, DatagramKinds, RequestsDiffer
<1>3. h.of = "inc"
    BY <1>2, ByeSays
<1>4. AckSame /\ ByeSame /\ NothingOld
    BY <1>2, <1>3, RequestAlone DEF ByeSame, NothingOld
<1>5. inc = "offered" /\ ~None(up', Oks(h))
    BY <1>2, RequestAlone DEF IncInv, AsksNot
<1>6. sm' = "call_established"
    BY ReceiveSeen
<1>7. InOnLine'
    <2>1. Oks(h) = Oks(In("INVITE"))'
        BY <1>2 DEF Oks, Messages, Datagrams
    <2> QED BY <1>1, <1>5, <2>1 DEF InOnLine
<1>8. ~OutOnLine'
    BY <1>1, <1>4, OutFrame DEF LineInv, ByeSame, SameAbout
<1>9. ByeInv'
    BY <1>1, <1>4, ByeFrame, Hung DEF LineInv
<1> QED BY <1>6, <1>7, <1>8, <1>9 DEF LineInv

\* The other side ends the call the client is in.
LEMMA LineLeft ==
    ASSUME NetTypeOK, IncInv, LineInv, ClientReceives, Head(down).kind = "BYE"
    PROVE  LineInv'
<1> PICK h : h = Head(down)
    OBVIOUS
<1>1. h \in Datagrams /\ UNCHANGED <<out, inc>>
    BY RequestAnswered
<1>2. sm' = IF sm = "call_established" THEN "registered" ELSE sm
    BY ReceiveSeen
<1>3. h # In("INVITE") /\ (h = In("BYE") \/ \E c \in Nat : h = ByeOf(c))
    BY <1>1, DatagramKinds, ByeSays
<1>4. CASE h = In("BYE")
    <2>1. \A c : h # ByeOf(c) /\ h.of = "inc"
        BY <1>4, ByeSays, RequestsDiffer
    <2>2. AckSame /\ ByeSame /\ NothingOld
        BY <2>1, RequestAlone DEF ByeSame, NothingOld
    <2>3. ~None(down, {h}) /\ (One(down, {h}) => None(down', {h}))
        BY RequestAlone
    <2>4. IncHung /\ None(down', {h})
        BY <1>4, <2>3 DEF IncInv, AsksNot, Asks, One, None
    <2>5. InOnLine /\ ~InOnLine'
        BY <1>1, <1>4, <2>3, <2>4, Hung DEF InOnLine
    <2>6. ~OutOnLine /\ sm = "call_established"
        BY <2>5 DEF LineInv
    <2>7. ~OutOnLine'
        BY <1>1, <2>2, <2>6, OutFrame DEF ByeSame, SameAbout
    <2>8. ByeInv'
        BY <1>1, <2>2, ByeFrame, Hung DEF LineInv
    <2> QED BY <1>2, <2>5, <2>6, <2>7, <2>8 DEF LineInv
<1>5. ASSUME NEW c \in Nat, h = ByeOf(c) PROVE LineInv'
    <2>1. h.of = "out" /\ h.call = c /\ h # In("INVITE") /\ h # In("BYE") /\ h.kind = "BYE"
        BY <1>5, ByeSays, RequestsDiffer
    <2>2. /\ InSame /\ AckSame /\ ~None(down, {h}) /\ ~None(up', Oks(h))
          /\ One(down, {h}) => None(down', {h})
        BY <2>1, RequestAlone DEF InSame
    <2>3. c = out.call
        <3>1. h \notin OtherByes(out.call)
            BY RequestAlone DEF LineInv, ByeInv
        <3> QED BY <1>1, <2>1, <3>1, ByeSays
    <2>4. OutHung /\ None(down', {h})
        BY <1>5, <2>2, <2>3 DEF LineInv, ByeInv
    <2>5. OutOnLine /\ ~InOnLine /\ sm = "call_established"
        BY <1>5, <2>2, <2>3, <2>4 DEF OutOnLine, LineInv
    <2>6. ~InOnLine'
        BY <1>1, <2>2, <2>5, InFrame
    <2>7. ByeOf(out.call)' = h /\ Oks(ByeOf(out.call))' = Oks(h) /\ OutHung'
        BY <1>1, <1>5, <2>3, <2>4 DEF ByeOf, Oks, Messages, Datagrams, OutHung
    <2>8. ~OutOnLine'
        BY <2>4, <2>7, Hung DEF OutOnLine, Finals
    <2>9. ByeInv'
        <3>1. None(down', OtherByes(out.call)) /\ None(up', LaterOks(out.call))
            <4>1. ~(h.call > out.call)
                BY <2>1, <2>3
            <4> QED BY <4>1, RequestAlone DEF LineInv, ByeInv
        <3>2. OtherByes(out.call)' = OtherByes(out.call) /\ LaterOks(out.call)' = LaterOks(out.call)
            BY <1>1 DEF OtherByes, LaterOks, Messages, Datagrams
        <3> QED BY <2>2, <2>4, <2>7, <3>1, <3>2, Hung DEF ByeInv
    <2> QED BY <1>2, <2>5, <2>6, <2>8, <2>9 DEF LineInv
<1> QED BY <1>3, <1>4, <1>5

LEMMA LineReceive ==
    ASSUME NetTypeOK, HandlersInv, OwnInv, IncInv, LineInv, ClientReceives, ~untaken'
    PROVE  LineInv'
<1> PICK h : h = Head(down)
    OBVIOUS
<1>1. h \in Datagrams
    BY ReceiveSays
<1>2. CASE h.kind = "INVITE"
    <2>1. sm = "registered"
        BY <1>2, ReceiveSeen
    <2> QED BY <1>2, <2>1, LineInvited
<1>3. CASE h.kind = "BYE"
    BY <1>3, LineLeft
<1>4. CASE h.kind \notin {"INVITE", "BYE"}
    <2>1. UpOther /\ DownOther /\ UNCHANGED <<out, inc>>
        <3>1. Client /\ ~ReceivesRequest
            BY <1>4 DEF Client, ReceivesRequest
        <3> QED BY <3>1, ClientOther
    <2>2. CASE h.kind \in ReplyKinds /\ ~(sm = "calling" /\ h.kind = "200")
        BY <2>1, <2>2, LineAnswer, Others, LineFrame
    <2>3. CASE sm = "calling" /\ h.kind = "200"
        BY <2>3, LineAnswered
    <2>4. CASE h.kind \notin ReplyKinds
        <3>1. up' = up /\ sm' = sm
            BY <1>1, <1>4, <2>4, DatagramKinds, ReceiveSeen
        <3> QED BY <2>1, <3>1, AckFrame, Others, LineFrame
    <2> QED BY <2>2, <2>3, <2>4
<1> QED BY <1>2, <1>3, <1>4

LEMMA LineClient ==
    ASSUME TypeOK, NetTypeOK, HandlersInv, OwnInv, IncInv, LineInv, Client, ~untaken'
    PROVE  LineInv'
<1>1. CASE ClientHandles
    BY <1>1, LineHandle
<1>2. CASE ClientReceives
    BY <1>2, LineReceive
<1>3. ASSUME UNCHANGED <<sm, up, down, out, inc>> PROVE LineInv'
    BY <1>3, KeepsOther, AckFrame, Others, LineFrame
<1>4. CASE (sm = "idle" /\ Start /\ UNCHANGED network) \/ DatagramWaits \/ User
    BY <1>3, <1>4 DEF Start, DatagramWaits, DatagramArrives, User, RequestRing, RequestCancel,
       Post, network
<1>5. CASE \E t \in Timers : TimerRuns(t)
    BY <1>3, <1>5 DEF TimerRuns, TimerExpires, Post
<1> QED BY <1>1, <1>2, <1>4, <1>5 DEF Client
-----------------------------------------------------------------------------
(* Who is on the line: the server's steps *)

\* What the server does about the client's own call, while neither side hangs up.
LEMMA LineOut ==
    ASSUME LineInv, UpOther, DownOther, UNCHANGED <<sm, inc>>, OutOnLine' <=> OutOnLine,
           out'.call = out.call, OutHung' <=> OutHung, out.state = "none" => out'.state = "none"
    PROVE  LineInv'
<1>1. InOnLine' <=> InOnLine
    BY Others, InFrame
<1>2. ByeInv'
    BY Others, ByeFrame DEF LineInv
<1> QED BY <1>1, <1>2 DEF LineInv

LEMMA CallNumber == ASSUME NEW d \in Datagrams PROVE d.call \in Nat
<1>1. CASE d \in [kind : ReplyKinds, of : {"REGISTER", "INVITE", "CANCEL"}, call : Nat]
    BY <1>1
<1>2. CASE d \in {In(kind) : kind \in {"INVITE", "BYE", "other request"}}
    <2>1. PICK kind : d = In(kind)
        BY <1>2
    <2>2. d.call = 0
        BY <2>1 DEF In
    <2> QED BY <2>2
<1>3. CASE d \in [kind : {"BYE"}, of : {"out"}, call : Nat]
    BY <1>3
<1> QED BY <1>1, <1>2, <1>3 DEF Datagrams

LEMMA LineServeInvite ==
    ASSUME NetTypeOK, OwnInv, LineInv, sm \in Phases, ServeInvite
    PROVE  LineInv'
<1>1. UpOther /\ DownOther /\ UNCHANGED <<inc, sm>>
    BY ServerOther DEF ServesOwn
<1>2. PICK m \in Messages : m = Head(up) /\ m.method = "INVITE" /\ Taken1(up, up', m)
    BY ServeSays DEF ServeInvite
<1>3. CASE UNCHANGED out
    <2>1. AckSame
        BY <1>2, KeepsSays, AckFrame
    <2> QED BY <1>1, <1>3, <2>1, Others, LineFrame
<1>4. CASE out' = [state |-> "ringing", call |-> Head(up).call]
    <2>1. m \in Methods("INVITE") /\ (m.call # rings => m \in OfOtherCall("INVITE", rings))
        BY <1>2, UpSays
    <2>2. ~None(up, Methods("INVITE"))
        BY <1>2, <2>1 DEF Taken1
    <2>3. sm \in {"calling", "cancelling"} /\ InviteUp
        BY <2>2 DEF OwnInv, FreeInv, WaitingInv, CallingInv, CancellingInv, NoneUp, Phases
    <2>4. m.call = rings /\ out.call < rings /\ Settled
        BY <1>2, <2>1, <2>3 DEF InviteUp, Taken1
    <2>5. ~OutOnLine /\ ~InOnLine
        BY <2>3 DEF LineInv
    <2>6. out.state # "200" /\ out.state # "talking"
        BY <2>4, <2>5 DEF Settled, OutOnLine, Finals
    <2>7. out'.state = "ringing" /\ out'.call = rings
        BY <1>2, <1>4, <2>4
    <2>8. ~OutHung' /\ ~OutOnLine'
        BY <2>7, Hung DEF OutOnLine
    <2>9. ~InOnLine'
        BY <1>1, <2>5, Others, InFrame
    <2>10. rings \in Nat /\ out.call \in Nat /\ rings # out.call
        <3>1. rings \in Nat /\ out.call \in Nat
            BY DEF NetTypeOK
        <3> QED BY <2>4, <3>1
    <2>11. None(down', OtherByes(out.call)) /\ None(down', {ByeOf(out.call)})
        <3>1. None(down, OtherByes(out.call)) /\ None(down, {ByeOf(out.call)})
            BY <2>5 DEF LineInv, ByeInv, OutOnLine
        <3> QED BY <1>1, <3>1, Others DEF NothingOld, ByeSame, SameAbout
    <2>12. None(down', OtherByes(rings)) /\ None(down', {ByeOf(rings)})
        <3>1. down' \in Seq(Datagrams)
            BY NetTypeServer DEF Server, Serves, NetTypeOK
        <3>2. OtherByes(rings) \subseteq OtherByes(out.call) \union {ByeOf(out.call)}
            <4>1. ASSUME NEW d \in OtherByes(rings)
                  PROVE  d \in OtherByes(out.call) \/ d = ByeOf(out.call)
                <5>1. d \in Datagrams /\ d.kind = "BYE" /\ d.of = "out"
                    BY <4>1 DEF OtherByes
                <5>2. PICK c \in Nat : d = ByeOf(c)
                    BY <5>1, DatagramKinds, ByeSays
                <5> QED BY <5>1, <5>2, ByeSays
            <4> QED BY <4>1
        <3>3. None(down', OtherByes(rings))
            BY <2>11, <3>2, QueueSays
        <3>4. ByeOf(rings) \in OtherByes(out.call)
            <4>1. ByeOf(rings) \in Datagrams
                BY <2>10, RequestType
            <4> QED BY <2>10, <4>1, ByeSays
        <3>5. {ByeOf(rings)} \subseteq OtherByes(out.call)
            BY <3>4
        <3>6. None(down', {ByeOf(rings)})
            BY <2>11, <3>5, QueueSays
        <3> QED BY <3>3, <3>6
    <2>13. None(up', LaterOks(rings)) /\ None(up', Oks(ByeOf(rings)))
        <3>1. None(up', LaterOks(out.call))
            BY <1>1, Others DEF NothingOld, LineInv, ByeInv
        <3>3. LaterOks(rings) \subseteq LaterOks(out.call)
            <4>1. ASSUME NEW x \in LaterOks(rings) PROVE x \in LaterOks(out.call)
                <5>1. x \in Messages
                    BY <4>1 DEF LaterOks
                <5>2. PICK d \in x.answers : d.of = "out" /\ d.call > rings
                    BY <4>1, <5>1, OkSays
                <5>3. d.call \in Nat
                    <6>1. x.answers \subseteq Datagrams
                        BY <5>1 DEF Messages
                    <6> QED BY <5>2, <6>1, CallNumber
                <5>4. d.call > out.call
                    BY <2>4, <2>10, <5>2, <5>3
                <5> QED BY <4>1, <5>1, <5>2, <5>4, OkSays
            <4> QED BY <4>1
        <3>4. Oks(ByeOf(rings)) \subseteq LaterOks(out.call)
            <4>1. ASSUME NEW x \in Oks(ByeOf(rings)) PROVE x \in LaterOks(out.call)
                <5>1. x \in Messages
                    BY <4>1 DEF Oks
                <5>2. x.answers = {ByeOf(rings)}
                    BY <4>1, <5>1, OkSays
                <5>3. ByeOf(rings).of = "out" /\ ByeOf(rings).call > out.call
                    BY <2>4, <2>10, ByeSays
                <5> QED BY <4>1, <5>1, <5>2, <5>3, OkSays
            <4> QED BY <4>1
        <3> QED BY <3>1, <3>3, <3>4, QueueSays
    <2>14. ByeInv'
        <3>1. /\ ByeOf(out.call)' = ByeOf(rings) /\ OtherByes(out.call)' = OtherByes(rings)
              /\ LaterOks(out.call)' = LaterOks(rings) /\ Oks(ByeOf(out.call))' = Oks(ByeOf(rings))
            BY <2>7 DEF ByeOf, OtherByes, LaterOks, Oks, Messages, Datagrams
        <3> QED BY <2>8, <2>12, <2>13, <3>1 DEF ByeInv
    <2> QED BY <1>1, <2>5, <2>8, <2>9, <2>14 DEF LineInv
<1> QED BY <1>3, <1>4 DEF ServeInvite

LEMMA LineServeAck ==
    ASSUME NetTypeOK, LineInv, ServeAck
    PROVE  LineInv'
<1>1. UpOther /\ DownOther /\ UNCHANGED <<inc, sm, down>>
    BY ServerOther DEF ServesOwn, ServeAck
<1>2. PICK m \in Messages : m = Head(up) /\ m.method = "ACK" /\ Taken1(up, up', m)
    BY ServeSays DEF ServeAck
<1>3. CASE m.call = out.call /\ out.state \in Finals
    <2>1. out' = [out EXCEPT !.state = IF out.state = "200" THEN "talking" ELSE "none"]
        BY <1>2, <1>3 DEF ServeAck, IsOut
    <2>2. /\ out'.call = out.call /\ out'.state = IF out.state = "200" THEN "talking" ELSE "none"
          /\ out.state # "none" /\ out.state # "talking"
        BY <1>3, <2>1 DEF NetTypeOK, Finals
    <2>3. ~OutHung /\ ~OutHung'
        BY <1>3, <2>2, Hung
    <2>4. ~None(up, Acks(out.call))
        BY <1>2, <1>3, UpSays DEF Taken1
    <2>5. OutOnLine <=> out.state = "200"
        BY <2>2, <2>3, <2>4 DEF OutOnLine
    <2>6. OutOnLine' <=> out.state = "200"
        BY <2>2, <2>3 DEF OutOnLine
    <2> QED BY <1>1, <2>2, <2>3, <2>5, <2>6, LineOut
<1>4. CASE ~(m.call = out.call /\ out.state \in Finals)
    <2>1. UNCHANGED out
        BY <1>2, <1>4 DEF ServeAck, IsOut
    <2>2. out.state = "200" => AckSame
        BY <1>2, <1>4, KeepsSays, AckFrame DEF Finals
    <2> QED BY <1>1, <2>1, <2>2, Others, LineFrame
<1> QED BY <1>3, <1>4

\* A ringing call gets its final answer.
LEMMA LineFinal ==
    ASSUME NetTypeOK, LineInv, UpOther, DownOther, UNCHANGED <<sm, inc>>,
           out.state = "ringing", out'.call = out.call, out'.state \in Finals,
           out'.state = "200" => None(up', Acks(out.call))
    PROVE  LineInv'
<1>1. ~OutHung /\ ~OutHung'
    BY Hung
<1>2. Acks(out.call)' = Acks(out.call)
    BY DEF Acks, Messages, Datagrams
<1>3. ~OutOnLine /\ ~OutOnLine'
    BY <1>1, <1>2 DEF OutOnLine, Finals
<1> QED BY <1>1, <1>3, LineOut

LEMMA LineServesOwn ==
    ASSUME NetTypeOK, OwnInv, LineInv, sm \in Phases, ServesOwn
    PROVE  LineInv'
<1>1. UpOther /\ DownOther /\ UNCHANGED <<inc, sm>>
    BY ServerOther
<1>2. CASE ServeRegister
    <2>1. PICK m \in Messages : m.method = "REGISTER" /\ Taken1(up, up', m)
        BY <1>2, ServeSays DEF ServeRegister
    <2>2. AckSame /\ UNCHANGED out
        BY <1>2, <2>1, KeepsSays, AckFrame DEF ServeRegister
    <2> QED BY <1>1, <2>2, Others, LineFrame
<1>3. CASE ServeInvite
    BY <1>3, LineServeInvite
<1>4. CASE ServeAck
    BY <1>4, LineServeAck
<1>5. CASE ServeCancel
    <2>1. PICK m \in Messages : m.method = "CANCEL" /\ Taken1(up, up', m)
        BY <1>5, ServeSays DEF ServeCancel
    <2>2. AckSame
        BY <2>1, KeepsSays, AckFrame
    <2>3. CASE UNCHANGED out
        BY <1>1, <2>2, <2>3, Others, LineFrame
    <2>4. CASE IsOut({"ringing"}) /\ out' = [out EXCEPT !.state = "487"]
        <3>1. out.state = "ringing" /\ out'.call = out.call /\ out'.state = "487"
            BY <2>4 DEF IsOut, NetTypeOK
        <3> QED BY <1>1, <3>1, LineFinal DEF Finals
    <2> QED BY <1>5, <2>3, <2>4 DEF ServeCancel
<1>6. CASE Answer
    <2>1. out.state = "ringing" /\ out'.call = out.call /\ out'.state = "200" /\ UNCHANGED up
        BY <1>6 DEF Answer, NetTypeOK
    <2>2. None(up', Acks(out.call))
        BY <2>1, RingsOnly
    <2> QED BY <1>1, <2>1, <2>2, LineFinal DEF Finals
<1>7. CASE Refuse
    <2>1. PICK final \in Refusals : out' = [out EXCEPT !.state = final]
        BY <1>7 DEF Refuse
    <2>2. out.state = "ringing" /\ out'.call = out.call /\ out'.state = final
        BY <1>7, <2>1 DEF Refuse, NetTypeOK
    <2> QED BY <1>1, <2>2, LineFinal DEF Finals, Refusals
<1>8. CASE Repeat
    <2>1. UNCHANGED <<up, out>>
        BY <1>8 DEF Repeat
    <2> QED BY <1>1, <2>1, AckFrame, Others, LineFrame
<1> QED BY <1>2, <1>3, <1>4, <1>5, <1>6, <1>7, <1>8 DEF ServesOwn
\* The server reads the 200 the client has sent for a request.
LEMMA LineServeOk ==
    ASSUME NetTypeOK, IncInv, LineInv, ServeOk
    PROVE  LineInv'
<1>1. PICK h \in Datagrams, m \in Messages :
          /\ m \in Oks(h) /\ Taken1(up, up', m)
          /\ h = In("INVITE") /\ inc = "offered" => inc' = "answered"
          /\ h = In("BYE") => inc' = "none"
          /\ h # In("BYE") /\ ~(h = In("INVITE") /\ inc = "offered") => inc' = inc
          /\ out' = IF h = ByeOf(out.call) /\ OutHung THEN [out EXCEPT !.state = "none"] ELSE out
          /\ DownOther /\ UNCHANGED vars
    BY OkTaken
<1>2. UNCHANGED sm
    BY <1>1 DEF vars
<1>3. /\ SameAbout(down, down', {ByeOf(out.call)}) /\ SameAbout(down, down', {In("BYE")})
      /\ None(down', OtherByes(out.call))
    BY <1>1, ByeSays DEF DownOther, SameAbout, LineInv, ByeInv
<1>4. ~None(up, Oks(h)) /\ \A d : d # h => SameAbout(up, up', Oks(d))
    <2>1. \A d : d # h => m \notin Oks(d)
        BY <1>1, RequestsDiffer
    <2> QED BY <1>1, <2>1 DEF Taken1, SameAbout
<1>5. \A S : None(up, S) => None(up', S)
    BY <1>1 DEF Taken1
<1>6. AckSame
    <2>1. m \notin Acks(out.call)
        BY <1>1 DEF Oks, Acks
    <2> QED BY <1>1, <2>1 DEF AckSame, SameAbout, Taken1
<1>7. InOnLine' <=> InOnLine
    <2>1. CASE h = In("INVITE")
        <3>1. inc = "offered"
            BY <1>4, <2>1 DEF IncInv, AsksNot
        <3>2. InOnLine
            BY <1>4, <2>1, <3>1 DEF InOnLine
        <3> QED BY <1>1, <2>1, <3>1, <3>2 DEF InOnLine
    <2>2. CASE h = In("BYE")
        <3>1. IncHung /\ None(down, {h})
            BY <1>4, <2>2 DEF IncInv, AsksNot, Asks
        <3>2. ~InOnLine
            BY <2>2, <3>1, Hung DEF InOnLine
        <3>3. inc' = "none" /\ ~IncHung'
            BY <1>1, <2>2, Hung
        <3> QED BY <3>2, <3>3 DEF InOnLine
    <2>3. CASE h # In("INVITE") /\ h # In("BYE")
        <3>1. UNCHANGED inc /\ (IncHung' <=> IncHung)
            BY <1>1, <2>3, Hung
        <3>2. SameAbout(up, up', Oks(In("INVITE")))
            BY <1>4, <2>3
        <3>3. Oks(In("INVITE"))' = Oks(In("INVITE")) /\ In("BYE")' = In("BYE")
            BY DEF Oks, Messages, Datagrams, In
        <3> QED BY <1>3, <3>1, <3>2, <3>3 DEF InOnLine, SameAbout
    <2> QED BY <2>1, <2>2, <2>3
<1>8. /\ out'.call = out.call
      /\ ByeOf(out.call)' = ByeOf(out.call) /\ OtherByes(out.call)' = OtherByes(out.call)
      /\ LaterOks(out.call)' = LaterOks(out.call) /\ Oks(ByeOf(out.call))' = Oks(ByeOf(out.call))
    <2>1. out'.call = out.call
        BY <1>1 DEF NetTypeOK
    <2> QED BY <2>1 DEF ByeOf, OtherByes, LaterOks, Oks, Messages, Datagrams
<1>9. None(up', LaterOks(out.call))
    BY <1>5 DEF LineInv, ByeInv
<1>10. CASE h = ByeOf(out.call) /\ OutHung
    <2>1. None(down, {h}) /\ None(down', {h})
        BY <1>3, <1>4, <1>10 DEF LineInv, ByeInv, SameAbout
    <2>2. ~OutOnLine
        BY <1>10, <2>1, Hung DEF OutOnLine, Finals
    <2>3. out'.state = "none" /\ ~OutHung'
        BY <1>1, <1>10, Hung DEF NetTypeOK
    <2>4. ~OutOnLine'
        BY <2>3 DEF OutOnLine
    <2>5. ByeInv'
        BY <1>3, <1>8, <1>9, <1>10, <2>1, <2>3 DEF ByeInv
    <2> QED BY <1>2, <1>7, <2>2, <2>4, <2>5 DEF LineInv
<1>11. CASE ~(h = ByeOf(out.call) /\ OutHung)
    <2>1. UNCHANGED out /\ (OutHung' <=> OutHung)
        BY <1>1, <1>11, Hung
    <2>2. OutOnLine' <=> OutOnLine
        BY <1>3, <1>6, <2>1, OutFrame DEF SameAbout
    <2>3. OutHung => (None(up', Oks(ByeOf(out.call))) <=> None(up, Oks(ByeOf(out.call))))
        BY <1>4, <1>11 DEF SameAbout
    <2>4. ByeInv'
        BY <1>3, <1>5, <1>8, <1>9, <2>1, <2>3 DEF LineInv, ByeInv, SameAbout
    <2> QED BY <1>2, <1>7, <2>2, <2>4 DEF LineInv
<1> QED BY <1>10, <1>11

\* The server sends one request, d.
LEMMA RequestSent ==
    ASSUME NetTypeOK, NEW d \in Datagrams, Send(<<d>>), UNCHANGED up
    PROVE  /\ \A e : e # d => SameAbout(down, down', {e})
           /\ \A S : SameAbout(up, up', S)
           /\ ~None(down', {d}) /\ (None(down, {d}) => One(down', {d}))
           /\ \A c : d \notin OtherByes(c) => SameAbout(down, down', OtherByes(c))
<1>1. Queued1(down, down', d)
    BY SendSays
<1>2. \A e : e # d => SameAbout(down, down', {e})
    BY <1>1 DEF Queued1, SameAbout
<1>3. \A S : SameAbout(up, up', S)
    BY DEF SameAbout
<1>4. ~None(down', {d}) /\ (None(down, {d}) => One(down', {d}))
    BY <1>1 DEF Queued1
<1>5. \A c : d \notin OtherByes(c) => SameAbout(down, down', OtherByes(c))
    BY <1>1 DEF Queued1, SameAbout
<1> QED BY <1>2, <1>3, <1>4, <1>5

LEMMA LineHangUp ==
    ASSUME NetTypeOK, LineInv, HangUp
    PROVE  LineInv'
<1>1. UNCHANGED <<up, sm>>
    BY DEF HangUp, ServerOnly, vars
<1>2. CASE /\ out.state = "talking" /\ out' = [out EXCEPT !.state = "hanging up"]
           /\ Send(<<RequestOf("BYE", "out")>>) /\ UNCHANGED inc
    <2> PICK d : d = ByeOf(out.call)
        OBVIOUS
    <2>1. d \in Datagrams /\ Send(<<d>>)
        BY <1>2, RequestType DEF NetTypeOK
    <2>2. (\A k : In(k) # d) /\ d \notin OtherByes(out.call)
        BY <2>1, RequestsDiffer, ByeSays
    <2>3. ~OutHung /\ OutHung' /\ out'.call = out.call
        <3>1. out'.call = out.call /\ out'.state = "hanging up"
            BY <1>2 DEF NetTypeOK
        <3> QED BY <1>2, <3>1 DEF OutHung
    <2>4. OutOnLine
        BY <1>2 DEF OutOnLine
    <2>5. /\ ByeOf(out.call)' = d /\ OtherByes(out.call)' = OtherByes(out.call)
          /\ LaterOks(out.call)' = LaterOks(out.call) /\ Oks(ByeOf(out.call))' = Oks(d)
        BY <2>3 DEF ByeOf, OtherByes, LaterOks, Oks, Messages, Datagrams
    <2>6. None(down, {d}) /\ None(up, Oks(d))
        BY <1>2, <2>3 DEF LineInv, ByeInv
    <2>7. /\ ~None(down', {d}) /\ One(down', {d}) /\ None(up', Oks(d))
          /\ None(down', OtherByes(out.call)) /\ None(up', LaterOks(out.call))
        BY <1>1, <2>1, <2>2, <2>6, RequestSent DEF LineInv, ByeInv, SameAbout
    <2>8. OutOnLine'
        BY <2>3, <2>5, <2>7 DEF OutOnLine
    <2>9. ByeInv'
        BY <2>3, <2>5, <2>7 DEF ByeInv
    <2>10. InOnLine' <=> InOnLine
        <3>1. InSame
            BY <1>1, <2>1, <2>2, RequestSent DEF InSame
        <3> QED BY <1>2, <3>1, InFrame
    <2> QED BY <1>1, <2>4, <2>8, <2>9, <2>10 DEF LineInv
<1>3. CASE /\ inc = "answered" /\ inc' = "hanging up"
           /\ Send(<<RequestOf("BYE", "inc")>>) /\ UNCHANGED out
    <2> PICK d : d = In("BYE")
        OBVIOUS
    <2>1. d \in Datagrams /\ Send(<<d>>)
        BY <1>3, RequestType
    <2>2. (\A c : d # ByeOf(c)) /\ d \notin OtherByes(out.call)
        BY <2>1, RequestsDiffer, ByeSays
    <2>3. InOnLine /\ IncHung'
        BY <1>3 DEF InOnLine, IncHung
    <2>4. ~None(down', {d})
        BY <1>1, <2>1, RequestSent
    <2>5. InOnLine'
        <3>1. d = In("BYE")'
            BY DEF In
        <3> QED BY <2>3, <2>4, <3>1 DEF InOnLine
    <2>6. ByeSame /\ NothingOld /\ AckSame
        BY <1>1, <2>1, <2>2, RequestSent DEF ByeSame, NothingOld, AckSame, SameAbout
    <2>7. OutOnLine' <=> OutOnLine
        BY <1>3, <2>6, OutFrame DEF ByeSame, SameAbout
    <2>8. ByeInv'
        BY <1>3, <2>6, ByeFrame, Hung DEF LineInv
    <2> QED BY <1>1, <2>3, <2>5, <2>7, <2>8 DEF LineInv
<1> QED BY <1>2, <1>3 DEF HangUp

LEMMA LineCallIn ==
    ASSUME NetTypeOK, IncInv, LineInv, CallIn
    PROVE  LineInv'
<1>1. UNCHANGED <<up, sm, out>> /\ inc = "none" /\ inc' = "offered"
    BY DEF CallIn, vars
<1> PICK d : d = In("INVITE")
    OBVIOUS
<1>2. d \in Datagrams /\ Send(<<d>>)
    BY RequestType DEF CallIn
<1>3. (\A c : d # ByeOf(c)) /\ d \notin OtherByes(out.call)
    BY <1>2, RequestsDiffer, ByeSays
<1>4. ~IncHung /\ ~IncHung'
    BY <1>1, Hung
<1>5. None(up', Oks(d)) /\ Oks(In("INVITE"))' = Oks(d)
    BY <1>1 DEF IncInv, AsksNot, Oks, Messages, Datagrams, In
<1>6. ~InOnLine /\ ~InOnLine'
    BY <1>1, <1>4, <1>5 DEF InOnLine
<1>7. ByeSame /\ NothingOld /\ AckSame
    BY <1>1, <1>2, <1>3, RequestSent DEF ByeSame, NothingOld, AckSame, SameAbout
<1>8. OutOnLine' <=> OutOnLine
    BY <1>1, <1>7, OutFrame DEF ByeSame, SameAbout
<1>9. ByeInv'
    BY <1>1, <1>7, ByeFrame, Hung DEF LineInv
<1> QED BY <1>1, <1>6, <1>8, <1>9 DEF LineInv

LEMMA LineServer ==
    ASSUME NetTypeOK, OwnInv, IncInv, LineInv, sm \in Phases, Server
    PROVE  LineInv'
<1>1. CASE ServesOwn
    BY <1>1, LineServesOwn
<1>2. CASE Repeat
    <2>1. inc # "offered" /\ ~IncHung
        BY <1>2, IncQuiet DEF Repeat
    <2>2. ~OutHung
        BY <1>2, EmptySays DEF Repeat, Quiet, LineInv, ByeInv
    <2>3. ServesOwn
        BY <1>2, <2>1, <2>2 DEF Repeat, ServesOwn, IncHung, OutHung
    <2> QED BY <2>3, LineServesOwn
<1> QED BY <1>1, <1>2, LineServeOk, LineHangUp, LineCallIn DEF Server, Serves, ServesOwn
-----------------------------------------------------------------------------
(* The invariant, and what it is for *)

LEMMA NetInit == NetworkInit => NetInv
<1> SUFFICES ASSUME NetworkInit PROVE NetInv
    OBVIOUS
<1>1. /\ Init /\ up = <<>> /\ down = <<>> /\ out = [state |-> "none", call |-> 0] /\ inc = "none"
      /\ rings = 0
    BY DEF NetworkInit
<1>2. TypeOK /\ NetTypeOK
    BY <1>1, TypeInit, NetTypeInit
<1>3. \A S : None(up, S) /\ None(down, S)
    BY <1>1, EmptySays
<1>4. sm = "idle" /\ ~open /\ ready = <<>> /\ ~timer["restart"] /\ ~timer["command"]
    BY <1>1 DEF Init, Timers
<1>5. HandlersInv
    BY <1>4, EmptySays DEF HandlersInv, Phases
<1>6. OwnInv
    <2>1. FreeInv
        BY <1>1, <1>3 DEF FreeInv, NoneUp, Settled, Finals
    <2> QED BY <1>1, <1>4, <2>1 DEF OwnInv
<1>7. ~OutHung /\ ~IncHung /\ inc # "offered" /\ inc # "answered"
    BY <1>1, IncStates DEF OutHung
<1>8. IncInv
    BY <1>3, <1>7 DEF IncInv, AsksNot
<1>9. LineInv
    <2>1. ~OutOnLine /\ ~InOnLine
        BY <1>1, <1>7 DEF OutOnLine, InOnLine
    <2>2. ByeInv
        BY <1>1, <1>3, <1>7 DEF ByeInv
    <2> QED BY <1>4, <2>1, <2>2 DEF LineInv
<1> QED BY <1>2, <1>5, <1>6, <1>8, <1>9 DEF NetInv, SmoothInv

\* A fault is never undone, and a call left untaken never taken.
LEMMA FaultsStay ==
    ASSUME NetTypeOK, [NetworkNext]_networkVars, Smooth'
    PROVE  /\ Smooth
           /\ ~untaken' => ~untaken
           /\ Client \/ Server \/ UNCHANGED networkVars
<1>1. faults \in Nat /\ faults' = 0
    BY DEF NetTypeOK, Smooth
<1>2. CASE Client
    <2>1. faults' = faults \/ faults' = faults + 1
        BY <1>2 DEF Client, ClientHandles, ClientReceives, DatagramWaits, User, TimerRuns, network
    <2>2. untaken => untaken'
        BY <1>2 DEF Client, ClientHandles, ClientReceives, DatagramWaits, User, TimerRuns, network
    <2>3. faults = 0
        BY <1>1, <2>1
    <2> QED BY <1>2, <2>2, <2>3 DEF Smooth
<1>3. CASE Server
    <2>1. UNCHANGED <<faults, untaken>>
        BY <1>3 DEF Server, Serves, ServeRegister, ServeInvite, ServeCancel, ServeAck, ServeOk,
                    Answer, Refuse, HangUp, CallIn, Repeat, ServerOnly
    <2> QED BY <1>1, <1>3, <2>1 DEF Smooth
<1>4. CASE Fault
    <2>1. faults' = faults + 1
        BY <1>4 DEF Fault
    <2> QED BY <1>1, <2>1
<1>5. CASE UNCHANGED networkVars
    BY <1>1, <1>5 DEF networkVars, network, Smooth
<1> QED BY <1>2, <1>3, <1>4, <1>5 DEF NetworkNext

LEMMA NetStep == NetInv /\ [NetworkNext]_networkVars => NetInv'
<1> SUFFICES ASSUME NetInv, [NetworkNext]_networkVars PROVE NetInv'
    OBVIOUS
<1>1. TypeOK /\ NetTypeOK /\ (Smooth => SmoothInv)
    BY DEF NetInv
<1>2. TypeOK' /\ NetTypeOK'
    BY <1>1, ClientStep, TypeStep, NetTypeStep
<1>3. ASSUME Smooth' PROVE SmoothInv'
    <2>1. HandlersInv /\ OwnInv /\ IncInv /\ (~untaken' => LineInv) /\ sm \in Phases
        BY <1>1, <1>3, FaultsStay DEF SmoothInv, HandlersInv
    <2>2. CASE Client
        <3>1. HandlersInv' /\ OwnInv' /\ IncInv'
            BY <1>1, <1>3, <2>1, <2>2, HandlersClient, OwnClient, IncClient
        <3>2. ~untaken' => LineInv'
            BY <1>1, <2>1, <2>2, LineClient
        <3> QED BY <3>1, <3>2 DEF SmoothInv
    <2>3. CASE Server
        <3>1. UNCHANGED vars
            BY <2>3 DEF Server, Serves, ServeRegister, ServeInvite, ServeCancel, ServeAck,
                        ServeOk, Answer, Refuse, HangUp, CallIn, Repeat, ServerOnly
        <3>2. HandlersInv' /\ OwnInv' /\ IncInv'
            BY <1>1, <2>1, <2>3, <3>1, HandlersSame, OwnServer, IncServer
        <3>3. ~untaken' => LineInv'
            BY <1>1, <2>1, <2>3, LineServer
        <3> QED BY <3>2, <3>3 DEF SmoothInv
    <2>4. CASE UNCHANGED networkVars
        <3>1. UNCHANGED vars /\ UNCHANGED <<sm, up, down, out, inc, rings>>
            BY <2>4 DEF networkVars, network, vars
        <3>2. HandlersInv' /\ OwnInv'
            BY <2>1, <3>1, HandlersSame, OwnStill
        <3>3. IncInv'
            BY <2>1, <3>1, KeepsOther, IncFrame
        <3>4. ~untaken' => LineInv'
            BY <2>1, <3>1, KeepsOther, AckFrame, Others, LineFrame
        <3> QED BY <3>2, <3>3, <3>4 DEF SmoothInv
    <2> QED BY <1>1, <1>3, <2>2, <2>3, <2>4, FaultsStay
<1> QED BY <1>2, <1>3 DEF NetInv

\* Until the network loses, repeats or swaps a datagram or a timeout comes before its
\* reply, client and server agree on the request the client has open (one at most, as
\* the table of sip_states.h sends one per state), on the request of the call to the
\* client and on who is in a call, as far as what is under way lets them know.
THEOREM NetworkInvariant == NetworkSpec => []NetInv
BY NetInit, NetStep, PTL DEF NetworkSpec

\* A registered client with nothing on its way has left nobody on the line: its rows
\* for 487, 486, 603 and BYE leave a call only when the server has ended it, too.
THEOREM NobodyIsLeftOnTheLine == NetworkSpec => []NobodyLeftOnTheLine
<1>1. NetInv => NobodyLeftOnTheLine
    <2> SUFFICES ASSUME NetInv, sm = "registered", Quiet, Smooth, ~untaken
                 PROVE  out.state = "none" /\ inc = "none"
        BY DEF NobodyLeftOnTheLine
    <2>1. NetTypeOK /\ OwnInv /\ IncInv /\ LineInv
        BY DEF NetInv, SmoothInv
    <2>2. \A S : None(up, S) /\ None(down, S) /\ ~One(down, S)
        BY EmptySays DEF Quiet
    <2>3. ~OutHung /\ ~OutOnLine /\ ~InOnLine
        BY <2>1, <2>2 DEF LineInv, ByeInv
    <2>4. out.state \notin Finals /\ out.state # "ringing"
        BY <2>1, <2>2 DEF OwnInv, FreeInv, Settled
    <2>5. out.state # "talking" /\ inc # "answered"
        BY <2>3 DEF OutOnLine, InOnLine
    <2>6. out.state = "none"
        BY <2>1, <2>3, <2>4, <2>5 DEF OutHung, NetTypeOK, OutStates
    <2>7. inc = "none"
        BY <2>1, <2>5, IncQuiet DEF IncHung, NetTypeOK
    <2> QED BY <2>6, <2>7
<1> QED BY <1>1, NetworkInvariant, PTL

\* Whom the client has answered (handle_invite), registered and without a call, is in a
\* call with it, also once the BYE of an earlier call has been handled.
THEOREM CallersAreHeard == NetworkSpec => []CallerIsHeard
<1>1. NetInv => CallerIsHeard
    BY DEF NetInv, SmoothInv, LineInv, InOnLine, CallerIsHeard
<1> QED BY <1>1, NetworkInvariant, PTL

\* Unless the network or a timeout interferes, only the answer to the INVITE that
\* placed a call establishes it, though rx looks at the code of a reply only.
THEOREM AnsweredByItsAnswer == NetworkSpec => AckToOkAfterInvite
<1> DEFINE Established == sm = "calling" /\ sm' = "call_established" /\ Smooth =>
                              Head(down) = ReplyTo("200", "INVITE", rings)
<1>1. NetInv /\ [NetworkNext]_networkVars => [Established]_networkVars
    <2> SUFFICES ASSUME NetInv, NetworkNext, sm = "calling", sm' = "call_established", Smooth
                 PROVE  Head(down) = ReplyTo("200", "INVITE", rings)
        OBVIOUS
    <2>1. NetTypeOK /\ OwnInv
        BY DEF NetInv, SmoothInv
    <2>2. ClientReceives
        <3>1. ~ClientHandles
            BY <2>1, HandleSeen
        <3>2. \/ ClientHandles \/ ClientReceives
              \/ UNCHANGED sm
            BY DEF NetworkNext, Client, Server, Serves, Fault, DatagramWaits, DatagramArrives,
               User, RequestRing, RequestCancel, TimerRuns, TimerExpires, Post, Start, vars,
               ServerOnly,
                   ServeRegister, ServeInvite, ServeCancel, ServeAck, ServeOk,
                   Answer, Refuse, HangUp, CallIn, Repeat
        <3> QED BY <3>1, <3>2
    <2> PICK h : h = Head(down)
        OBVIOUS
    <2>3. h.kind = "200"
        <3>1. h \in Datagrams
            BY <2>1, <2>2, ReceiveSays
        <3>2. h.kind \in Refusals \union {"200", "401", "487", "INVITE", "BYE", "other request"}
            BY <3>1, DatagramKinds DEF ReplyKinds, Refusals, Finals
        <3> QED BY <2>1, <2>2, <3>2, ReceiveSeen
    <2>4. h.kind \in ReplyKinds
        BY <2>3 DEF ReplyKinds, Finals
    <2>5. h = ReplyTo(out.state, "INVITE", rings) /\ h.kind = out.state
        BY <2>1, <2>2, <2>3, <2>4, AnswerOfCall
    <2> QED BY <2>3, <2>5
<1> QED BY <1>1, NetworkInvariant, PTL DEF NetworkSpec, AckToOkAfterInvite
=============================================================================
