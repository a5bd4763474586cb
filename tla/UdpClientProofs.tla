-------------------------- MODULE UdpClientProofs --------------------------
(***************************************************************************)
(* Theorems about the reception of datagrams, for every size of the buffer *)
(* and any number of calls of init() and of datagrams.                     *)
(***************************************************************************)
EXTENDS UdpClient, SequenceTheorems, TLAPS

Cells == Messages \union {Zero}

\* A text fits the buffer, with its terminator.
LEMMA DatagramFits ==
    ASSUME UdpClientAssumption, NEW d \in Datagrams
    PROVE  d \in Seq(Messages) /\ Len(d) \in 0..RxBufferSize - 1
<1>1. PICK size \in 0..RxBufferSize - 1, msg \in Messages : d \in [1..size -> {msg}]
  BY DEF Datagrams
<1>2. d \in [1..size -> Messages] /\ size \in Nat
  BY <1>1 DEF UdpClientAssumption
<1>3. d \in Seq(Messages)
  BY <1>2, SeqDef
<1>4. DOMAIN d = 1..Len(d) /\ Len(d) \in Nat
  BY <1>3, LenProperties
<1>5. DOMAIN d = 1..size
  BY <1>2
<1>6. Len(d) = size
  BY <1>2, <1>4, <1>5
<1>. QED
  BY <1>3, <1>6

LEMMA CompletionFits ==
    ASSUME UdpClientAssumption, NEW c \in Completion
    PROVE  c.datagram \in Seq(Messages) /\ Len(c.datagram) \in 0..RxBufferSize - 1
<1>1. <<>> \in Seq(Messages) /\ Len(<<>>) = 0
  BY EmptySeq
<1>2. CASE c.datagram \in Datagrams
  BY <1>2, DatagramFits
<1>3. CASE c.datagram = <<>>
  <2>1. 0 \in 0..RxBufferSize - 1
    BY DEF UdpClientAssumption
  <2>. QED
    BY <1>1, <1>3, <2>1
<1>. QED
  BY <1>2, <1>3 DEF Completion

LEMMA Completions ==
    /\ Failed \in Completion
    /\ \A d \in Datagrams : Received(d) \in Completion
BY DEF Failed, Received, Completion

\* What close() queues.
LEMMA Aborted ==
    ASSUME NEW n \in Nat, NEW queue \in Seq(Completion), NEW longer,
           longer = queue \o [i \in 1..n |-> Failed]
    PROVE  /\ longer \in Seq(Completion)
           /\ Len(longer) = Len(queue) + n
           /\ \A i \in 1..Len(longer) :
                  longer[i] = IF i <= Len(queue) THEN queue[i] ELSE Failed
<1> DEFINE failures == [i \in 1..n |-> Failed]
<1>1. failures \in [1..n -> Completion]
  BY Completions
<1>2. failures \in Seq(Completion)
  BY <1>1, SeqDef
<1>3. DOMAIN failures = 1..Len(failures) /\ Len(failures) \in Nat
  BY <1>2, LenProperties
<1>4. DOMAIN failures = 1..n
  OBVIOUS
<1>5. Len(failures) = n
  BY <1>3, <1>4
<1>6. \A i \in 1..n : failures[i] = Failed
  OBVIOUS
<1> HIDE DEF failures
<1>7. /\ queue \o failures \in Seq(Completion)
      /\ Len(queue \o failures) = Len(queue) + Len(failures)
      /\ \A i \in 1..Len(queue) + Len(failures) : (queue \o failures)[i] =
             IF i <= Len(queue) THEN queue[i] ELSE failures[i - Len(queue)]
  BY <1>2, ConcatProperties
<1>8. longer = queue \o failures
  BY DEF failures
<1>9. Len(queue) \in Nat
  BY LenProperties
<1>10. ASSUME NEW i \in 1..Len(longer)
       PROVE  longer[i] = IF i <= Len(queue) THEN queue[i] ELSE Failed
  <2>1. CASE i <= Len(queue)
    BY <2>1, <1>5, <1>7, <1>8, <1>9
  <2>2. CASE ~(i <= Len(queue))
    <3>1. i - Len(queue) \in 1..n
      BY <2>2, <1>5, <1>7, <1>8, <1>9
    <3>. QED
      BY <2>2, <3>1, <1>5, <1>6, <1>7, <1>8, <1>9
  <2>. QED
    BY <2>1, <2>2
<1>. QED
  BY <1>5, <1>7, <1>8, <1>10

\* Every variable keeps its shape, and nothing is written beyond the buffer.
TypeInv ==
    /\ open \in BOOLEAN
    /\ kernel \in Seq(Datagrams)
    /\ waiting \in Nat
    /\ done \in Seq(Completion)
    /\ buffer \in [1..RxBufferSize -> Cells]
    /\ opens \in 0..MaxOpens /\ arrivals \in 0..MaxArrivals
    /\ waiting + Len(done) = opens

LEMMA TypeInit ==
    ASSUME UdpClientAssumption
    PROVE  Init => TypeInv
<1> SUFFICES ASSUME Init PROVE TypeInv
  OBVIOUS
<1>1. kernel \in Seq(Datagrams) /\ done \in Seq(Completion) /\ Len(done) = 0
  BY EmptySeq DEF Init
<1>2. buffer \in [1..RxBufferSize -> Cells]
  BY DEF Init, Cells
<1>3. open \in BOOLEAN
  BY Zenon DEF Init
<1>. QED
  BY <1>1, <1>2, <1>3 DEF Init, TypeInv, UdpClientAssumption

LEMMA BufferStep ==
    ASSUME UdpClientAssumption, TypeInv
    PROVE  /\ \A d \in Datagrams : Overwritten(d) \in [1..RxBufferSize -> Cells]
           /\ \A size \in 0..RxBufferSize - 1 :
                  Terminated(size) \in [1..RxBufferSize -> Cells]
<1>1. ASSUME NEW d \in Datagrams
      PROVE  Overwritten(d) \in [1..RxBufferSize -> Cells]
  <2>1. d \in Seq(Messages) /\ Len(d) \in Nat
    BY DatagramFits
  <2>2. \A i \in 1..RxBufferSize : i <= Len(d) => d[i] \in Messages
    BY <2>1, ElementOfSeq
  <2>. QED
    BY <2>2 DEF TypeInv, Overwritten, Cells
<1>2. ASSUME NEW size \in 0..RxBufferSize - 1
      PROVE  Terminated(size) \in [1..RxBufferSize -> Cells]
  BY DEF TypeInv, Terminated, Cells, UdpClientAssumption
<1>. QED
  BY <1>1, <1>2

LEMMA ReceiveStep ==
    ASSUME NEW queue \in Seq(Completion), DoReceive(queue), waiting \in Nat
    PROVE  /\ done' \in Seq(Completion) /\ waiting' \in Nat
           /\ waiting' + Len(done') = waiting + Len(queue) + 1
<1>1. Append(queue, Failed) \in Seq(Completion)
      /\ Len(Append(queue, Failed)) = Len(queue) + 1
  BY Completions, AppendProperties
<1>2. Len(queue) \in Nat
  BY LenProperties
<1>. QED
  BY <1>1, <1>2 DEF DoReceive

LEMMA TypeStep ==
    ASSUME UdpClientAssumption
    PROVE  TypeInv /\ [Next]_vars => TypeInv'
<1> SUFFICES ASSUME TypeInv, [Next]_vars PROVE TypeInv'
  OBVIOUS
<1>a. Len(done) \in Nat /\ Len(kernel) \in Nat
  BY LenProperties DEF TypeInv
<1>b. done # <<>> => /\ Tail(done) \in Seq(Completion)
                     /\ Len(Tail(done)) = Len(done) - 1
                     /\ Head(done) \in Completion
  BY HeadTailProperties DEF TypeInv
<1>1. CASE Open
  <2>1. DoReceive(done)
    BY <1>1 DEF Open
  <2>. QED
    BY <1>1, <2>1, <1>a, ReceiveStep DEF Open, TypeInv, UdpClientAssumption
<1>2. CASE Close
  <2>1. done' \in Seq(Completion) /\ Len(done') = Len(done) + waiting
    BY <1>2, Aborted DEF Close, TypeInv
  <2>2. kernel' \in Seq(Datagrams)
    BY <1>2, EmptySeq DEF Close
  <2>3. open' \in BOOLEAN /\ waiting' = 0
    BY <1>2 DEF Close
  <2>4. /\ buffer' = buffer /\ opens' = opens /\ arrivals' = arrivals
    BY <1>2 DEF Close
  <2>. QED
    BY <2>1, <2>2, <2>3, <2>4, <1>a DEF TypeInv
<1>3. CASE Read
  <2>1. Head(kernel) \in Datagrams /\ kernel' \in Seq(Datagrams)
    BY <1>3, HeadTailProperties DEF Read, TypeInv
  <2>2. done' \in Seq(Completion) /\ Len(done') = Len(done) + 1
    BY <1>3, <2>1, Completions, AppendProperties DEF Read, TypeInv
  <2>3. buffer' \in [1..RxBufferSize -> Cells]
    BY <1>3, <2>1, BufferStep DEF Read
  <2>. QED
    BY <1>3, <2>1, <2>2, <2>3, <1>a DEF Read, TypeInv
<1>4. CASE HandleData
  <2>1. DoReceive(Tail(done)) /\ done # <<>>
    BY <1>4 DEF HandleData, Rearmed
  <2>2. Len(Head(done).datagram) \in 0..RxBufferSize - 1
    BY <2>1, <1>b, CompletionFits
  <2>3. buffer' \in [1..RxBufferSize -> Cells]
    BY <1>4, <2>2, BufferStep DEF HandleData
  <2>4. /\ done' \in Seq(Completion) /\ waiting' \in Nat
        /\ waiting' + Len(done') = waiting + Len(Tail(done)) + 1
    BY <2>1, <1>b, ReceiveStep DEF TypeInv
  <2>. QED
    BY <1>4, <2>1, <2>3, <2>4, <1>a, <1>b DEF HandleData, TypeInv
<1>5. CASE HandleNothing
  <2>1. DoReceive(Tail(done)) /\ done # <<>>
    BY <1>5 DEF HandleNothing, RearmedAfterNothing, Rearmed
  <2>2. /\ done' \in Seq(Completion) /\ waiting' \in Nat
        /\ waiting' + Len(done') = waiting + Len(Tail(done)) + 1
    BY <2>1, <1>b, ReceiveStep DEF TypeInv
  <2>. QED
    BY <1>5, <2>1, <2>2, <1>a, <1>b DEF HandleNothing, TypeInv
<1>6. CASE \E datagram \in Datagrams : Arrive(datagram)
  <2>1. PICK datagram \in Datagrams : Arrive(datagram)
    BY <1>6
  <2>2. kernel' \in Seq(Datagrams)
    BY <2>1, AppendProperties DEF Arrive, TypeInv
  <2>. QED
    BY <2>1, <2>2 DEF Arrive, TypeInv, UdpClientAssumption
<1>7. CASE UNCHANGED vars
  BY <1>7 DEF vars, TypeInv
<1>. QED
  BY <1>1, <1>2, <1>3, <1>4, <1>5, <1>6, <1>7 DEF Next, Running

\* Each successful init() adds one receive operation, and none is ever lost.
THEOREM ReceivesAreKept ==
    ASSUME UdpClientAssumption
    PROVE  Spec => []ReceivesPerInit
<1>1. TypeInv => ReceivesPerInit
  BY DEF TypeInv, ReceivesPerInit
<1>2. (Init => TypeInv) /\ (TypeInv /\ [Next]_vars => TypeInv')
  BY TypeInit, TypeStep
<1>. QED
  BY <1>1, <1>2, PTL DEF Spec
-----------------------------------------------------------------------------
(* One receive operation at a time: what was read is not overwritten before it
   is handled. *)

Copied(cells, text) == \A k \in 1..Len(text) : cells[k] = text[k]

LEMMA IntactStep ==
    ASSUME UdpClientAssumption
    PROVE  TypeInv /\ Intact /\ [Next]_vars => Intact'
<1> SUFFICES ASSUME TypeInv, Intact, [Next]_vars, opens' <= 1,
                    NEW i \in DOMAIN done'
             PROVE  Copied(buffer', done'[i].datagram)
  BY DEF Intact, Holds, Copied
<1>a. /\ Len(done) \in Nat /\ DOMAIN done = 1..Len(done)
      /\ waiting \in Nat /\ opens \in Nat /\ waiting + Len(done) = opens
  BY LenProperties DEF TypeInv
<1>b. TypeInv'
  BY TypeStep
<1>c. DOMAIN done' = 1..Len(done') /\ Len(done') \in Nat
  BY <1>b, LenProperties DEF TypeInv
<1>d. Len(Failed.datagram) = 0
  BY EmptySeq DEF Failed
<1>e. \A d : Len(d) = 0 => Copied(buffer', d)
  BY DEF Copied
<1>f. ASSUME opens <= 1, NEW j \in 1..Len(done)
      PROVE  Copied(buffer, done[j].datagram)
  BY <1>f, <1>a DEF Intact, Holds, Copied
<1>g. ASSUME NEW queue \in Seq(Completion), Len(queue) = 0, DoReceive(queue)
      PROVE  Copied(buffer', done'[i].datagram)
  <2>1. queue = <<>>
    BY <1>g, EmptySeq
  <2>2. CASE done' = queue
    <3>1. Len(done') = 0
      BY <1>g, <2>2
    <3>. QED
      BY <3>1, <1>c
  <2>3. CASE done' = Append(queue, Failed)
    <3>1. done'[i] = Failed
      BY <2>1, <2>3, <1>c
    <3>. QED
      BY <3>1, <1>d, <1>e
  <2>. QED
    BY <1>g, <2>2, <2>3 DEF DoReceive
<1>h. done # <<>> => Len(done) > 0 /\ Tail(done) \in Seq(Completion)
                     /\ Len(Tail(done)) = Len(done) - 1
  BY HeadTailProperties, EmptySeq DEF TypeInv
<1>1. CASE Open
  <2>1. Len(done) = 0
    BY <1>1, <1>a DEF Open
  <2>. QED
    BY <1>1, <2>1, <1>g DEF Open, TypeInv
<1>2. CASE Close
  <2>1. /\ Len(done') = Len(done) + waiting
        /\ \A j \in 1..Len(done') :
               done'[j] = IF j <= Len(done) THEN done[j] ELSE Failed
    BY <1>2, Aborted DEF Close, TypeInv
  <2>2. opens' = opens /\ buffer' = buffer
    BY <1>2 DEF Close
  <2>3. CASE i <= Len(done)
    <3>1. Copied(buffer, done[i].datagram) /\ done'[i] = done[i]
      BY <2>1, <2>2, <2>3, <1>a, <1>c, <1>f
    <3>. QED
      BY <2>2, <3>1
  <2>4. CASE ~(i <= Len(done))
    <3>1. done'[i] = Failed
      BY <2>1, <2>4, <1>c
    <3>. QED
      BY <3>1, <1>d, <1>e
  <2>. QED
    BY <2>3, <2>4
<1>3. CASE Read
  <2>1. Len(done) = 0
    BY <1>3, <1>a DEF Read
  <2>2. done = <<>>
    BY <2>1, EmptySeq DEF TypeInv
  <2> DEFINE d == Head(kernel)
  <2>3. d \in Datagrams
    BY <1>3, HeadTailProperties DEF Read, TypeInv
  <2>4. done' = <<Received(d)>>
    BY <1>3, <2>2 DEF Read
  <2>5. done'[i].datagram = d
    BY <2>4, <1>c DEF Received
  <2>6. Len(d) \in 0..RxBufferSize - 1
    BY <2>3, DatagramFits
  <2>7. buffer' = [j \in 1..RxBufferSize |-> IF j <= Len(d) THEN d[j] ELSE buffer[j]]
    BY <1>3 DEF Read, Overwritten, TypeInv
  <2>8. \A j \in 1..Len(d) : buffer'[j] = d[j]
    <3> HIDE DEF d
    <3>. QED  BY <2>6, <2>7 DEF UdpClientAssumption
  <2>. QED
    BY <2>5, <2>8 DEF Copied
<1>4. CASE HandleData
  <2>1. DoReceive(Tail(done)) /\ done # <<>> /\ opens' = opens
    BY <1>4 DEF HandleData, Rearmed
  <2>2. Tail(done) \in Seq(Completion) /\ Len(Tail(done)) = 0
    BY <2>1, <1>a, <1>h
  <2>. QED
    BY <2>1, <2>2, <1>g
<1>5. CASE HandleNothing
  <2>1. DoReceive(Tail(done)) /\ done # <<>> /\ opens' = opens
    BY <1>5 DEF HandleNothing, RearmedAfterNothing, Rearmed
  <2>2. Tail(done) \in Seq(Completion) /\ Len(Tail(done)) = 0
    BY <2>1, <1>a, <1>h
  <2>. QED
    BY <2>1, <2>2, <1>g
<1>6. CASE (\E datagram \in Datagrams : Arrive(datagram)) \/ UNCHANGED vars
  <2>1. done' = done /\ buffer' = buffer /\ opens' = opens
    BY <1>6 DEF Arrive, vars
  <2>2. Copied(buffer, done[i].datagram)
    BY <2>1, <1>a, <1>f
  <2>. QED
    BY <2>1, <2>2
<1>. QED
  BY <1>1, <1>2, <1>3, <1>4, <1>5, <1>6 DEF Next, Running

\* Until a second init() adds a second operation, each handler finds in the
\* buffer what its operation received.
THEOREM TextsAreIntact ==
    ASSUME UdpClientAssumption
    PROVE  Spec => []Intact
<1>1. (Init => TypeInv) /\ (Init => Intact)
  <2>1. Init => Intact
    BY DEF Init, Intact
  <2>. QED
    BY <2>1, TypeInit
<1>2. TypeInv /\ Intact /\ [Next]_vars => TypeInv' /\ Intact'
  BY TypeStep, IntactStep
<1>. QED
  BY <1>1, <1>2, PTL DEF Spec
=============================================================================
