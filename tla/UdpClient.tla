------------------------------ MODULE UdpClient ------------------------------
(***************************************************************************)
(* Reception of datagrams: AsioUdpClient, on the io_context of the SIP     *)
(* task.  A receive operation waits in the reactor; the reactor reads a    *)
(* datagram into the client's one buffer and queues the operation's        *)
(* handler; the handler hands the text on and starts the next operation,   *)
(* whatever the outcome was.  init() and deinit() run between any two of   *)
(* these, deinit() in another task.                                        *)
(*                                                                         *)
(* A text is a sequence of cells: those of one datagram are equal, so that *)
(* texts that mix two datagrams can be told from both.  A datagram that    *)
(* leaves no room for the terminating zero is not modelled.  The init()    *)
(* that fails starts no operation and changes nothing here.                *)
(***************************************************************************)
EXTENDS Integers, Sequences

CONSTANTS
    Messages,      \* what tells datagrams apart
    RxBufferSize,  \* RX_BUFFER_SIZE, in cells
    MaxOpens,      \* bound on the successful calls of init()
    MaxArrivals    \* bound on the datagrams

\* What Station, which gives the constants their values, sees to.
UdpClientAssumption ==
    RxBufferSize \in Nat \ {0} /\ MaxOpens \in Nat /\ MaxArrivals \in Nat

VARIABLES
    open,      \* m_socket.is_open()
    kernel,    \* the datagrams at the socket, not read yet
    waiting,   \* receive operations in the reactor
    done,      \* completed operations whose handlers are queued
    buffer,    \* m_rx_buffer
    given,     \* the step called m_on_received: <<text>>, or nothing
    opens, arrivals

vars == <<open, kernel, waiting, done, buffer, given, opens, arrivals>>

Zero == "zero"   \* the value of m_rx_buffer {} and of a terminator

Datagrams == UNION {[1..size -> {msg}] : size \in 0..RxBufferSize - 1,
                                         msg \in Messages}

Completion == [ok : BOOLEAN, datagram : Datagrams \union {<<>>}]
Received(datagram) == [ok |-> TRUE, datagram |-> datagram]
Failed == [ok |-> FALSE, datagram |-> <<>>]   \* aborted, or bad descriptor

Init ==
    /\ open = FALSE /\ kernel = <<>> /\ waiting = 0 /\ done = <<>>
    /\ buffer = [i \in 1..RxBufferSize |-> Zero] /\ given = <<>>
    /\ opens = 0 /\ arrivals = 0

TwoReceives(queue) ==   \* mutant: one receive too many
    \/ open' /\ waiting' = waiting + 2 /\ done' = queue
    \/ ~open' /\ done' = Append(queue, Failed) /\ UNCHANGED waiting

\* do_receive: the operation waits, but on a closed socket fails at once.
DoReceive(queue) ==
    \/ open' /\ waiting' = waiting + 1 /\ done' = queue
    \/ ~open' /\ done' = Append(queue, Failed) /\ UNCHANGED waiting

\* init
Open ==
    /\ ~open /\ open' = TRUE
    /\ opens < MaxOpens /\ opens' = opens + 1
    /\ DoReceive(done)
    /\ given' = <<>>
    /\ UNCHANGED <<kernel, buffer, arrivals>>

\* deinit: close() queues the handlers of all that waits.
Close ==
    /\ open /\ open' = FALSE
    /\ kernel' = <<>>
    /\ done' = done \o [i \in 1..waiting |-> Failed] /\ waiting' = 0
    /\ given' = <<>>
    /\ UNCHANGED <<buffer, opens, arrivals>>

Arrive(datagram) ==
    /\ open
    /\ arrivals < MaxArrivals /\ arrivals' = arrivals + 1
    /\ kernel' = Append(kernel, datagram)
    /\ given' = <<>>
    /\ UNCHANGED <<open, waiting, done, buffer, opens>>

Overwritten(datagram) ==
    [i \in DOMAIN buffer |->
        IF i <= Len(datagram) THEN datagram[i] ELSE buffer[i]]

\* The reactor reads as long as there are operations and datagrams: it may read
\* again before the first handler runs.
Read ==
    /\ waiting > 0 /\ waiting' = waiting - 1
    /\ kernel # <<>> /\ kernel' = Tail(kernel)
    /\ buffer' = Overwritten(Head(kernel))
    /\ done' = Append(done, Received(Head(kernel)))
    /\ given' = <<>>
    /\ UNCHANGED <<open, opens, arrivals>>

TerminatedOneEarly(size) == [buffer EXCEPT ![size] = Zero]   \* mutant

Terminated(size) == [buffer EXCEPT ![size + 1] = Zero]

Rearmed == DoReceive(Tail(done))

\* The handler of an operation that received something: size comes from the
\* operation, the text from the buffer.
HandleData ==
    /\ done # <<>> /\ Head(done).ok /\ Head(done).datagram # <<>>
    /\ LET size == Len(Head(done).datagram) IN
           /\ buffer' = Terminated(size)
           /\ given' = <<[i \in 1..size |-> buffer'[i]]>>
    /\ UNCHANGED <<open, kernel, opens, arrivals>>
    /\ Rearmed

NotRearmed == done' = Tail(done) /\ UNCHANGED waiting   \* mutant: inside the if

RearmedAfterNothing == Rearmed

\* The handler after an error or an empty datagram.
HandleNothing ==
    /\ done # <<>> /\ ~(Head(done).ok /\ Head(done).datagram # <<>>)
    /\ given' = <<>>
    /\ UNCHANGED <<open, kernel, buffer, opens, arrivals>>
    /\ RearmedAfterNothing

Running == Read \/ HandleData \/ HandleNothing

Next ==
    \/ Open \/ Close \/ Running
    \/ \E datagram \in Datagrams : Arrive(datagram)

Spec == Init /\ [][Next]_vars
-----------------------------------------------------------------------------
(* Properties *)

\* Every successful init() leaves one receive operation behind for good, waiting
\* or completed: none is lost to an error, an empty datagram or a closed socket,
\* and none ends with the connection it was started for.
ReceivesPerInit == waiting + Len(done) = opens

Holds(datagram) == \A i \in 1..Len(datagram) : buffer[i] = datagram[i]

\* As long as one init() has succeeded, a datagram that waits for its handler is
\* in the buffer the handler will take it from.
Intact == opens <= 1 => \A i \in DOMAIN done : Holds(done[i].datagram)

NonEmpty(datagram) == datagram # <<>>

Inbox == SelectSeq([i \in DOMAIN done |-> done[i].datagram] \o kernel, NonEmpty)

Box == INSTANCE Mailbox WITH Texts <- Datagrams \ {<<>>}, inbox <- Inbox

\* Until the second init() the client implements Mailbox: with one receive
\* operation every text is handed on as it was received, in order, once.
IsMailbox ==
    /\ Box!Init
    /\ [][opens' <= 1 => Box!Next \/ UNCHANGED <<Inbox, given>>]_vars
=============================================================================
