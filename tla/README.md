# sip_call: TLA+ specifications and proofs

sip_call turns a door bell into a SIP call: an ESP32 joins a WiFi network,
registers at a SIP server and, when a visitor presses the bell, rings a phone
until somebody answers or a timeout cancels the call. Incoming calls are
accepted; keys pressed on the phone drive an actuator (a door opener) and are
shown on a web page.

This directory holds the specifications of that program, the TLC models that
check them on small instances, and TLAPS proofs of the properties that matter
most. Paths below are relative to `src/`; `S/` stands for
`components/sip_client/include/sip_client/`.

## 1. The system

### Components, their state and their operations

| Component | State | Operations |
|---|---|---|
| `SipClientInt` (`S/sip_client_internal.h`) with the SML table `sip_states` (`S/sip_states.h`) | the machine's state; CSeq, Call-ID, tag, branch, request URI; nonce and digest response; the peer's contact and tag; three `steady_timer`s | `init`, `deinit`, `request_ring`, `request_cancel`, `rx`, three timer handlers; the actions of the table |
| `SipClient` (`S/sip_client.h`) | owns machine and `SipClientInt` | passes calls on |
| `AsioUdpClient` (`S/asio_udp_client.h`), twice: SIP and RTP | socket, receive and transmit buffer | `init`, `deinit`, `do_receive`, `send_buffered_data` |
| `SipPacket` (`S/sip_packet.h`) | the members of one packet, filled from its text | `parse`, with `parse_header` and `parse_body` |
| `ButtonInputHandler` (`main/button_handler.h`) | machine (`idle`, `sRinging`), FreeRTOS queue of ten events | `run`, `int_handler`, `call_end` |
| event handlers (`main/sip_event_handler_*.h`, `S/sip_client_event_handler.h`) | actuator: output pin and one-shot timer | `handle`, called by the client within a handler |
| `sip_task`, `event_handler` (`main/main.cpp`) | `CONNECTED_BIT`, the `io_context`'s stopped flag | the run/restart loop; WiFi and IP events |
| `WebServer` (`components/web_server/include/web_server/web_server.h`) | server handle, five subscribers; an upload, the partitions `ota_0` and `ota_1` | `start`, `stop`, web socket and upload handlers, `notify_subscriber` |
| native driver (`native/`) | none of its own | keys that call the client |

### How they interact

* **Tasks.** `app_main` ends in `ButtonInputHandler::run` (low priority),
  `sip_task` runs the `io_context`, the event loop's task (high priority) runs
  `event_handler`, and the HTTP server has one of its own. An interrupt feeds
  the button's queue.
* **Posts.** The button calls `request_ring` and `request_cancel`, which
  `asio::dispatch` turns into handlers of the `io_context`. Everything the
  client does happens in such handlers, one at a time, in the SIP task.
* **Messages.** A datagram's text passes from the socket's receive buffer
  through `SipPacket` to `rx`; the answer is written from what the parser has
  kept, into the socket's transmit buffer of fixed size. Server and phones
  behind it answer, repeat and cross what the client sends; UDP loses,
  repeats and swaps it.
* **Callbacks.** Within a handler the client reports a `SipClientEvent`; the
  button's event handler puts `CALL_END` in the button's queue, the actuator's
  starts a timer, the web server's queues a message for each subscriber.
* **Shared state.** The event loop's task closes the sockets and stops the
  `io_context` while the SIP task may be anywhere in its loop. The SIP task
  walks the table of subscribers while the HTTP server's task changes it. The
  actuator's output is set by the SIP task and by the task of the timer service.

### What is hard

Handlers queued before the packet or timer cancellation that made them
pointless; replies matched by status code only, over a network that loses and
repeats them; calls that cross, be it a CANCEL and the answer, or a call placed and
one that comes in; two queues between button and
client, neither knowing the other's state; a connection lost in the middle of
an initialisation or of an upload; timers that are the only thing that keeps the
client going; a receive operation nobody but its own predecessor starts; a table
without a lock; fixed sizes (five `Via` lines, sixteen bits of a duration, a
transmit buffer) that cut without a word.
`PROJECT.json` lists each of these as a hazard, at its line, with the
properties that cover it or the reason why none does yet.

### What makes each component correct

* *Client:* a CANCEL or ACK names the INVITE it belongs to; credentials do not
  leak from one kind of request into another; a waiting client has a timeout, a
  registered one a renewal ahead; events tell the story of each call in order.
* *Client with server:* no reply is taken for the answer of another request; no
  call is left behind at the server; who is answered is in a call.
* *Button with client:* a phone that rings for the bell stops ringing.
* *SIP task with event handler:* the client runs on open sockets, started and
  with an event handler, after any sequence of disconnects and failures.
* *Socket:* a datagram is handled, once and as it arrived, after any number of
  reconnects.
* *Actuator:* an output that is on is switched off, and not before its duration.
* *Web server:* a subscriber receives the events after its subscription, in
  turn; only a complete image is booted; an upload does not keep the station
  from reconnecting.
* *Parser and answers:* what is taken from a packet is what its header says,
  whatever the order of its lines; an answer goes the way the request came, and
  is cut at its end only.

## 2. The modules

| Module | Models | Depends on |
|---|---|---|
| `SipClient` | `SipClientInt`, `sip_states`, the queue of the `io_context`, the timers | |
| `MCSipClient` | what is symmetric, for TLC | `SipClient` |
| `CallProgress` | abstract: what the event handlers are promised | |
| `SipClientProofs` | theorems about `SipClient` | `SipClient`, `CallProgress` |
| `SipNetwork` | client, user, SIP server with the phones behind it, network | `SipClient` |
| `SipNetworkProofs` | theorems about `SipNetwork` | `SipNetwork`, `SipClientProofs` |
| `SipPacket` | the parser, a step for each line | |
| `SipMessage` | from a datagram to the datagram that answers it: `rx`'s answers, the ACK, the transmit buffer; the delay of the renewal | `SipPacket` |
| `MCSipMessage` | the texts for TLC | `SipMessage` |
| `SipMessageProofs` | theorems about the parser and the answers | `SipMessage` |
| `ButtonHandler` | `ButtonInputHandler` | |
| `DoorBell` | button, `SipEventHandlerButton` and client together | `SipClient`, `ButtonHandler` |
| `DoorBellProofs` | theorems about `DoorBell` | `SipClientProofs` |
| `Lifecycle` | `sip_task`, `event_handler`, init and deinit of the sockets | |
| `UdpClient` | `AsioUdpClient`'s reception, the socket and the reactor | |
| `Mailbox` | abstract: what `rx` is promised of the socket | |
| `UdpClientProofs` | theorems about `UdpClient` | `UdpClient` |
| `Station` | the socket within the two tasks | `Lifecycle`, `UdpClient` |
| `StationProofs` | theorems about `Lifecycle`, `Station` and uploads | `Station`, `WebStation`, `UdpClientProofs` |
| `Actuator` | `SipEventHandlerActuator` and the timer service | |
| `ActuatorProofs` | theorems about `Actuator` | `Actuator` |
| `WebServer` | the table of subscribers and its three tasks | |
| `WebServerProofs` | theorems about `WebServer` | `WebServer` |
| `Upload` | `upload_handler`, the partitions and resets | |
| `WebStation` | an upload within the two tasks | `Lifecycle`, `Upload` |

Definitions with the comment `mutant` before the definition they
imitate are never used by a specification: each is a plausible bug, and
`PROJECT.json` records which property it would break.

### SipClient

One action per handler of the `io_context`. `ready` is its queue; `Take(h)`
removes the handler that runs. What other tasks do to the client (`Start`,
`RequestRing`, `RequestCancel`), an expired timer (`TimerExpires`) and a
datagram (`DatagramArrives`) only append to it. That a queued handler cannot be
cancelled any more is the semantics of asio, and where most of the
interleavings come from.

A handler does all that the code does in one run: `RunsHandler` is a step that runs one,
and `Rx(p)` is `rx` for the packet p, with the command timer cancelled first, the peer
stored, the action of the row and the datagrams sent. `rx` looks at the status and at the
method one after the other, and a packet may have both: what it does about the method
then (`rest`) follows in the same handler. `TakePacket` takes such a packet off the queue
and puts its rest at the head, where no other handler can come between. The helper
actions carry the names of the functions of `SipClientInt`; the states carry those of
the table. Because `state<class idle>` and `"idle"_s` are different types, `idle` and
`idle_s` are different states.

A datagram may be received whatever is queued: after a reconnect there is more than one
receive operation (`UdpClient`), and so more than one `rx` behind the other.
`StartHalf` is an `init` of which only one socket has been opened: the client then runs
without being started (finding 3).

Abstracted: a packet is its kind, with contact, tag and nonce, and what its method adds
to its status (`rest`); a datagram is its
method, URI, identification (`hdr`) and credentials; `std::rand()` returns any
element of `Rand`; a digest response is the triple that determines it (method,
URI, nonce). `SeqModulus` is 2^32 in the code. `MaxPending` bounds the queue;
asio's has no bound. Two history variables help to state properties: `invite`,
the last INVITE sent, and `lost`, the timers whose expiry the client has missed.

The environment is open: any packet at any time. What holds here holds for
every server and network. What needs a server that plays by the rules is in
`SipNetwork`.

### CallProgress and the refinement

`CallProgress` has one variable for the call (none, ringing, talking) and one
for the event reported. `SipClient` implements it under `call <- CallOf(sm)`:
cancelling still counts as ringing, every state without a call as none.
`Abandon` is the transition that reports nothing; the client takes it when a
restart (`ev_start`) interrupts a call and when a second 200 leads from an
established call to the terminate state.

### SipNetwork

The client is `SipClient` as it stands. Each of its steps is conjoined with what
becomes of the datagrams it sends: `Transmit` appends them to `up`, in the step
itself, as `send_buffered_data` does before the handler ends. `DatagramWaits` is
the socket's completed receive operation, of which there is one here, as the sockets are
opened once; `ClientReceives` is `rx` for the first datagram in `down`, which has a
status or a method, never both. The user (button or native driver) rings and cancels.

The server and the phones are external and modelled from what the client is
written for: a request without credentials is challenged, a call that rings is
answered, refused or cancelled, a talking one is hung up, and a final reply, a
BYE or an INVITE is repeated until it is acknowledged. `out` is the call the
client places, `inc` the one to the client. A reply names its request and call,
which the client does not look at: that is what `AckToOkAfterInvite` is about.
`Fault` loses, repeats or swaps a datagram; a timeout while the reply is on its
way is a fault as well, so that `Smooth` (no faults) means a network faster than
the client's timeout. The client's transmissions are lost but not repeated: the
server would take the second one for what it is, by its CSeq and branch.

The model has shown some ways a call may end that the properties exclude by
their conditions, section 3 lists them.

### SipPacket and SipMessage

The parser works line by line, and so does the module: each branch of
`parse_header`'s chain of comparisons is an action, and so are the ways out of
the two loops. A line is a name and the value its branch reads; the search for
strings within a line, case and blanks are abstracted into the name. The
conversions are modelled by what they do: `ReadNumber` by `strtol`, the test for
negative numbers and the cut to the member's width (`ExpiresModulus` and
`DurationModulus` are 2^32 and 2^16 in the code), `ConvertStatus` and
`ConvertMethod` by the tables, `AppendTo` by the first free place of five, where
an empty value leaves its place free. `Line` is the set of all lines; which texts
of them arrive (`Texts`) is a constant, a few for TLC and any set for the
theorems. `NoText` is the empty text, which the code tells from a missing
parameter (`Absent`). The reference definitions the results are
compared with speak of sets of lines (`Named`, `IsLast`, `HoldsFirst`) and know no
loop.

`SipMessage` adds what `rx` does with the packet: which packets are answered at
once, declined or acknowledged, and in which order (`turn`): a packet with the method
INVITE and a status is acknowledged first and then answered, out of the same buffer.
Which reply is acknowledged in which state is `SipClient`'s; here it may be or may not.
`Peer` and `PeerTag` are what `rx` makes of the packet and of what earlier packets have
left (`KnownContact`, `KnownTag`, either of which may be empty); `Dialled` is the URI an
ACK goes to if nobody has ever given a contact. Then there are the lines of the
answer in the order of
`send_sip_reply_header` and `send_sip_header`, and the buffer, whose
`operator<<` cuts what does not fit (`Put`). `Written` runs it over the pieces as a
recursive function, so that the module can be proved about. `RenewalDelay` is
`schedule_reregister`.

### ButtonHandler and DoorBell

`ButtonHandler` has one action for each way the queue is filled and one for each
outcome of `xQueueReceive`. `request` is the call of the client a step makes.
`DoorBell` joins it to `SipClient`: a step that requests something appends to
`ready` in the same step (there is nothing in between that another task could
see); a client's step whose event is `CALL_CANCELLED` or `CALL_END` sends
`CALL_END` to the button in the same step. Everything else interleaves. Time is
not modelled: the timeout may come as soon as the queue is empty. `MaxPresses`
bounds the presses: with presses without end the ring would be prolonged
without end, as the project's README documents.

The history variable `orphaned` becomes true when the button takes an end of
call while a ring is requested or under way, and false when it rings again or
the ring is over.

### Lifecycle

Each action is one call of `sip_task` or `event_handler`, so that the two tasks
interleave between any two calls, in particular between the two `deinit`s of
`SipClientInt::deinit` and between the two `init`s of `SipClientInt::init`. A
socket's `init` is atomic; it fails when the socket is open and may fail
otherwise (lookup, open, bind). The events of the driver come one at a time.
`MaxDisconnects` and `MaxFailures` bound what the environment does.

### UdpClient, Mailbox and Station

`UdpClient` has the two places a receive operation can be in: `waiting` in the
reactor, or completed with its handler queued (`done`). `DoReceive` is what
`do_receive` comes to: on a closed socket the operation fails at once. `Read` is
the reactor's: it reads into the one `m_rx_buffer` as long as operations and
datagrams last, and so possibly a second time before the first handler has run.
`HandleData` and `HandleNothing` are the two outcomes of the handler; both start
the next operation. A text is a sequence of equal cells, so that texts made of
two datagrams show.

`UdpClient` implements `Mailbox` (in order, whole, at most once) as long as there
is one operation. Each reconnect adds one, since the operations of the closed
socket end in `do_receive` again and wait at the new one; from the second on the
texts of two datagrams may mix, which the code leaves possible and no document
promises otherwise: hence the condition in `Intact` and `IsMailbox`.

`Station` puts the socket under `Lifecycle`: `InitSip` and `DeinitSip` are
`Open` and `Close`, and `Running` happens only in `run()` while the `io_context`
is not stopped.

### Actuator

Time passes in ticks (`Tick`), independently of both tasks. `trigger` is two
steps of the SIP task, `gpio_set_level` and `xTimerStart`; the timer service
takes expired timers before commands and counts a period from the sending of the
command. `StartTimerFails` stands for a queue filled by this or another timer,
after which the SIP task waits itself. `since` and `again` are history: the time
since the last key, and whether that key met something left of an earlier one.

### WebServer

One action per handler of the HTTP server's task, per call of the event loop's,
and per entry of the SIP task's walk. Handles and descriptors are used again.
Connections are numbered, which the code does not do: `told`, `since`,
`unlisted` and `latest` are history by connection. The server's queue of work
holds a copy of the entry, as `trigger_async_send` makes it. What
`httpd_ws_send_frame_async` does with the handle of a server that is gone is left
out, and so is an entry copied between the two assignments of another task.

The server's task calls one handler at a time. `receiving` says that it is in the loop of
`upload_handler`, and for which connection: until the upload ends there are no new
connections and no frames, no work is done, and `httpd_stop` does not return (`InLoop`),
while the SIP task goes on reporting. What the upload does is module `Upload`.

### Upload and WebStation

`Upload` has a place (`at`) for each library call of `upload_handler` and two
actions for its outcomes. Flash is the number of parts written of an image, and
whether `esp_ota_end` would accept it. `Reset` is possible everywhere; it is the
page's command as well as a power cut, and includes the bootloader's choice.

`WebStation` runs it under `Lifecycle`: `httpd_stop` returns only when no
handler runs, so `WebStop` needs `at = "idle"`, and data arrives only while the
station is connected. `DeviceReset` starts the tasks of `Lifecycle` anew with
what the flash holds, as a reset does in the middle of anything; its counters of
disconnects go on, as bounds.

## 3. The runs

| Run | Instance | Shows |
|---|---|---|
| `sip_client` | two handlers queued, one random value, CSeq modulo 2, challenges without a nonce; packets with a status, a method or both, with one of two contacts and with a tag, either of which they may lack | CANCEL and ACK match their INVITE; no REGISTER credentials in a call; the renewal and the reply timeout are never lost but in the two ways `lost` records; `CallProgress` is implemented; an answer is acknowledged at its own contact and with its own tag, whatever peer an earlier call or another packet has left |
| `sip_server_error` | violated | a 500 while registering is never recovered from |
| `sip_message` | texts of a first line, up to three of fifteen kinds of header line, and a body of up to two lines; lists of 2, widths of 4 and 5 bits, a buffer of 20 places | what is taken from a packet is what its header says; the registration is renewed in time; the answer goes the way the request came, and its ACK the recorded route backwards, to the last contact and with the last tag of the packet; only the end of a message is cut; parsing ends |
| `sip_network` | two handlers queued; calls and faults: two in all; fair | a CANCEL is that of its INVITE, challenged or not; no reply is taken for another request's, nobody is left on the line, a cancelled call ends, the client registers |
| `sip_waiting_call` | violated | a caller is answered and connected to nobody |
| `door_bell` | button queue of 1, client queue of 2, 3 presses, fair | a ring is timed, but for one stale event; a ring the button measures ends, unless the connection is lost |
| `door_bell_untimed` | violated | the stale event: a phone nothing will ever cancel |
| `station` | 2 disconnects, 1 failure, 2 datagrams of up to 2 cells, a buffer of 3, fair | the SIP task settles in `run()`, with work, on an open socket, with a handler; no receive operation is lost or added but by `init`; until the second `init`, `Mailbox` is implemented; every datagram of a connection that lasts is handled |
| `lifecycle_retry` | violated | a failed initialisation is not tried again |
| `actuator` | 3 ticks, queue of 2, 4 keys, fair | the output is switched off, and a pulse that met nothing earlier is full |
| `web_server` | 2 descriptors, 2 entries, 2 connections, 2 events, 2 starts, fair | who subscribed stays listed unless there was no room, and is sent the events in turn, also after an upload, or one after the other, has kept the server's task |
| `web_station` | 1 disconnect, 2 parts, 3 uploads, 2 resets, fair | a whole image runs; nothing stays open; the page's promise holds until the next upload; a lost connection is tried again unless an upload waits for its client |

Why the bounds are enough. `CancelMatchesInvite` and its companions compare the
fields of two requests. Modulo 2 distinguishes a kept CSeq from the next one, which
every INVITE takes, so one random value does; redrawn tags, more nonces and
wrapped numbers are what the theorems are for. With two places in the queue, an
expired timer is behind the packet that should have cancelled it. A request is
told from another by what it replies to and by its call: two calls, or one and a
fault, or two faults, are every pair of things that may meet in `sip_network`, where
numbers and tags do not matter and have one value. Whom an ACK names is a
question of two contacts, an earlier one and the answerer's, and of no third; the tag is
kept by the same lines, and `sip_message` has two. `sip_client` is symmetric in the two
contacts: they are compared, and nothing else is done with them. A nonce is in the
client's requests whatever its value is; with one, and with what the network may repeat,
`CancelMatchesInvite` is checked in `sip_network`. The parser's branches look at one
line each and at what an earlier one has left, so that two lines of a kind with
different values, one of another kind between them, and an empty list place make the
cases; lists of two are full with the third line, and the widths are passed by
the values 17 and kept by 3. The buffer of 20 places holds the short answers and
cuts the long ones at every kind of place.

The button's races need the press and the stale end (two events), and two
of the client's handlers (ring and cancel). With three presses one is in the queue while
the button rings for the first and the second starts the wait anew, and the queue of one
is the queue of ten when it is full: the next press, or an end of a call, finds it so and
is lost. The theorem `RingsAreTimed` has queues of any length. One disconnect
interrupts every step of the SIP task, the second meets it in every state the
first has left behind, and gives the socket a second operation and the leftovers
of the first; the buffer of three cells holds a short and a long datagram, so that
one can be left over behind the other. Four keys give the actuator's queue its
two commands, one that fails, and one more while the SIP task's own wait is over;
three ticks let each of them have a different age. Two entries and two connections,
each of which may subscribe twice, make the subscribers' table full, with a hole, and
with an entry of a connection that is gone and whose descriptor is used again. Two
parts give the upload a first and a last write, three uploads a second one before
and after a reset; one disconnect meets it at every place. The theorems
below remove the bounds for the safety properties of every module; of the
refinements, for that of the client.

Deadlock is checked for the client, alone and in its network, the door bell and the
actuator. In `Station`, `WebServer` and `WebStation` nothing more need ever happen, or
the bounds let nothing more arrive, and in `SipMessage` the answer to one packet ends
the behaviour: `CHECK_DEADLOCK FALSE` is in their configurations.

### Fairness

* `SipClient`: the SIP task runs queued handlers (WF), and a started timer expires, as
  long as the client is `open`: after `deinit` and `stop` the task waits for
  `CONNECTED_BIT` (`main/main.cpp:238`), and nothing makes it come back. It is SF for
  the timer, because the bound on the queue, which the code does not have, may block the
  expiry again and again.
* `SipNetwork`: the SIP task runs what is queued (WF), its socket completes a
  receive and its command timer expires (SF, for the same bound), the server serves
  what has arrived and repeats what is not acknowledged (WF), as RFC 3261 has it
  do. Nobody has to answer, refuse, ring or hang up, and faults need not come.
* `SipMessage`: parsing and answering are sequential code (WF).
* `DoorBell`: the button's task runs, its steps that post SF for the same reason; the SIP
  task's handlers run while the client is `open` (WF), as above. Nothing is assumed of
  the server: `RingEnds` says that the client leaves `calling` even if no packet ever
  arrives, and, as `CONNECTED_BIT` may never be set again, only as long as the connection
  lasts.
* `Station`: each task makes its next call (WF). Whether the access point accepts
  the station is left open: `Settles` starts from an IP. In `run()` the SIP task
  reads, and runs its queued handlers (WF each: asio alternates between the two).
* `Actuator`: time passes, the timer service and the SIP task come to run (WF).
  Nobody has to press a key.
* `WebServer`: the SIP task finishes its walk (WF). The server looks for work in each round
  of its loop, before it calls another handler: whenever it is in its loop again and
  again, the work is done (SF). That it comes back from an upload is not assumed:
  `Delivered` is about behaviours in which it is not kept for good by one
  (`[]<>(receiving = 0)`).
* `WebStation`: the two tasks as in `Station`; the handler of an upload runs
  (WF), but neither does its client have to send nor its connection to fail: a
  connection that only waits for data notices nothing while the station is
  disconnected.

### Findings

Four runs end in a violation on purpose: each states what a comment, a log
message or the README says, and TLC shows the behaviour in which the code does
something else. `PROJECT.json` has the details.

1. `S/sip_client_internal.h:290` "wait for timeout and restart again": the
   restart after a 500 is dropped, because `"idle"_s` is not `state<class idle>`
   (`S/sip_states.h:96`).
2. `README.rst:10` "After the configured timeout is elapsed, the call is
   canceled": not when the end of the previous call is behind the press.
3. `main/main.cpp:246` "Waiting to try again...": when one of the two sockets
   failed, the client runs without having been started.
4. `S/sip_client_internal.h:401` "But immediately pick up all other calls": every
   INVITE is answered with 200 OK, but only `registered` takes the call. Whoever
   calls while the client registers, rings, cancels or is in a call talks to nobody.

The models have more behaviours a reader may not expect; each is the reason for
the condition in a property that holds, and there is no run of its own for them.

* An answer without a Contact, or without a tag, is acknowledged at the contact, or with
  the tag, of whoever sent them before (`S/sip_client_internal.h:337`);
  `AnswerAcknowledgedAtAnswerer` and `AckNamesTheSender` are about each of the two the
  answer has.
* A packet with a status and a method is two events for the machine, one after the other
  (`S/sip_client_internal.h:347` and 387).
* A CANCEL that crosses an answer or a refusal leaves the client in `cancelling`,
  from which only a 487 leads (`CancelledCallEnds` is about a CANCEL that came in
  time).
* An ACK that is lost makes the server repeat its 200, which the established call
  takes for the end: `Smooth` in `NobodyLeftOnTheLine`.
* A final reply to an INVITE the table has no row for, 404 say, is not acknowledged,
  and the client goes on ringing until the button cancels (`Finals`).
* A request that came over more than five proxies is answered without the sixth
  `Via` line (`HoldsFirst` in `FindsItsWay`), and an answer too long for the
  transmit buffer is sent without its end (`Complete`).
* A `SIP/2.0` line counts wherever it stands in the header; `TakenAsSent` says what
  a packet with a method in its first line and a status further down is taken for.
* `README.rst:9` "Once a signal is detected ..., a call is initiated": not when
  the periodic registration is handled between the press and the request. The
  request has a row in `registered` only and is dropped.
* `S/sip_client_internal.h:141` "sending REGISTER without auth": `m_response` of
  an earlier request is sent with it (`NoRegisterCredentialsInCall` is about
  calls only).
* `main/Kconfig.actuator:29` "the duration in milliseconds, the actuator is
  activated": a key pressed as the timer of an earlier one fires gets less
  (`again` in `PulseIsFull`).
* `components/web_server/include/web_server/web_server.h:219` "subscribed": also
  when the table is full, of entries nobody uses any more (`ListedUnlessFull`).
* `components/web_server/index.html:79` "reset to apply update!": a second upload
  erases the image that was to be applied, and may fail (`PromisedUntilNext`).
* `main/main.cpp:153`, the workaround for a missing reassociation:
  `esp_wifi_connect` waits for `httpd_stop`, which waits for an upload, which
  waits for data over the connection (`ReassociatesUnlessReceiving`). As long, no event
  reaches a subscriber (`Delivered`).

One more was met without a run, since no behaviour is needed to see it: the
option `SIP_SERVER_IS_GATEWAY_IP` (`main/Kconfig.projbuild:54`) has no effect,
because the code tests `CONFIG_SIP_SERVER_IS_DHCP_SERVER` (`main/main.cpp:95`
and 166).

## 4. The proofs

All theorems hold for every value of the constants that satisfies the named
assumptions (`ConstantsAssumption`, `NetworkAssumption`, `SipPacketAssumption`,
`TextsAssumption`, `SipMessageAssumption`, `DoorBellAssumption`,
`LifecycleAssumption`, `StationAssumption`, `ActuatorAssumption`,
`WebServerAssumption`, `WebStationAssumption`): positive moduli and sizes, natural
bounds, names that differ, and texts that are sequences of lines. `UdpClientAssumption`, the same for the socket, is a hypothesis of the
lemmas of `UdpClientProofs`, so that `StationProofs` can discharge it.

* `TypeCorrect`: `TypeOK` is inductive by itself; a lemma for each kind of step.
* `CancelsMatchInvites`: `CancelMatchesInvite` is about what is sent and not
  inductive. The strengthening `InviteCurrent` says that while calling the
  header and credentials are those of the last INVITE. Every row out of or
  within `calling` either leaves both alone or sends a new INVITE.
* `AcksMatchInvites`: the same invariant, and a lemma that a step from `calling`
  sends an ACK with the header of the state it started in.
* `CredentialsStayWithRegister`: `NoRegisterCredentialsInCall` is about what is sent.
  `CredentialsInv` adds `Forgotten`: the client, once registered and in every state
  of a call, no longer holds the response of a REGISTER. The row that registers
  forgets it, and a challenge in a call brings the response of an INVITE.
* `AnswersAreAcknowledged`: a fact about a single step, `AnswerStep`: the peer named by
  the ACK has the contact of this answer if it has one, and its tag if it has one
  (`PeerOfAnswer`), because both are stored before the row's action sends the ACK.
* `RegistrationIsRenewed`, `ReplyIsAwaitedWithTimeout`: `RenewalAhead` extends
  the first to `cancelling`, from which a call returns to `registered`. The
  lemmas about the queue (`TakeOther`, `EnqueueKeeps`) carry the argument.
* `ClientImplementsCallProgress`: initial states map to the initial state, each
  step to a step of `CallProgress` or a stutter.
* `MembersFit` (`SipMessageProofs`): the type invariant of the parser, for any set of
  texts: widths are kept, lists stay within their length and hold no empty text, and
  `pos` stays within the text.
* `ReadAsSent`: `TakenAsSent` is about a packet that has been parsed. `TakenInv` says
  the same of the lines gone through so far, in either loop, and that none of them
  was the empty one (`Filled`): then, where a loop ends, the lines gone through are
  `Header` or `Body`. One lemma for each member says how a line of its name, and how
  any other, changes "the last one so far" (`HeaderGrows`, `DurationGrows`).
* `RenewsInTime`: `ExpiryInv` says what is kept of the Contact lines gone through; it
  rests on `TakenInv`. That the client never renews at once needs the member's type only.
* `AcksNameTheSender`: `PeerInv` says the same of the contact and the tag; a complete ACK
  holds the two in places `AckIs` names.
* `AnswersFindTheirWay`: `ListsInv` says that `m.list` holds the first values of the
  lines gone through, in order, as far as there are places. The order is a rank, the
  number of listed lines before, so that a new line takes the next rank and changes no
  earlier one (`HoldsGrows`). `ReplyIs` and `AckIs` say what stands where in an answer;
  an answer that has all its parts (`CompleteIsWhole`) was not cut.
* `SendsTheBeginning`: `WrittenIs` gives `Written` a closed form, the beginning of
  the pieces joined that fits the room. `Written` recurses over the pieces, and the
  induction theorems are not usable here; the lemma takes the least number of pieces
  for which the closed form fails (`LeastExists`, from the well-foundedness of the
  naturals) and refutes it.
* `ClientInNetwork` (`SipNetworkProofs`): every behaviour of the network is one of
  `SipClient` in the client's variables, so that all its theorems hold there.
* `NetworkInvariant`, `NobodyIsLeftOnTheLine`, `CallersAreHeard`,
  `AnsweredByItsAnswer`: see below.
* `ClientInDoorBell`: every behaviour of the door bell is one of `SipClient` in
  its client's variables, so that all of the above holds there.
* `RingsAreTimed`: the queue is part of the argument. `RingInv` says that if a
  ring is under way or requested, the button rings, or it gave up, or *behind
  every queued request there is a queued cancel* (`CancelBehind`). Appending a
  cancel establishes it, appending anything else keeps it, and taking the head
  keeps it unless the head is that cancel, and then no request is left.
* `BellTypes`: the button's queue is not overrun; `TypeOK` of the client comes
  with `BellInv`.
* `RunsWithOpenSocket`, `StartsWithHandler`, `BitMeansIp`: each from a one-line
  inductive invariant (`OpenInv`, `HandlerInv`, `BitInv`) which names the calls
  of the event handler during which the property may be suspended.
  `LifecycleTypes` proves flags and places apart, because no one prover has both.
* `ReceivesAreKept` and `TextsAreIntact` (`UdpClientProofs`): `TypeInv` contains
  the count of operations, from which it follows that with one opening only one
  completion can be queued, so that nothing reads behind its back.
* `LifecycleInStation`, `SocketInStation`: every behaviour of the composition is
  one of each part.
  `ReceivesAreKeptInStation` and `TextsAreIntactInStation` take the socket's
  invariants over. `RunsWithWork` cites the step lemma of the socket through an
  instance of its proof module and adds `OpenedInv`: who is in `run()`, or has an
  open socket, has opened it once.
* `TypeCorrect`, `OutputIsTimed`, `PulsesAreFull` (`ActuatorProofs`): `PulseInv`
  says that while a pulse that met nothing earlier is on, what will switch it off
  is alone, and lies as far ahead as the duration is not over (`TickMeasures`:
  both sides keep pace).
* `WebServerTypes`, `SubscribersStayListed`, `EventsComeInTurn` (`WebServerProofs`): `ListedUnlessFull`
  needs that no two descriptors have the same connection and that without a server
  there are none (`ConnInv`): what is told to a connection is then told to one
  descriptor, and a new connection has a number nobody was told anything under.
  `FirstExists`, by the well-foundedness of the naturals, says that a free entry
  means a first one.
  `EventsComeInTurn` rests on `TurnInv`, as long as no work was refused: the queue is
  in the order of events and nothing later was sent (`Order`); all events but the
  last have reached, or wait for, who is listed, and the last one too once the walk
  has passed an entry of it (`Frontier`); each message follows on what was sent or on
  one before it in the queue (`Chained`).
* `AlwaysRunsWholeImage`, `HandlesAreClosed`, `PromisesAreKept`, `UploadTypes`
  (`StationProofs`): `UploadSteps` reduces the station's steps to the upload's.
  `Underway` says that between `esp_ota_begin` and the last call the partition
  to update holds the image of this upload and what was promised is an earlier one;
  `HandleInv`, where a handle may be open; `Counted`, that what is written and what
  remains is the whole image, so that no write goes past its end. The other parts
  follow because only the partition to update, never the running one, is written
  (`UploadWrites`).

### The invariant of the network

`NobodyLeftOnTheLine` and `CallerIsHeard` speak of moments at which nothing is under
way, `AckToOkAfterInvite` of single steps; none is inductive. `NetInv` says what is under way
at every other moment. Besides the types it has four parts, all of them under `Smooth`
(no fault so far), as the first property is:

* `HandlersInv`: no reply timeout is queued, the client is started once and never
  restarts, so that its state is one of `Phases`.
* `OwnInv` relates the client's state to its own request. In rest (`FreeInv`) neither
  a request nor an answer to one is under way. While it registers, its REGISTER or
  the answer is, and exactly one of them. While it calls, its INVITE is, or a
  challenge, or the call is ringing, or it is answered (`CallingInv`). While it cancels,
  its CANCEL is behind the INVITE, or has met the call in one of the states it may be
  in by then (`CancellingInv`). That at most one answer is under way, and the one to this
  request, is what lets a client that looks at the status only take it rightly.
* `IncInv`: a call to the client is offered as long as its INVITE or the 200 to it is
  under way, and is being hung up as long as its BYE or the 200 to that is.
* `LineInv`, until a caller has been picked up by a client that does not take the
  call (`untaken`, finding 4): the client is in a call exactly when one of the two
  sides is on the line with it (`OutOnLine`, `InOnLine`), and never both are. An ACK that
  has not arrived, or a BYE not yet received, counts as being on the line. `ByeInv`
  says that the BYE under way is that of this call.

`up` and `down` are spoken of by three operators, `None`, `One` and `Before`, each of a
queue and a set of datagrams; `AppendSays` and `TailSays` say once what sending and
receiving make of them, and the steps of the proof cite these and never look into a
sequence. There is one lemma for each action and part (`OwnServeInvite`,
`LineServeAck`, ...), and one for the steps that do not concern a part (`OwnFrame`,
`IncFrame`, `LineFrame`). A fault ends `Smooth`, after which only the types remain.
Before it was proved, TLC has checked `NetInv` with bounds above those of
`sip_network` (four calls and faults in all, one of them a fault, three handlers
queued).

What is under the invariant's conditions is what the model's environment makes it:
a server that answers each request once, and repeats only what nobody acknowledges and
only with nothing else under way, and a network faster than the client's timeout.
`ClientInNetwork` and the client's theorems do not depend on it.

## 5. Only checked, not proved; not modelled

*Only model-checked.* Liveness (`RingEnds`, `Settles`, `DatagramsAreHandled`,
`SwitchesOff`, `Delivered`, `CancelledCallEnds`, `Registers`, `Ends`,
`ReassociatesUnlessReceiving`) is out of the prover's reach, and so is `IsMailbox`,
whose refinement mapping filters a sequence (`SelectSeq` is defined by recursion).
Every invariant and every other action property of the passing runs is a theorem. The
type invariants of `SipPacket`, `Actuator`, `Lifecycle`, `DoorBell`, `WebServer`, `Upload`
and `SipNetwork` are proved and in no run.

*Not modelled.* The digest, and within a line of text the search for a
string: nothing here depends on them. A datagram that fills the receive buffer, whose
terminator is written behind it: what that does is not in the source. `set_server_ip`,
whose only call no configuration compiles in, and `set_credentials`, which has no
caller. Data races on strings and sockets between the event loop's task and the SIP
task (`set_my_ip`), and on an entry of the subscribers' table: each call is taken as
atomic. PONG frames and the delivery of the page, which keep no state, and the text
of the JSON. The memory of work the HTTP server refuses. The contents of RTP: the
socket is opened and ignored by the code; that it opens and closes is in `Lifecycle`.
A restart of the client within `SipNetwork`, whose initialisation there comes once:
restarts are in `SipClient`, `Station` and `WebStation`. SML and asio, as far as the
actions do not say what they do. Of the native driver the key that ends the program
and the terminal. The web page, build files.

## 6. Plan

The first plan (client, bell, tasks, socket, actuator, web server; then network and
parser; then the theorems about all of them) is done. Next, in this order:

1. An abstract specification of a call as a transaction with one outcome, which
   `SipNetwork` without faults implements: `OwnInv` has the facts its steps need.
2. The RTP socket's receive operations in `Station`, next to those of the SIP socket.
3. Theorems that hold across a fault: of `NetInv` only the types do, although a datagram
   that is repeated, say, spoils less than that.
