------------------------------ MODULE WebServer ------------------------------
(***************************************************************************)
(* The events of the SIP client on the web page: WebServer's table of      *)
(* subscribers.  Three tasks meet in it.  The HTTP server's task handles   *)
(* the frames of the web sockets and the work queued for it, and none of   *)
(* them while it receives an upload; the SIP task walks the table at every *)
(* event and queues a message for each entry; the event loop's task starts *)
(* and stops the server.  Nothing locks the table: the walk is one step    *)
(* for each entry.  What is done with an upload is module Upload.          *)
(*                                                                         *)
(* An entry is a server handle and a file descriptor.  Both are used again *)
(* by the system: a handle after a restart, a descriptor by the next       *)
(* connection.  Events are numbered.                                       *)
(***************************************************************************)
EXTENDS Integers, Sequences, FiniteSets

CONSTANTS
    Fds,              \* descriptors, as many as connections at a time
    Handles,          \* addresses a server may get
    Slots,            \* length of the array subscriber, 5
    MaxWork,          \* work the control socket of the server takes
    MaxConnections,   \* bound on the connections
    MaxEvents,        \* bound on the events
    MaxStarts         \* bound on the successful httpd_start()s

None == "none"

ASSUME WebServerAssumption ==
    /\ 0 \notin Fds /\ None \notin Handles
    /\ {Slots, MaxWork, MaxConnections, MaxEvents, MaxStarts} \subseteq Nat /\ Slots # 0

VARIABLES
    server,       \* the server's handle
    conn,         \* for each descriptor the connection that uses it, or 0
    receiving,    \* the descriptor upload_handler waits for, or 0
    subscriber,   \* the table
    work,         \* messages queued with the server
    walk,         \* the entry notify_subscriber looks at next, or 0
    reported,     \* the events so far
    told,         \* connections answered "subscribed" ...
    since,        \* ... and the events reported before
    unlisted,     \* history: told, but there was no room
    latest,       \* the last event sent to each connection
    refused,      \* history: the server did not take some work
    connections, starts

web == <<server, conn, receiving, told, since, unlisted>>
vars == <<web, subscriber, work, walk, reported, latest, refused, connections,
          starts>>

Unused == [hd |-> None, fd |-> 0, event |-> 0]
IsUsed(s) == s.hd # None /\ s.fd # 0

Entry == [hd : Handles \union {None}, fd : Fds \union {0}, event : 0..MaxEvents]
Connection == 1..MaxConnections

\* Every variable keeps its shape, and no entry is half filled.
TypeOK ==
    /\ server \in Handles \union {None}
    /\ conn \in [Fds -> Connection \union {0}] /\ receiving \in Fds \union {0}
    /\ subscriber \in [1..Slots -> Entry]
    /\ \A i \in 1..Slots : subscriber[i].hd = None <=> subscriber[i].fd = 0
    /\ work \in Seq(Entry) /\ Len(work) <= MaxWork
    /\ walk \in 0..Slots /\ reported \in 0..MaxEvents
    /\ unlisted \subseteq told /\ told \subseteq Connection
    /\ since \in [Connection -> 0..MaxEvents]
    /\ latest \in [Connection -> 0..MaxEvents]
    /\ refused \in BOOLEAN
    /\ connections \in 0..MaxConnections /\ starts \in 0..MaxStarts

Init ==
    /\ server = None /\ conn = [fd \in Fds |-> 0] /\ receiving = 0
    /\ subscriber = [i \in 1..Slots |-> Unused]
    /\ work = <<>> /\ walk = 0 /\ reported = 0
    /\ told = {} /\ since = [c \in Connection |-> 0] /\ unlisted = {}
    /\ latest = [c \in Connection |-> 0]
    /\ refused = FALSE /\ connections = 0 /\ starts = 0
-----------------------------------------------------------------------------
(* The event loop's task *)

\* The server's task is in its loop, and stays there.  httpd_stop waits for that.
InLoop == receiving = 0 /\ UNCHANGED receiving

\* The server's connections and its work go with it; the table stays.
Gone == conn' = [fd \in Fds |-> 0] /\ work' = <<>> /\ told' = {} /\ unlisted' = {}

Stop ==
    /\ InLoop /\ server # None /\ server' = None
    /\ Gone
    /\ UNCHANGED <<since, subscriber, walk, reported, latest, refused,
                   connections, starts>>

\* A server that runs is stopped first.  When httpd_start fails there is none.
Start ==
    /\ InLoop
    /\ \/ server' \in Handles /\ starts < MaxStarts /\ starts' = starts + 1
       \/ server # None /\ server' = None /\ UNCHANGED starts
    /\ Gone
    /\ UNCHANGED <<since, subscriber, walk, reported, latest, refused,
                   connections>>
-----------------------------------------------------------------------------
(* The HTTP server's task *)

Accept(fd) ==
    /\ InLoop /\ server # None /\ conn[fd] = 0
    /\ connections < MaxConnections /\ connections' = connections + 1
    /\ conn' = [conn EXCEPT ![fd] = connections']
    /\ UNCHANGED <<server, told, since, unlisted, subscriber, work, walk,
                   reported, latest, refused, starts>>

Ends(fd) ==
    /\ conn[fd] # 0
    /\ conn' = [conn EXCEPT ![fd] = 0]
    /\ told' = told \ {conn[fd]} /\ unlisted' = unlisted \ {conn[fd]}

\* The connection breaks, or is purged to make room for a new one.
Drop(fd) ==
    /\ InLoop /\ Ends(fd)
    /\ UNCHANGED <<server, since, subscriber, work, walk, reported, latest,
                   refused, connections, starts>>

\* The loops over the table return at the first entry that matches.
First(entries) == {i \in entries : \A j \in entries : i <= j}

Free == {i \in 1..Slots : ~IsUsed(subscriber[i])}
Of(fd) == {i \in 1..Slots : subscriber[i].hd = server /\ subscriber[i].fd = fd}
Listed(fd) == Of(fd) # {}

\* add_subscriber: the first free entry; no entry is no error.
Added(fd) ==
    [i \in 1..Slots |->
        IF i \in First(Free) THEN [subscriber[i] EXCEPT !.hd = server, !.fd = fd]
                             ELSE subscriber[i]]

Cleared(entries) ==
    [i \in 1..Slots |->
        IF i \in First(entries) THEN [subscriber[i] EXCEPT !.hd = None, !.fd = 0]
                                ELSE subscriber[i]]

\* mutant: the descriptor is not compared
RemovedAnyOfServer(fd) == Cleared({i \in 1..Slots : subscriber[i].hd = server})

\* remove_subscriber
Removed(fd) == Cleared(Of(fd))

\* The command "subscribe" is answered by "subscribed", whatever add_subscriber did.
Subscribe(fd) ==
    /\ InLoop /\ conn[fd] # 0
    /\ subscriber' = Added(fd)
    /\ told' = told \union {conn[fd]}
    /\ since' = [since EXCEPT ![conn[fd]] = reported]
    /\ unlisted' = unlisted \union
           {c \in {conn[fd]} : ~Listed(fd) /\ Free = {}}
    /\ UNCHANGED <<server, conn, work, walk, reported, latest, refused,
                   connections, starts>>

\* A CLOSE frame; the server ends the connection when it has been answered.
CloseFrame(fd) ==
    /\ InLoop /\ Ends(fd)
    /\ subscriber' = Removed(fd)
    /\ UNCHANGED <<server, since, work, walk, reported, latest, refused,
                   connections, starts>>

\* upload_handler, for a connection that is not known as a web socket.  It tries again
\* as long as nothing comes: the client alone decides how long the task is kept.
Upload(fd) ==
    /\ receiving = 0 /\ conn[fd] \notin told \union {0}
    /\ receiving' = fd
    /\ UNCHANGED <<server, conn, told, since, unlisted, subscriber, work, walk,
                   reported, latest, refused, connections, starts>>

\* It returns, and the server ends a connection whose upload has failed.
UploadEnds(fd) ==
    /\ receiving = fd /\ receiving' = 0
    /\ UNCHANGED <<conn, told, unlisted>> \/ Ends(fd)
    /\ UNCHANGED <<server, since, subscriber, work, walk, reported, latest,
                   refused, connections, starts>>

PayloadShared(arg) == reported   \* mutant: queued is the entry, not a copy

Payload(arg) == arg.event

\* ws_async_send: the frame reaches whoever uses the descriptor now.  What a
\* handle of a server that is gone leads to is left out.
AsyncSend ==
    /\ InLoop /\ work # <<>> /\ work' = Tail(work)
    /\ LET arg == Head(work)
           reaches == arg.hd = server /\ conn[arg.fd] # 0
       IN  latest' = IF reaches THEN [latest EXCEPT ![conn[arg.fd]] = Payload(arg)]
                                ELSE latest
    /\ UNCHANGED <<web, subscriber, walk, reported, refused, connections, starts>>
-----------------------------------------------------------------------------
(* The SIP task *)

\* handle()
Report ==
    /\ walk = 0 /\ walk' = 1
    /\ reported < MaxEvents /\ reported' = reported + 1
    /\ UNCHANGED <<web, subscriber, work, latest, refused, connections, starts>>

StopAtHole ==   \* mutant: the walk ends at the first entry that is free
    walk' = IF walk = Slots \/ ~IsUsed(subscriber[walk]) THEN 0 ELSE walk + 1

NextEntry == walk' = IF walk = Slots THEN 0 ELSE walk + 1

\* An entry that is free is skipped, ...
SkipEntry ==
    /\ walk # 0 /\ ~IsUsed(subscriber[walk])
    /\ NextEntry
    /\ UNCHANGED <<web, subscriber, work, reported, latest, refused, connections,
                   starts>>

\* ... for one that is used a copy is queued with the server.  Without room, or
\* without a server, the error is not looked at.
NotifyEntry ==
    /\ walk # 0 /\ IsUsed(subscriber[walk])
    /\ subscriber' = [subscriber EXCEPT ![walk].event = reported]
    /\ IF server # None /\ Len(work) < MaxWork
       THEN work' = Append(work, subscriber'[walk]) /\ UNCHANGED refused
       ELSE refused' = TRUE /\ UNCHANGED work
    /\ NextEntry
    /\ UNCHANGED <<web, reported, latest, connections, starts>>

EventLoop == Start \/ Stop
Httpd ==
    \E fd \in Fds :
        \/ Accept(fd) \/ Drop(fd) \/ Subscribe(fd) \/ CloseFrame(fd)
        \/ Upload(fd) \/ UploadEnds(fd)
Walk == SkipEntry \/ NotifyEntry

Next == EventLoop \/ Httpd \/ AsyncSend \/ Report \/ Walk

Spec == Init /\ [][Next]_vars

\* The SIP task finishes its walk.  The server looks for work in every round of its
\* loop, but an upload may keep it from its loop for ever.
FairSpec == Spec /\ WF_vars(Walk) /\ SF_vars(AsyncSend)
-----------------------------------------------------------------------------
(* Properties *)

\* A connection that was told it is subscribed stays in the table as long as it
\* lasts, unless there was no room: no other connection's end removes it.
ListedUnlessFull ==
    \A fd \in Fds : conn[fd] \in told \ unlisted => Listed(fd)

Later(m, n) == IF m < n THEN n ELSE m

\* Events reach a subscribed connection in the order in which they were reported
\* and none is skipped, as long as the server takes all work: an entry may be
\* used for the next event before the message of the last one is sent.
SentInTurn ==
    [][\A c \in told : latest'[c] # latest[c] =>
           /\ latest'[c] > latest[c]
           /\ refused \/ latest'[c] <= Later(latest[c], since[c]) + 1]_vars

\* Who is listed when an event is reported is sent that event, unless its connection
\* or the server's capacity ends first, even if one upload after the other comes in
\* between; only one that never ends keeps the event from everybody.
Delivered ==
    []<>(receiving = 0) =>
        \A fd \in Fds : \A c \in Connection : \A n \in 1..MaxEvents :
            conn[fd] = c /\ Listed(fd) /\ walk = 1 /\ reported = n
                ~> latest[c] >= n \/ conn[fd] # c \/ refused
=============================================================================
