--------------------------- MODULE WebServerProofs ---------------------------
(***************************************************************************)
(* The table of subscribers for any numbers of connections, descriptors,   *)
(* entries, events and restarts: every variable keeps its shape, who was   *)
(* told it is subscribed stays listed unless there was no room, and events *)
(* come in turn as long as the server takes all work.                      *)
(***************************************************************************)
EXTENDS WebServer, SequenceTheorems, WellFoundedInduction, TLAPS

LEMMA FirstExists ==
    ASSUME NEW S, S \subseteq 1..Slots, S # {}
    PROVE  First(S) # {}
<1>1. Slots \in Nat
    BY WebServerAssumption
<1>2. S \subseteq Nat
    BY <1>1
<1>3. PICK least \in S : \A j \in S : ~(<<j, least>> \in OpToRel(<, Nat))
    BY <1>2, NatLessThanWellFounded, WFMin, Zenon
<1>4. \A j \in S : ~(j < least)
    <2>1. TAKE j \in S
    <2>2. j \in Nat /\ least \in Nat
        BY <1>2
    <2>3. <<j, least>> \notin OpToRel(<, Nat)
        BY <1>3
    <2> QED
        BY <2>2, <2>3 DEF OpToRel
<1> QED
    BY <1>2, <1>4 DEF First

\* Connections have numbers of their own, those accepted so far, and without a
\* server there are none.
ConnInv ==
    /\ \A fd \in Fds : conn[fd] <= connections
    /\ \A c \in told : c <= connections
    /\ \A f, g \in Fds : conn[f] = conn[g] /\ conn[f] # 0 => f = g
    /\ server = None => \A fd \in Fds : conn[fd] = 0

ListedInv == TypeOK /\ ConnInv /\ ListedUnlessFull

\* What the proofs need of the constants and of the types.
LEMMA Bounds ==
    /\ 0 \notin Fds /\ None \notin Handles
    /\ Slots \in Nat /\ Slots # 0 /\ MaxWork \in Nat
    /\ MaxConnections \in Nat /\ MaxEvents \in Nat /\ MaxStarts \in Nat
BY WebServerAssumption

LEMMA ListedInvInit == Init => ListedInv
<1> SUFFICES ASSUME Init PROVE ListedInv
    OBVIOUS
<1>1. Unused \in Entry /\ (Unused.hd = None <=> Unused.fd = 0)
    BY Bounds DEF Unused, Entry
<1>2. subscriber \in [1..Slots -> Entry]
      /\ \A i \in 1..Slots : subscriber[i].hd = None <=> subscriber[i].fd = 0
    BY <1>1 DEF Init
<1>3. work \in Seq(Entry) /\ Len(work) <= MaxWork
    BY EmptySeq, Bounds DEF Init
<1>4. TypeOK
    <2>1. /\ server \in Handles \union {None} /\ refused \in BOOLEAN
          /\ receiving \in Fds \union {0}
          /\ unlisted \subseteq told /\ told \subseteq Connection
        BY DEF Init
    <2>2. /\ conn \in [Fds -> Connection \union {0}]
          /\ since \in [Connection -> 0..MaxEvents]
          /\ latest \in [Connection -> 0..MaxEvents]
        BY Bounds DEF Init
    <2>3. /\ walk \in 0..Slots /\ reported \in 0..MaxEvents
          /\ connections \in 0..MaxConnections /\ starts \in 0..MaxStarts
        BY Bounds DEF Init
    <2> QED
        BY <1>2, <1>3, <2>1, <2>2, <2>3 DEF TypeOK
<1>5. ConnInv
    BY DEF Init, ConnInv
<1>6. ListedUnlessFull
    BY DEF Init, ListedUnlessFull
<1> QED
    BY <1>4, <1>5, <1>6 DEF ListedInv

\* A step after which the connections that are told and were not listed before are
\* those that found no room.
LEMMA SameTable ==
    ASSUME ListedUnlessFull, UNCHANGED <<server, conn, told, unlisted>>,
           subscriber \in [1..Slots -> Entry], subscriber' \in [1..Slots -> Entry],
           \A i \in 1..Slots : subscriber'[i].hd = subscriber[i].hd
                            /\ subscriber'[i].fd = subscriber[i].fd
    PROVE  ListedUnlessFull'
BY DEF ListedUnlessFull, Listed, Of

LEMMA GonePreserves ==
    ASSUME TypeOK, Gone, starts' \in 0..MaxStarts,
           server' \in Handles \union {None}, receiving' \in Fds \union {0},
           UNCHANGED <<since, subscriber, walk, reported, latest, refused, connections>>
    PROVE  ListedInv'
<1>1. work' \in Seq(Entry) /\ Len(work') <= MaxWork
    BY EmptySeq, Bounds DEF Gone
<1>2. conn' \in [Fds -> Connection \union {0}] /\ told' = {} /\ unlisted' = {}
    BY DEF Gone
<1>3. TypeOK'
    BY <1>1, <1>2 DEF TypeOK
<1>4. ConnInv'
    BY <1>3, Bounds DEF Gone, ConnInv, TypeOK
<1>5. ListedUnlessFull'
    BY <1>2 DEF ListedUnlessFull
<1> QED
    BY <1>3, <1>4, <1>5 DEF ListedInv

LEMMA AcceptPreserves ==
    ASSUME ListedInv, NEW fd \in Fds, Accept(fd) PROVE ListedInv'
<1>1. /\ connections \in Nat /\ connections + 1 \in Connection
      /\ connections' = connections + 1
      /\ conn \in [Fds -> Connection \union {0}]
      /\ conn' = [conn EXCEPT ![fd] = connections + 1]
    BY Bounds DEF ListedInv, TypeOK, Accept, Connection
<1>2. conn' \in [Fds -> Connection \union {0}] /\ connections' \in 0..MaxConnections
    BY <1>1, Bounds DEF Connection
<1>3. TypeOK'
    BY <1>2 DEF ListedInv, TypeOK, Accept, InLoop
<1>4. \A g \in Fds : conn[g] \in Nat /\ conn[g] <= connections
    BY <1>1, Bounds DEF ListedInv, ConnInv, Connection
<1>5. ConnInv'
    <2>1. \A c \in told : c \in Nat /\ c <= connections
        BY Bounds DEF ListedInv, ConnInv, TypeOK, Connection
    <2> QED
        BY <1>1, <1>4, <2>1 DEF ListedInv, ConnInv, Accept
<1>6. connections + 1 \notin told
    BY <1>1, Bounds DEF ListedInv, ConnInv, TypeOK, Connection
<1>7. ListedUnlessFull'
    BY <1>1, <1>6 DEF ListedInv, ListedUnlessFull, Listed, Of, Accept
<1> QED
    BY <1>3, <1>5, <1>7 DEF ListedInv

\* When a connection ends the others stay what they were; those that are still in
\* the table are listed.
LEMMA EndsPreserves ==
    ASSUME ListedInv, NEW fd \in Fds, Ends(fd),
           UNCHANGED <<server, since, work, walk, reported, latest, refused,
                       connections, starts>>,
           receiving' \in Fds \union {0}, subscriber' \in [1..Slots -> Entry],
           \A i \in 1..Slots : subscriber'[i].hd = None <=> subscriber'[i].fd = 0,
           \A g \in Fds \ {fd} : Listed(g) => Listed(g)'
    PROVE  ListedInv'
<1>1. /\ conn \in [Fds -> Connection \union {0}] /\ conn[fd] # 0
      /\ conn' = [conn EXCEPT ![fd] = 0]
      /\ told' = told \ {conn[fd]} /\ unlisted' = unlisted \ {conn[fd]}
    BY DEF ListedInv, TypeOK, Ends
<1>2. conn' \in [Fds -> Connection \union {0}]
    BY <1>1
<1>3. TypeOK'
    BY <1>1, <1>2 DEF ListedInv, TypeOK
<1>4. ConnInv'
    BY <1>1, Bounds DEF ListedInv, ConnInv, TypeOK
<1>5. ListedUnlessFull'
    <2>1. 0 \notin told
        BY Bounds DEF ListedInv, TypeOK, Connection
    <2>2. SUFFICES ASSUME NEW g \in Fds, conn'[g] \in told' \ unlisted'
                   PROVE  Listed(g)'
        BY DEF ListedUnlessFull
    <2>3. g # fd /\ conn[g] \in told \ unlisted
        BY <1>1, <2>1, <2>2
    <2> QED
        BY <2>3 DEF ListedInv, ListedUnlessFull
<1> QED
    BY <1>3, <1>4, <1>5 DEF ListedInv

LEMMA DropPreserves ==
    ASSUME ListedInv, NEW fd \in Fds, Drop(fd) PROVE ListedInv'
<1>1. \A g \in Fds \ {fd} : Listed(g) => Listed(g)'
    BY DEF Drop, Listed, Of
<1>2. subscriber' \in [1..Slots -> Entry]
      /\ \A i \in 1..Slots : subscriber'[i].hd = None <=> subscriber'[i].fd = 0
    BY DEF Drop, ListedInv, TypeOK
<1> QED
    BY <1>1, <1>2, EndsPreserves DEF Drop, InLoop, ListedInv, TypeOK

\* An upload that ends has its connection, or takes it along.
LEMMA UploadPreserves ==
    ASSUME ListedInv, NEW fd \in Fds, Upload(fd) \/ UploadEnds(fd) PROVE ListedInv'
<1>1. receiving' \in Fds \union {0}
    BY DEF Upload, UploadEnds
<1>2. UNCHANGED <<server, since, subscriber, work, walk, reported, latest, refused,
                  connections, starts>>
    BY DEF Upload, UploadEnds
<1>3. CASE UNCHANGED <<conn, told, unlisted>>
    <2>1. TypeOK'
        BY <1>1, <1>2, <1>3 DEF ListedInv, TypeOK
    <2>2. ConnInv' /\ ListedUnlessFull'
        BY <1>2, <1>3 DEF ListedInv, ConnInv, ListedUnlessFull, Listed, Of
    <2> QED
        BY <2>1, <2>2 DEF ListedInv
<1>4. CASE Ends(fd)
    <2>1. \A g \in Fds \ {fd} : Listed(g) => Listed(g)'
        BY <1>2 DEF Listed, Of
    <2>2. subscriber' \in [1..Slots -> Entry]
          /\ \A i \in 1..Slots : subscriber'[i].hd = None <=> subscriber'[i].fd = 0
        BY <1>2 DEF ListedInv, TypeOK
    <2> QED
        BY <1>1, <1>2, <1>4, <2>1, <2>2, EndsPreserves
<1> QED
    BY <1>3, <1>4 DEF Upload, UploadEnds

LEMMA CloseFramePreserves ==
    ASSUME ListedInv, NEW fd \in Fds, CloseFrame(fd) PROVE ListedInv'
<1>1. subscriber \in [1..Slots -> Entry]
      /\ \A i \in 1..Slots : subscriber[i].hd = None <=> subscriber[i].fd = 0
    BY DEF ListedInv, TypeOK
<1>2. subscriber' = [i \in 1..Slots |->
          IF i \in First(Of(fd)) THEN [subscriber[i] EXCEPT !.hd = None, !.fd = 0]
                                 ELSE subscriber[i]]
    BY DEF CloseFrame, Removed, Cleared
<1>3. ASSUME NEW i \in 1..Slots
      PROVE  /\ subscriber'[i] \in Entry
             /\ subscriber'[i].hd = None <=> subscriber'[i].fd = 0
    <2>1. subscriber[i] \in Entry
        BY <1>1
    <2>2. CASE i \in First(Of(fd))
        BY <2>1, <2>2, <1>2 DEF Entry
    <2>3. CASE i \notin First(Of(fd))
        BY <2>1, <2>3, <1>1, <1>2
    <2> QED
        BY <2>2, <2>3
<1>4. subscriber' \in [1..Slots -> Entry]
    BY <1>2, <1>3
<1>5. ASSUME NEW g \in Fds \ {fd}, Listed(g) PROVE Listed(g)'
    <2>1. PICK i \in 1..Slots : subscriber[i].hd = server /\ subscriber[i].fd = g
        BY <1>5 DEF Listed, Of
    <2>2. i \notin First(Of(fd))
        BY <2>1 DEF First, Of
    <2>3. subscriber'[i] = subscriber[i] /\ server' = server
        BY <2>2, <1>2 DEF CloseFrame
    <2> QED
        BY <2>1, <2>3 DEF Listed, Of
<1> QED
    BY <1>3, <1>4, <1>5, EndsPreserves DEF CloseFrame, InLoop, ListedInv, TypeOK

LEMMA SubscribePreserves ==
    ASSUME ListedInv, NEW fd \in Fds, Subscribe(fd) PROVE ListedInv'
<1>1. subscriber \in [1..Slots -> Entry]
      /\ \A i \in 1..Slots : subscriber[i].hd = None <=> subscriber[i].fd = 0
    BY DEF ListedInv, TypeOK
<1>2. server \in Handles /\ server # None /\ fd # 0
    BY Bounds DEF ListedInv, TypeOK, ConnInv, Subscribe
<1>3. subscriber' = [i \in 1..Slots |->
          IF i \in First(Free) THEN [subscriber[i] EXCEPT !.hd = server, !.fd = fd]
                               ELSE subscriber[i]]
    BY DEF Subscribe, Added
<1>4. ASSUME NEW i \in 1..Slots
      PROVE  /\ subscriber'[i] \in Entry
             /\ subscriber'[i].hd = None <=> subscriber'[i].fd = 0
             /\ i \in First(Free) => subscriber'[i].hd = server /\ subscriber'[i].fd = fd
    <2>1. subscriber[i] \in Entry
        BY <1>1
    <2>2. CASE i \in First(Free)
        BY <2>1, <2>2, <1>2, <1>3 DEF Entry
    <2>3. CASE i \notin First(Free)
        BY <2>1, <2>3, <1>1, <1>3
    <2> QED
        BY <2>2, <2>3
<1>5. subscriber' \in [1..Slots -> Entry]
    BY <1>3, <1>4
<1>6. /\ conn[fd] \in Connection /\ conn' = conn /\ server' = server
      /\ told' = told \union {conn[fd]}
      /\ since' = [since EXCEPT ![conn[fd]] = reported]
      /\ unlisted' = unlisted \union {c \in {conn[fd]} : ~Listed(fd) /\ Free = {}}
    BY DEF Subscribe, ListedInv, TypeOK
<1>7. TypeOK'
    BY <1>4, <1>5, <1>6 DEF ListedInv, TypeOK, Subscribe, InLoop
<1>8. ConnInv'
    BY <1>6 DEF ListedInv, ConnInv, Subscribe
<1>9. ASSUME NEW g \in Fds, Listed(g) PROVE Listed(g)'
    <2>1. PICK i \in 1..Slots : subscriber[i].hd = server /\ subscriber[i].fd = g
        BY <1>9 DEF Listed, Of
    <2>2. i \notin First(Free)
        BY <2>1, <1>2, Bounds DEF First, Free, IsUsed
    <2>3. subscriber'[i] = subscriber[i]
        BY <2>2, <1>3
    <2> QED
        BY <2>1, <2>3, <1>6 DEF Listed, Of
<1>10. ASSUME Free # {} PROVE Listed(fd)'
    <2>1. First(Free) # {}
        BY <1>10, FirstExists DEF Free
    <2>2. PICK i \in 1..Slots : i \in First(Free)
        BY <2>1 DEF First, Free
    <2> QED
        BY <2>2, <1>4, <1>6 DEF Listed, Of
<1>11. ListedUnlessFull'
    <2>1. SUFFICES ASSUME NEW g \in Fds, conn[g] \in told' \ unlisted'
                   PROVE  Listed(g)'
        BY <1>6 DEF ListedUnlessFull
    <2>2. CASE g = fd
        BY <2>1, <2>2, <1>6, <1>9, <1>10
    <2>3. CASE g # fd
        <3>1. conn[g] # conn[fd]
            BY <2>3, Zenon DEF ListedInv, ConnInv, Subscribe
        <3>2. conn[g] \in told \ unlisted
            BY <2>1, <3>1, <1>6
        <3> QED
            BY <3>2, <1>9 DEF ListedInv, ListedUnlessFull
    <2> QED
        BY <2>2, <2>3
<1> QED
    BY <1>7, <1>8, <1>11 DEF ListedInv

\* The tasks that send and report leave connections and what they were told alone.
LEMMA OthersPreserve ==
    ASSUME ListedInv, UNCHANGED <<web, connections, starts>>,
           subscriber' \in [1..Slots -> Entry],
           \A i \in 1..Slots : subscriber'[i].hd = subscriber[i].hd
                            /\ subscriber'[i].fd = subscriber[i].fd,
           work' \in Seq(Entry), Len(work') <= MaxWork,
           walk' \in 0..Slots, reported' \in 0..MaxEvents,
           latest' \in [Connection -> 0..MaxEvents], refused' \in BOOLEAN
    PROVE  ListedInv'
<1>1. TypeOK'
    BY DEF ListedInv, TypeOK, web
<1>2. ConnInv'
    BY DEF ListedInv, ConnInv, web
<1>3. ListedUnlessFull'
    BY SameTable DEF ListedInv, TypeOK, web
<1> QED
    BY <1>1, <1>2, <1>3 DEF ListedInv

LEMMA AsyncSendPreserves == ListedInv /\ AsyncSend => ListedInv'
<1> SUFFICES ASSUME ListedInv, AsyncSend PROVE ListedInv'
    OBVIOUS
<1>1. /\ work \in Seq(Entry) /\ Len(work) <= MaxWork /\ work # <<>>
      /\ work' = Tail(work) /\ conn \in [Fds -> Connection \union {0}]
      /\ latest \in [Connection -> 0..MaxEvents]
    BY DEF ListedInv, TypeOK, AsyncSend
<1>2. Head(work) \in Entry /\ work' \in Seq(Entry) /\ Len(work') = Len(work) - 1
    BY <1>1, HeadTailProperties
<1>3. Len(work') <= MaxWork
    <2>1. Len(work) \in Nat
        BY <1>1, LenProperties
    <2> QED
        BY <2>1, <1>1, <1>2, Bounds
<1>4. Head(work).event \in 0..MaxEvents
    BY <1>2 DEF Entry
<1>5. latest' \in [Connection -> 0..MaxEvents]
    BY <1>1, <1>4 DEF AsyncSend, Payload
<1>6. UNCHANGED <<web, subscriber, walk, reported, refused, connections, starts>>
    BY DEF AsyncSend
<1> QED
    BY <1>2, <1>3, <1>5, <1>6, OthersPreserve DEF ListedInv, TypeOK

LEMMA NextEntryType ==
    ASSUME walk \in 0..Slots, NextEntry PROVE walk' \in 0..Slots
BY Bounds DEF NextEntry

LEMMA NotifyEntryPreserves == ListedInv /\ NotifyEntry => ListedInv'
<1> SUFFICES ASSUME ListedInv, NotifyEntry PROVE ListedInv'
    OBVIOUS
<1>1. /\ subscriber \in [1..Slots -> Entry] /\ walk \in 0..Slots /\ walk # 0
      /\ reported \in 0..MaxEvents /\ work \in Seq(Entry) /\ Len(work) <= MaxWork
      /\ refused \in BOOLEAN /\ latest \in [Connection -> 0..MaxEvents]
    BY DEF ListedInv, TypeOK, NotifyEntry
<1>2. walk \in 1..Slots
    BY <1>1, Bounds
<1>3. subscriber' = [subscriber EXCEPT ![walk].event = reported]
    BY DEF NotifyEntry
<1>4. ASSUME NEW i \in 1..Slots
      PROVE  /\ subscriber'[i] \in Entry
             /\ subscriber'[i].hd = subscriber[i].hd
             /\ subscriber'[i].fd = subscriber[i].fd
    <2>1. subscriber[i] \in Entry
        BY <1>1
    <2>2. CASE i = walk
        BY <2>1, <2>2, <1>1, <1>2, <1>3 DEF Entry
    <2>3. CASE i # walk
        BY <2>1, <2>3, <1>1, <1>3
    <2> QED
        BY <2>2, <2>3
<1>5. subscriber' \in [1..Slots -> Entry]
    BY <1>1, <1>3, <1>4
<1>6. walk' \in 0..Slots
    BY <1>1, NextEntryType DEF NotifyEntry
<1>7. work' \in Seq(Entry) /\ Len(work') <= MaxWork /\ refused' \in BOOLEAN
    <2>1. CASE server # None /\ Len(work) < MaxWork
        <3>1. work' = Append(work, subscriber'[walk]) /\ refused' = refused
            BY <2>1 DEF NotifyEntry
        <3>2. work' \in Seq(Entry) /\ Len(work') = Len(work) + 1
            BY <3>1, <1>1, <1>2, <1>4, AppendProperties
        <3>3. Len(work) \in Nat
            BY <1>1, LenProperties
        <3> QED
            BY <2>1, <3>1, <3>2, <3>3, <1>1, Bounds
    <2>2. CASE ~(server # None /\ Len(work) < MaxWork)
        BY <2>2, <1>1 DEF NotifyEntry
    <2> QED
        BY <2>1, <2>2
<1>8. UNCHANGED <<web, reported, latest, connections, starts>>
    BY DEF NotifyEntry
<1> QED
    BY <1>1, <1>4, <1>5, <1>6, <1>7, <1>8, OthersPreserve

LEMMA ListedInvStep == ListedInv /\ [Next]_vars => ListedInv'
<1> SUFFICES ASSUME ListedInv, [Next]_vars PROVE ListedInv'
    OBVIOUS
<1>1. CASE Start \/ Stop
    <2>1. starts' \in 0..MaxStarts /\ server' \in Handles \union {None}
        BY <1>1, Bounds DEF Start, Stop, ListedInv, TypeOK
    <2>2. receiving' \in Fds \union {0}
        BY <1>1 DEF Start, Stop, InLoop, ListedInv, TypeOK
    <2> QED
        BY <1>1, <2>1, <2>2, GonePreserves DEF Start, Stop, ListedInv
<1>2. CASE Httpd
    <2>1. PICK fd \in Fds : \/ Accept(fd) \/ Drop(fd) \/ Subscribe(fd) \/ CloseFrame(fd)
                            \/ Upload(fd) \/ UploadEnds(fd)
        BY <1>2 DEF Httpd
    <2> QED
        BY <2>1, AcceptPreserves, DropPreserves, SubscribePreserves, CloseFramePreserves,
           UploadPreserves
<1>3. CASE AsyncSend
    BY <1>3, AsyncSendPreserves
<1>4. CASE Report
    <2>1. walk' \in 0..Slots /\ reported' \in 0..MaxEvents
        BY <1>4, Bounds DEF Report, ListedInv, TypeOK
    <2> QED
        BY <1>4, <2>1, OthersPreserve DEF Report, ListedInv, TypeOK
<1>5. CASE SkipEntry
    <2>1. walk' \in 0..Slots
        BY <1>5, NextEntryType DEF SkipEntry, ListedInv, TypeOK
    <2> QED
        BY <1>5, <2>1, OthersPreserve DEF SkipEntry, ListedInv, TypeOK
<1>6. CASE NotifyEntry
    BY <1>6, NotifyEntryPreserves
<1>7. CASE UNCHANGED vars
    BY <1>7, OthersPreserve DEF vars, ListedInv, TypeOK
<1> QED
    BY <1>1, <1>2, <1>3, <1>4, <1>5, <1>6, <1>7 DEF Next, EventLoop, Walk

LEMMA ListedInvHolds == FairSpec => []ListedInv
BY ListedInvInit, ListedInvStep, PTL DEF FairSpec, Spec

\* Every variable keeps its shape, and no task ever finds an entry half filled.
THEOREM WebServerTypes == FairSpec => []TypeOK
<1>1. ListedInv => TypeOK
    BY DEF ListedInv
<1> QED
    BY <1>1, ListedInvHolds, PTL

\* Who was told "subscribed" is in the table while its connection lasts, unless the
\* table was full when it asked: no end of another connection and no event removes
\* its entry, and another one's subscription does not take it.
THEOREM SubscribersStayListed == FairSpec => []ListedUnlessFull
<1>1. ListedInv => ListedUnlessFull
    BY DEF ListedInv
<1> QED
    BY <1>1, ListedInvHolds, PTL
-----------------------------------------------------------------------------
(* The order of the events *)

\* A message in the server's queue that goes to the descriptor.
Goes(k, fd) == work[k].hd = server /\ work[k].fd = fd

\* What is queued is in the order of the events, and nothing later was sent.
Order ==
    /\ \A c \in Connection : latest[c] <= reported
    /\ \A k \in 1..Len(work) :
           /\ work[k].fd \in Fds /\ work[k].event <= reported
           /\ \A c \in Connection : latest[c] <= work[k].event
           /\ \A j \in 1..k : work[j].event <= work[k].event

\* The event, or a later one, was reported before the connection was told, has been
\* sent to it, or is on the way.
Reached(fd, n) ==
    \/ n <= since[conn[fd]] \/ n <= latest[conn[fd]]
    \/ \E k \in 1..Len(work) : Goes(k, fd) /\ n <= work[k].event

\* All but the last event have reached who is listed, and the last one when the walk
\* has passed an entry of it.
Frontier ==
    \A fd \in Fds :
        ~refused /\ conn[fd] \in told /\ Listed(fd) =>
            /\ Reached(fd, reported - 1)
            /\ walk = 0 \/ (\E i \in Of(fd) : i < walk) => Reached(fd, reported)

\* Each message follows on what was sent, or on one before it in the queue.
Chained ==
    \A fd \in Fds : \A k \in 1..Len(work) :
        ~refused /\ conn[fd] \in told /\ Goes(k, fd) =>
            \/ work[k].event <= since[conn[fd]] + 1
            \/ work[k].event <= latest[conn[fd]] + 1
            \/ \E j \in 1..k - 1 : Goes(j, fd) /\ work[k].event <= work[j].event + 1

TurnInv == Order /\ Frontier /\ Chained

\* The numbers that are compared.
LEMMA Numbers ==
    ASSUME TypeOK
    PROVE  /\ Len(work) \in Nat /\ reported \in Nat /\ walk \in Nat
           /\ \A c \in Connection : latest[c] \in Nat /\ since[c] \in Nat
           /\ \A k \in 1..Len(work) : work[k] \in Entry /\ work[k].event \in Nat
<1>1. work \in Seq(Entry)
    BY DEF TypeOK
<1>2. Len(work) \in Nat
    BY <1>1, LenProperties
<1>3. reported \in Nat /\ walk \in Nat
    BY Bounds DEF TypeOK
<1>4. \A c \in Connection : latest[c] \in Nat /\ since[c] \in Nat
    BY Bounds DEF TypeOK
<1>5. ASSUME NEW k \in 1..Len(work) PROVE work[k] \in Entry /\ work[k].event \in Nat
    <2>1. work[k] \in Entry
        BY <1>1, ElementOfSeq
    <2> QED
        BY <2>1, Bounds DEF Entry
<1> QED
    BY <1>2, <1>3, <1>4, <1>5

LEMMA TurnInvInit == Init => TurnInv
<1> SUFFICES ASSUME Init PROVE TurnInv
    OBVIOUS
<1>1. work = <<>> /\ reported = 0 /\ told = {} /\ \A c \in Connection : latest[c] = 0
    BY DEF Init
<1>2. Len(work) = 0
    BY <1>1
<1> QED
    BY <1>1, <1>2 DEF TurnInv, Order, Frontier, Chained

LEMMA TurnInvGone ==
    ASSUME TypeOK, TurnInv, Gone, UNCHANGED <<latest, reported>> PROVE TurnInv'
<1>1. work' = <<>> /\ told' = {}
    BY DEF Gone
<1>2. Len(work') = 0
    BY <1>1
<1> QED
    BY <1>1, <1>2 DEF TurnInv, Order, Frontier, Chained

\* Connections that begin and end change nothing for the others.
LEMMA TurnInvConnections ==
    ASSUME TurnInv, UNCHANGED <<server, since, work, walk, reported, latest, refused>>,
           \A g \in Fds : conn'[g] \in told' =>
               conn'[g] = conn[g] /\ conn[g] \in told /\ Of(g)' = Of(g)
    PROVE  TurnInv'
<1>1. Order'
    BY DEF TurnInv, Order
<1>2. Frontier'
    <2> SUFFICES ASSUME NEW fd \in Fds, ~refused', conn'[fd] \in told', Listed(fd)'
                 PROVE  /\ Reached(fd, reported - 1)'
                        /\ walk' = 0 \/ (\E i \in Of(fd)' : i < walk')
                               => Reached(fd, reported)'
        BY DEF Frontier
    <2>1. \A n : Reached(fd, n)' <=> Reached(fd, n)
        BY DEF Reached, Goes
    <2> QED
        BY <2>1 DEF TurnInv, Frontier, Listed
<1>3. Chained'
    BY DEF TurnInv, Chained, Goes
<1> QED
    BY <1>1, <1>2, <1>3 DEF TurnInv

LEMMA TurnInvAccept ==
    ASSUME ListedInv, TurnInv, NEW fd \in Fds, Accept(fd) PROVE TurnInv'
<1>1. /\ conn \in [Fds -> Connection \union {0}]
      /\ conn' = [conn EXCEPT ![fd] = connections + 1]
      /\ UNCHANGED <<server, told, since, subscriber, work, walk, reported, latest, refused>>
    BY DEF Accept, ListedInv, TypeOK
<1>2. connections + 1 \notin told
    BY Bounds DEF ListedInv, ConnInv, TypeOK, Connection
<1>3. ASSUME NEW g \in Fds, conn'[g] \in told'
      PROVE  conn'[g] = conn[g] /\ conn[g] \in told /\ Of(g)' = Of(g)
    BY <1>1, <1>2, <1>3 DEF Of
<1> QED
    BY <1>1, <1>3, TurnInvConnections

LEMMA TurnInvEnds ==
    ASSUME ListedInv, TurnInv, NEW fd \in Fds, Ends(fd),
           UNCHANGED <<server, since, work, walk, reported, latest, refused>>,
           \A g \in Fds \ {fd} : Of(g)' = Of(g)
    PROVE  TurnInv'
<1>1. /\ conn \in [Fds -> Connection \union {0}]
      /\ conn' = [conn EXCEPT ![fd] = 0] /\ told' = told \ {conn[fd]}
    BY DEF Ends, ListedInv, TypeOK
<1>2. 0 \notin told
    BY Bounds DEF ListedInv, TypeOK, Connection
<1>3. ASSUME NEW g \in Fds, conn'[g] \in told'
      PROVE  conn'[g] = conn[g] /\ conn[g] \in told /\ Of(g)' = Of(g)
    BY <1>1, <1>2, <1>3
<1> QED
    BY <1>3, TurnInvConnections

LEMMA TurnInvDrop ==
    ASSUME ListedInv, TurnInv, NEW fd \in Fds, Drop(fd) PROVE TurnInv'
BY TurnInvEnds DEF Drop, Of

LEMMA TurnInvUpload ==
    ASSUME ListedInv, TurnInv, NEW fd \in Fds, Upload(fd) \/ UploadEnds(fd) PROVE TurnInv'
<1>1. /\ UNCHANGED <<server, since, work, walk, reported, latest, refused>>
      /\ \A g \in Fds : Of(g)' = Of(g)
    BY DEF Upload, UploadEnds, Of
<1>2. CASE UNCHANGED <<conn, told>>
    BY <1>1, <1>2, TurnInvConnections
<1>3. CASE Ends(fd)
    BY <1>1, <1>3, TurnInvEnds
<1> QED
    BY <1>2, <1>3 DEF Upload, UploadEnds

LEMMA TurnInvCloseFrame ==
    ASSUME ListedInv, TurnInv, NEW fd \in Fds, CloseFrame(fd) PROVE TurnInv'
<1>1. /\ subscriber \in [1..Slots -> Entry] /\ server' = server
      /\ subscriber' = [i \in 1..Slots |->
             IF i \in First(Of(fd)) THEN [subscriber[i] EXCEPT !.hd = None, !.fd = 0]
                                    ELSE subscriber[i]]
    BY DEF CloseFrame, Removed, Cleared, ListedInv, TypeOK
<1>2. ASSUME NEW g \in Fds \ {fd} PROVE Of(g)' = Of(g)
    <2>1. ASSUME NEW i \in 1..Slots PROVE i \in Of(g)' <=> i \in Of(g)
        <3>1. CASE i \in First(Of(fd))
            <4>1. subscriber[i].fd = fd
                BY <3>1 DEF First, Of
            <4>2. subscriber'[i].fd = 0
                <5>1. subscriber[i] \in Entry
                    BY <1>1
                <5> QED
                    BY <5>1, <1>1, <3>1 DEF Entry
            <4> QED
                BY <4>1, <4>2, Bounds DEF Of
        <3>2. CASE i \notin First(Of(fd))
            BY <3>2, <1>1 DEF Of
        <3> QED
            BY <3>1, <3>2
    <2> QED
        BY <2>1 DEF Of
<1> QED
    BY <1>2, TurnInvEnds DEF CloseFrame

\* Who is told starts from the last event reported, and what is still on the way for
\* its descriptor is no later.
LEMMA TurnInvSubscribe ==
    ASSUME ListedInv, TurnInv, NEW fd \in Fds, Subscribe(fd) PROVE TurnInv'
<1>1. /\ conn[fd] \in Connection /\ conn[fd] # 0 /\ server \in Handles /\ server # None
      /\ since \in [Connection -> 0..MaxEvents]
      /\ since' = [since EXCEPT ![conn[fd]] = reported]
      /\ told' = told \union {conn[fd]}
      /\ UNCHANGED <<server, conn, work, walk, reported, latest, refused>>
    BY Bounds DEF Subscribe, ListedInv, TypeOK, ConnInv
<1>2. reported \in Nat /\ walk \in Nat /\ since'[conn[fd]] = reported
    BY <1>1, Numbers DEF ListedInv
<1>3. ASSUME NEW g \in Fds \ {fd}, conn[g] \in told'
      PROVE  conn[g] \in told /\ since'[conn[g]] = since[conn[g]] /\ Of(g)' = Of(g)
    <2>1. conn[g] # conn[fd]
        BY <1>1, Zenon DEF ListedInv, ConnInv
    <2>2. conn[g] \in told /\ since'[conn[g]] = since[conn[g]]
        BY <1>1, <1>3, <2>1 DEF ListedInv, TypeOK
    <2>3. subscriber \in [1..Slots -> Entry] /\
          subscriber' = [i \in 1..Slots |->
              IF i \in First(Free) THEN [subscriber[i] EXCEPT !.hd = server, !.fd = fd]
                                   ELSE subscriber[i]]
        BY DEF Subscribe, Added, ListedInv, TypeOK
    <2>4. ASSUME NEW i \in 1..Slots PROVE i \in Of(g)' <=> i \in Of(g)
        <3>1. CASE i \in First(Free)
            <4>1. ~IsUsed(subscriber[i])
                BY <3>1 DEF First, Free
            <4>2. i \notin Of(g)
                BY <4>1, <1>1, Bounds DEF Of, IsUsed
            <4>3. subscriber'[i].fd = fd
                <5>1. subscriber[i] \in Entry
                    BY <2>3
                <5> QED
                    BY <5>1, <2>3, <3>1 DEF Entry
            <4> QED
                BY <4>2, <4>3 DEF Of
        <3>2. CASE i \notin First(Free)
            BY <3>2, <2>3, <1>1 DEF Of
        <3> QED
            BY <3>1, <3>2
    <2>5. Of(g)' = Of(g)
        BY <2>4 DEF Of
    <2> QED
        BY <2>2, <2>5
<1>4. Order'
    BY <1>1 DEF TurnInv, Order
<1>5. Frontier'
    <2> SUFFICES ASSUME NEW g \in Fds, ~refused', conn'[g] \in told', Listed(g)'
                 PROVE  /\ Reached(g, reported - 1)'
                        /\ walk' = 0 \/ (\E i \in Of(g)' : i < walk')
                               => Reached(g, reported)'
        BY DEF Frontier
    <2>1. CASE g = fd
        BY <2>1, <1>1, <1>2 DEF Reached
    <2>2. CASE g # fd
        <3>1. \A n : Reached(g, n)' <=> Reached(g, n)
            BY <2>2, <1>1, <1>3 DEF Reached, Goes
        <3> QED
            BY <3>1, <2>2, <1>1, <1>3 DEF TurnInv, Frontier, Listed
    <2> QED
        BY <2>1, <2>2
<1>6. Chained'
    <2> SUFFICES ASSUME NEW g \in Fds, NEW k \in 1..Len(work'),
                        ~refused', conn'[g] \in told', Goes(k, g)'
                 PROVE  \/ work'[k].event <= since'[conn'[g]] + 1
                        \/ work'[k].event <= latest'[conn'[g]] + 1
                        \/ \E j \in 1..k - 1 :
                               Goes(j, g)' /\ work'[k].event <= work'[j].event + 1
        BY DEF Chained
    <2>1. CASE g = fd
        <3>1. work[k].event \in Nat /\ work[k].event <= reported
            BY <1>1, Numbers DEF TurnInv, Order, ListedInv
        <3> QED
            BY <2>1, <3>1, <1>1, <1>2
    <2>2. CASE g # fd
        BY <2>2, <1>1, <1>3 DEF TurnInv, Chained, Goes
    <2> QED
        BY <2>1, <2>2
<1> QED
    BY <1>4, <1>5, <1>6 DEF TurnInv

\* A report starts a walk; what has reached everybody so far is the event before.
LEMMA TurnInvReport ==
    ASSUME ListedInv, TurnInv, Report PROVE TurnInv'
<1>1. /\ walk = 0 /\ walk' = 1 /\ reported' = reported + 1
      /\ UNCHANGED <<server, conn, told, since, subscriber, work, latest, refused>>
    BY DEF Report, web
<1>2. /\ reported \in Nat
      /\ \A c \in Connection : latest[c] \in Nat
      /\ \A k \in 1..Len(work) : work[k].event \in Nat
    BY Numbers DEF ListedInv
<1>3. Order'
    BY <1>1, <1>2 DEF TurnInv, Order
<1>4. Frontier'
    <2> SUFFICES ASSUME NEW fd \in Fds, ~refused', conn'[fd] \in told', Listed(fd)'
                 PROVE  /\ Reached(fd, reported - 1)'
                        /\ walk' = 0 \/ (\E i \in Of(fd)' : i < walk')
                               => Reached(fd, reported)'
        BY DEF Frontier
    <2>1. Of(fd)' = Of(fd) /\ Listed(fd)
        BY <1>1 DEF Listed, Of
    <2>2. Reached(fd, reported)
        BY <1>1, <2>1 DEF TurnInv, Frontier
    <2>3. Reached(fd, reported - 1)'
        <3>1. reported' - 1 = reported
            BY <1>1, <1>2
        <3> QED
            BY <2>2, <3>1, <1>1 DEF Reached, Goes
    <2>4. ~(walk' = 0 \/ \E i \in Of(fd)' : i < walk')
        BY <1>1, Bounds DEF Of
    <2> QED
        BY <2>3, <2>4
<1>5. Chained'
    BY <1>1 DEF TurnInv, Chained, Goes
<1> QED
    BY <1>3, <1>4, <1>5 DEF TurnInv

\* An entry that is free is nobody's.
LEMMA TurnInvSkipEntry ==
    ASSUME ListedInv, TurnInv, SkipEntry PROVE TurnInv'
<1>1. /\ walk \in 1..Slots /\ ~IsUsed(subscriber[walk])
      /\ walk' = IF walk = Slots THEN 0 ELSE walk + 1
      /\ UNCHANGED <<server, conn, told, since, subscriber, work, reported, latest, refused>>
    BY Bounds DEF SkipEntry, NextEntry, web, ListedInv, TypeOK
<1>2. Order' /\ Chained'
    BY <1>1 DEF TurnInv, Order, Chained, Goes
<1>3. Frontier'
    <2> SUFFICES ASSUME NEW fd \in Fds, ~refused', conn'[fd] \in told', Listed(fd)'
                 PROVE  /\ Reached(fd, reported - 1)'
                        /\ walk' = 0 \/ (\E i \in Of(fd)' : i < walk')
                               => Reached(fd, reported)'
        BY DEF Frontier
    <2>1. Of(fd)' = Of(fd) /\ Listed(fd)
        BY <1>1 DEF Listed, Of
    <2>2. \A n : Reached(fd, n)' <=> Reached(fd, n)
        BY <1>1 DEF Reached, Goes
    <2>3. server # None /\ fd # 0
        <3>1. 0 \notin told
            BY Bounds DEF ListedInv, TypeOK, Connection
        <3> QED
            BY <1>1, <3>1, Bounds DEF ListedInv, ConnInv
    <2>4. walk \notin Of(fd)
        BY <1>1, <2>3 DEF Of, IsUsed
    <2>5. walk' = 0 \/ (\E i \in Of(fd)' : i < walk') => \E i \in Of(fd) : i < walk
        BY <1>1, <2>1, <2>4, Bounds DEF Of, Listed
    <2> QED
        BY <1>1, <2>1, <2>2, <2>5 DEF TurnInv, Frontier
<1> QED
    BY <1>2, <1>3 DEF TurnInv

LEMMA TurnInvNotifyEntry ==
    ASSUME ListedInv, TurnInv, NotifyEntry PROVE TurnInv'
<1>1. /\ walk \in 1..Slots /\ IsUsed(subscriber[walk])
      /\ walk' = IF walk = Slots THEN 0 ELSE walk + 1
      /\ UNCHANGED <<server, conn, told, since, reported, latest>>
      /\ subscriber \in [1..Slots -> Entry]
      /\ subscriber' = [subscriber EXCEPT ![walk].event = reported]
    BY Bounds DEF NotifyEntry, NextEntry, web, ListedInv, TypeOK
<1>2. /\ Len(work) \in Nat /\ reported \in Nat
      /\ \A c \in Connection : latest[c] \in Nat
      /\ \A k \in 1..Len(work) : work[k].event \in Nat
    BY Numbers DEF ListedInv
<1>3. /\ subscriber'[walk] \in Entry /\ subscriber'[walk].event = reported
      /\ subscriber'[walk].hd = subscriber[walk].hd
      /\ subscriber'[walk].fd = subscriber[walk].fd
    <2>1. subscriber[walk] \in Entry /\ reported \in 0..MaxEvents
        BY <1>1 DEF ListedInv, TypeOK
    <2> QED
        BY <1>1, <2>1 DEF Entry
<1>4. ASSUME NEW fd PROVE Of(fd)' = Of(fd)
    <2>1. ASSUME NEW i \in 1..Slots PROVE i \in Of(fd)' <=> i \in Of(fd)
        <3>1. CASE i = walk
            BY <3>1, <1>1, <1>3 DEF Of
        <3>2. CASE i # walk
            BY <3>2, <1>1 DEF Of
        <3> QED
            BY <3>1, <3>2
    <2> QED
        BY <2>1 DEF Of
<1>5. CASE ~(server # None /\ Len(work) < MaxWork)
    <2>1. refused' = TRUE /\ work' = work
        BY <1>5 DEF NotifyEntry
    <2> QED
        BY <2>1, <1>1 DEF TurnInv, Order, Frontier, Chained
<1>6. CASE server # None /\ Len(work) < MaxWork
    <2>1. work' = Append(work, subscriber'[walk]) /\ refused' = refused
        BY <1>6 DEF NotifyEntry
    <2>a. PICK last \in Nat : last = Len(work) + 1
        BY <1>2
    <2>2. /\ Len(work') = last
          /\ \A k \in 1..Len(work) : work'[k] = work[k]
          /\ work'[last] = subscriber'[walk]
        <3>1. work \in Seq(Entry)
            BY DEF ListedInv, TypeOK
        <3> QED
            BY <2>a, <2>1, <3>1, <1>3, AppendProperties
    <2>3. /\ work'[last].event = reported
          /\ work'[last].hd = subscriber[walk].hd
          /\ work'[last].fd = subscriber[walk].fd
        BY <2>2, <1>3
    <2>4. subscriber[walk].fd \in Fds
        BY <1>1 DEF Entry, IsUsed
    <2>5. Order'
        <3>1. \A k \in 1..Len(work) : /\ work[k].fd \in Fds /\ work[k].event <= reported
                                      /\ \A c \in Connection : latest[c] <= work[k].event
                                      /\ \A j \in 1..k : work[j].event <= work[k].event
            BY DEF TurnInv, Order
        <3>2. \A c \in Connection : latest[c] <= reported
            BY DEF TurnInv, Order
        <3>3. ASSUME NEW k \in 1..last, k # last
              PROVE  /\ work'[k].fd \in Fds /\ work'[k].event <= reported
                     /\ \A c \in Connection : latest[c] <= work'[k].event
                     /\ \A j \in 1..k : work'[j].event <= work'[k].event
            BY <3>1, <3>3, <2>a, <2>2, <1>2
        <3>4. \A j \in 1..last : work'[j].event <= reported
            <4>1. \A j \in 1..last : j # last => work'[j].event <= reported
                BY <3>3
            <4> QED
                BY <4>1, <2>3, <1>2
        <3>5. /\ work'[last].fd \in Fds /\ work'[last].event <= reported
              /\ \A c \in Connection : latest[c] <= work'[last].event
              /\ \A j \in 1..last : work'[j].event <= work'[last].event
            BY <3>2, <3>4, <2>3, <2>4, <1>2
        <3> QED
            BY <3>2, <3>3, <3>5, <2>2, <1>1 DEF Order
    <2>6. ASSUME NEW fd, NEW k \in 1..Len(work) PROVE Goes(k, fd)' <=> Goes(k, fd)
        BY <2>2, <1>1 DEF Goes
    <2>7. ASSUME NEW fd PROVE Goes(last, fd)' <=> walk \in Of(fd)
        BY <2>3, <1>1 DEF Goes, Of
    <2>8. ASSUME NEW fd, NEW n, Reached(fd, n) PROVE Reached(fd, n)'
        BY <2>8, <2>6, <2>2, <2>a, <1>1, <1>2 DEF Reached
    <2>9. Frontier'
        <3> SUFFICES ASSUME NEW fd \in Fds, ~refused', conn'[fd] \in told', Listed(fd)'
                     PROVE  /\ Reached(fd, reported - 1)'
                            /\ walk' = 0 \/ (\E i \in Of(fd)' : i < walk')
                                   => Reached(fd, reported)'
            BY DEF Frontier
        <3>1. ~refused /\ conn[fd] \in told /\ Listed(fd) /\ Of(fd)' = Of(fd)
            BY <1>1, <1>4, <1>6, Zenon DEF NotifyEntry, Listed
        <3>2. Reached(fd, reported - 1)'
            BY <3>1, <2>8, <1>1 DEF TurnInv, Frontier
        <3>3. CASE walk \in Of(fd)
            <4>1. Goes(last, fd)' /\ last \in 1..Len(work')
                BY <3>3, <2>7, <2>2, <2>a, <1>2
            <4>2. Reached(fd, reported)'
                BY <4>1, <2>3, <1>1, <1>2 DEF Reached
            <4> QED
                BY <3>2, <4>2
        <3>4. CASE walk \notin Of(fd)
            <4>1. walk' = 0 \/ (\E i \in Of(fd)' : i < walk') => \E i \in Of(fd) : i < walk
                BY <3>1, <3>4, <1>1, Bounds DEF Of, Listed
            <4>2. walk' = 0 \/ (\E i \in Of(fd)' : i < walk') => Reached(fd, reported)
                BY <4>1, <3>1 DEF TurnInv, Frontier
            <4>3. Reached(fd, reported) => Reached(fd, reported)'
                BY <2>8, <1>1
            <4> QED
                BY <3>2, <4>2, <4>3
        <3> QED
            BY <3>3, <3>4
    <2>10. Chained'
        <3> SUFFICES ASSUME NEW fd \in Fds, NEW k \in 1..Len(work'),
                            ~refused', conn'[fd] \in told', Goes(k, fd)'
                     PROVE  \/ work'[k].event <= since'[conn'[fd]] + 1
                            \/ work'[k].event <= latest'[conn'[fd]] + 1
                            \/ \E j \in 1..k - 1 :
                                   Goes(j, fd)' /\ work'[k].event <= work'[j].event + 1
            BY DEF Chained
        <3>1. ~refused /\ conn[fd] \in told /\ conn' = conn /\ since' = since
              /\ latest' = latest
            BY <1>1, <1>6, Zenon DEF NotifyEntry
        <3>2. CASE k \in 1..Len(work)
            <4>1. Goes(k, fd) /\ work'[k] = work[k]
                BY <3>2, <2>2, <2>6
            <4>2. \/ work[k].event <= since[conn[fd]] + 1
                  \/ work[k].event <= latest[conn[fd]] + 1
                  \/ \E j \in 1..k - 1 : Goes(j, fd) /\ work[k].event <= work[j].event + 1
                BY <3>1, <3>2, <4>1 DEF TurnInv, Chained
            <4>3. \A j \in 1..k - 1 : j \in 1..Len(work)
                BY <3>2, <1>2
            <4>4. \A j \in 1..k - 1 : work'[j] = work[j] /\ (Goes(j, fd)' <=> Goes(j, fd))
                BY <4>3, <2>2, <2>6
            <4> QED
                BY <4>1, <4>2, <4>4, <3>1
        <3>3. CASE k = last
            <4>1. walk \in Of(fd)
                BY <3>3, <2>7
            <4>2. Reached(fd, reported - 1)
                BY <3>1, <4>1 DEF TurnInv, Frontier, Listed
            <4>3. work'[k].event = reported
                BY <3>3, <2>3
            <4>4. CASE \E j \in 1..Len(work) : Goes(j, fd) /\ reported - 1 <= work[j].event
                BY <4>3, <4>4, <3>3, <2>a, <2>2, <2>6, <1>2
            <4>5. CASE reported - 1 <= since[conn[fd]] \/ reported - 1 <= latest[conn[fd]]
                <5>1. since[conn[fd]] \in Nat /\ latest[conn[fd]] \in Nat
                    BY <3>1, Numbers DEF ListedInv, TypeOK
                <5> QED
                    BY <4>3, <4>5, <5>1, <3>1, <1>2
            <4> QED
                BY <4>2, <4>4, <4>5 DEF Reached
        <3> QED
            BY <3>2, <3>3, <2>a, <2>2, <1>2
    <2> QED
        BY <2>5, <2>9, <2>10 DEF TurnInv
<1> QED
    BY <1>5, <1>6

\* The message at the head of the queue is sent, and the others move up.
LEMMA SendingStep ==
    ASSUME ListedInv, TurnInv, AsyncSend
    PROVE  /\ UNCHANGED <<server, conn, told, since, subscriber, walk, reported, refused>>
           /\ 1 \in 1..Len(work) /\ Len(work') = Len(work) - 1
           /\ \A k \in 1..Len(work') : work'[k] = work[k + 1]
           /\ \A fd \in Fds : conn[fd] \in Connection /\ Goes(1, fd) =>
                  latest'[conn[fd]] = work[1].event
           /\ \A c \in Connection :
                  \/ latest'[c] = latest[c]
                  \/ /\ latest'[c] = work[1].event
                     /\ \E fd \in Fds : conn[fd] = c /\ Goes(1, fd)
<1>1. /\ work \in Seq(Entry) /\ work # <<>> /\ work' = Tail(work)
      /\ conn \in [Fds -> Connection \union {0}]
      /\ latest \in [Connection -> 0..MaxEvents] /\ 0 \notin Connection
    BY Bounds DEF ListedInv, TypeOK, AsyncSend, Connection
<1>2. UNCHANGED <<server, conn, told, since, subscriber, walk, reported, refused>>
    BY DEF AsyncSend, web
<1>3. /\ Len(work') = Len(work) - 1 /\ Len(work) \in Nat \ {0}
      /\ \A k \in 1..Len(work') : work'[k] = work[k + 1]
    BY <1>1, HeadTailProperties, EmptySeq
<1>4. Head(work) = work[1] /\ 1 \in 1..Len(work)
    BY <1>1, <1>3
<1>5. work[1].fd \in Fds
    BY <1>4 DEF TurnInv, Order
<1>6. latest' = IF work[1].hd = server /\ conn[work[1].fd] # 0
                THEN [latest EXCEPT ![conn[work[1].fd]] = work[1].event]
                ELSE latest
    BY <1>4 DEF AsyncSend, Payload
<1>7. ASSUME NEW fd \in Fds, conn[fd] \in Connection, Goes(1, fd)
      PROVE  latest'[conn[fd]] = work[1].event
    BY <1>1, <1>6, <1>7 DEF Goes
<1>8. ASSUME NEW c \in Connection, latest'[c] # latest[c]
      PROVE  /\ latest'[c] = work[1].event
             /\ \E fd \in Fds : conn[fd] = c /\ Goes(1, fd)
    BY <1>1, <1>5, <1>6, <1>8 DEF Goes
<1> QED
    BY <1>2, <1>3, <1>4, <1>7, <1>8

LEMMA TurnInvAsyncSend ==
    ASSUME ListedInv, TurnInv, AsyncSend PROVE TurnInv'
<1>1. /\ UNCHANGED <<server, conn, told, since, subscriber, walk, reported, refused>>
      /\ 1 \in 1..Len(work) /\ Len(work') = Len(work) - 1
      /\ \A k \in 1..Len(work') : work'[k] = work[k + 1]
    BY SendingStep
<1>2. /\ Len(work) \in Nat /\ reported \in Nat
      /\ \A c \in Connection : latest[c] \in Nat /\ since[c] \in Nat
      /\ \A k \in 1..Len(work) : work[k].event \in Nat
    BY Numbers DEF ListedInv
<1>3. \A k \in 1..Len(work') : k + 1 \in 1..Len(work)
    BY <1>1, <1>2
<1>4. ASSUME NEW c \in Connection
      PROVE  /\ latest'[c] \in Nat /\ latest[c] <= latest'[c] /\ latest'[c] <= reported
             /\ \A k \in 1..Len(work) : latest'[c] <= work[k].event
    <2>1. latest'[c] = latest[c] \/ latest'[c] = work[1].event
        BY SendingStep
    <2>2. /\ latest[c] <= work[1].event /\ work[1].event <= reported
          /\ latest[c] <= reported
          /\ \A k \in 1..Len(work) :
                 latest[c] <= work[k].event /\ work[1].event <= work[k].event
        BY <1>1, <1>2 DEF TurnInv, Order
    <2> QED
        BY <2>1, <2>2, <1>1, <1>2
<1>5. Order'
    <2>1. ASSUME NEW k \in 1..Len(work')
          PROVE  /\ work'[k].fd \in Fds /\ work'[k].event <= reported
                 /\ \A j \in 1..k : work'[j].event <= work'[k].event
        <3>1. /\ work[k + 1].fd \in Fds /\ work[k + 1].event <= reported
              /\ \A j \in 1..k + 1 : work[j].event <= work[k + 1].event
            BY <1>3 DEF TurnInv, Order
        <3>2. \A j \in 1..k : j \in 1..Len(work') /\ j + 1 \in 1..k + 1
            BY <1>1, <1>2
        <3> QED
            BY <3>1, <3>2, <1>1
    <2>2. \A k \in 1..Len(work') : \A c \in Connection : latest'[c] <= work'[k].event
        BY <1>1, <1>3, <1>4
    <2> QED
        BY <2>1, <2>2, <1>1, <1>4 DEF Order
\* Who is told has a connection.
<1>6. ASSUME NEW fd \in Fds, conn[fd] \in told PROVE conn[fd] \in Connection
    BY <1>6 DEF ListedInv, TypeOK
<1>7. ASSUME NEW fd, NEW k \in 1..Len(work') PROVE Goes(k, fd)' <=> Goes(k + 1, fd)
    BY <1>1 DEF Goes
\* What had reached somebody still has: it is among what moves up, or was sent.
<1>8. ASSUME NEW fd \in Fds, conn[fd] \in told, NEW n \in Int, Reached(fd, n)
      PROVE  Reached(fd, n)'
    <2>1. conn[fd] \in Connection
        BY <1>6, <1>8
    <2>2. CASE n <= since[conn[fd]] \/ n <= latest[conn[fd]]
        BY <2>1, <2>2, <1>1, <1>2, <1>4 DEF Reached
    <2>3. CASE \E k \in 1..Len(work) : Goes(k, fd) /\ n <= work[k].event
        <3>1. PICK k \in 1..Len(work) : Goes(k, fd) /\ n <= work[k].event
            BY <2>3
        <3>2. CASE k = 1
            BY <3>1, <3>2, <2>1, <1>1, SendingStep DEF Reached
        <3>3. CASE k # 1
            <4>1. k - 1 \in 1..Len(work') /\ (k - 1) + 1 = k
                BY <3>3, <1>1, <1>2
            <4>2. Goes(k - 1, fd)' /\ work'[k - 1] = work[k]
                BY <4>1, <3>1, <1>1, <1>7
            <4> QED
                BY <4>1, <4>2, <3>1 DEF Reached
        <3> QED
            BY <3>2, <3>3
    <2> QED
        BY <2>2, <2>3, <1>8 DEF Reached
<1>9. Frontier'
    <2> SUFFICES ASSUME NEW fd \in Fds, ~refused', conn'[fd] \in told', Listed(fd)'
                 PROVE  /\ Reached(fd, reported - 1)'
                        /\ walk' = 0 \/ (\E i \in Of(fd)' : i < walk')
                               => Reached(fd, reported)'
        BY DEF Frontier
    <2>1. /\ ~refused /\ conn[fd] \in told /\ Listed(fd) /\ Of(fd)' = Of(fd)
          /\ walk' = walk /\ reported' = reported
        BY <1>1 DEF Listed, Of
    <2>2. /\ Reached(fd, reported - 1)
          /\ walk = 0 \/ (\E i \in Of(fd) : i < walk) => Reached(fd, reported)
        BY <2>1 DEF TurnInv, Frontier
    <2>3. reported - 1 \in Int /\ reported \in Int
        BY <1>2
    <2> QED
        BY <2>1, <2>2, <2>3, <1>8
<1>10. Chained'
    <2> SUFFICES ASSUME NEW fd \in Fds, NEW k \in 1..Len(work'),
                        ~refused', conn'[fd] \in told', Goes(k, fd)'
                 PROVE  \/ work'[k].event <= since'[conn'[fd]] + 1
                        \/ work'[k].event <= latest'[conn'[fd]] + 1
                        \/ \E j \in 1..k - 1 :
                               Goes(j, fd)' /\ work'[k].event <= work'[j].event + 1
        BY DEF Chained
    <2>1. /\ ~refused /\ conn[fd] \in told /\ conn' = conn /\ since' = since
          /\ Goes(k + 1, fd) /\ k + 1 \in 1..Len(work) /\ work'[k] = work[k + 1]
        BY <1>1, <1>3, <1>7
    <2>2. conn[fd] \in Connection
        BY <2>1, <1>6
    <2>3. \/ work[k + 1].event <= since[conn[fd]] + 1
          \/ work[k + 1].event <= latest[conn[fd]] + 1
          \/ \E j \in 1..(k + 1) - 1 :
                 Goes(j, fd) /\ work[k + 1].event <= work[j].event + 1
        BY <2>1 DEF TurnInv, Chained
    <2>4. CASE work[k + 1].event <= since[conn[fd]] + 1
        BY <2>1, <2>4
    <2>5. CASE work[k + 1].event <= latest[conn[fd]] + 1
        <3>1. latest[conn[fd]] <= latest'[conn[fd]] /\ latest'[conn[fd]] \in Nat
            BY <2>2, <1>4
        <3> QED
            BY <2>1, <2>2, <2>5, <3>1, <1>2
    <2>6. CASE \E j \in 1..k : Goes(j, fd) /\ work[k + 1].event <= work[j].event + 1
        <3>1. PICK j \in 1..k : Goes(j, fd) /\ work[k + 1].event <= work[j].event + 1
            BY <2>6
        <3>2. CASE j = 1
            <4>1. latest'[conn[fd]] = work[1].event
                BY <3>1, <3>2, <2>2, SendingStep
            <4> QED
                BY <4>1, <3>1, <3>2, <2>1
        <3>3. CASE j # 1
            <4>1. j - 1 \in 1..k - 1 /\ j - 1 \in 1..Len(work') /\ (j - 1) + 1 = j
                BY <3>3, <1>1, <1>2
            <4>2. Goes(j - 1, fd)' /\ work'[j - 1] = work[j]
                BY <4>1, <3>1, <1>1, <1>7
            <4> QED
                BY <4>1, <4>2, <3>1, <2>1
        <3> QED
            BY <3>2, <3>3
    <2> QED
        BY <2>3, <2>4, <2>5, <2>6
<1> QED
    BY <1>5, <1>9, <1>10 DEF TurnInv

LEMMA TurnInvStep == ListedInv /\ TurnInv /\ [Next]_vars => TurnInv'
<1> SUFFICES ASSUME ListedInv, TurnInv, [Next]_vars PROVE TurnInv'
    OBVIOUS
<1>1. CASE Start \/ Stop
    BY <1>1, TurnInvGone DEF Start, Stop, ListedInv
<1>2. CASE Httpd
    <2>1. PICK fd \in Fds : \/ Accept(fd) \/ Drop(fd) \/ Subscribe(fd) \/ CloseFrame(fd)
                            \/ Upload(fd) \/ UploadEnds(fd)
        BY <1>2 DEF Httpd
    <2> QED
        BY <2>1, TurnInvAccept, TurnInvDrop, TurnInvSubscribe, TurnInvCloseFrame,
           TurnInvUpload
<1>3. CASE AsyncSend \/ Report \/ SkipEntry \/ NotifyEntry
    BY <1>3, TurnInvAsyncSend, TurnInvReport, TurnInvSkipEntry, TurnInvNotifyEntry
<1>4. CASE UNCHANGED vars
    BY <1>4 DEF vars, web, TurnInv, Order, Frontier, Chained, Reached, Goes, Listed, Of
<1> QED
    BY <1>1, <1>2, <1>3, <1>4 DEF Next, EventLoop, Walk

\* Events reach a subscribed connection in the order in which they were reported and
\* none is skipped, as long as the server takes all work, though each entry of the
\* table is used for the next event before the message of the last one is sent.
THEOREM EventsComeInTurn == FairSpec => SentInTurn
<1>1. ListedInv /\ TurnInv /\ [Next]_vars =>
          \/ \A c \in told : latest'[c] # latest[c] =>
                 /\ latest'[c] > latest[c]
                 /\ refused \/ latest'[c] <= Later(latest[c], since[c]) + 1
          \/ UNCHANGED vars
    <2> SUFFICES ASSUME ListedInv, TurnInv, Next, NEW c \in told, latest'[c] # latest[c]
                 PROVE  /\ latest'[c] > latest[c]
                        /\ refused \/ latest'[c] <= Later(latest[c], since[c]) + 1
        OBVIOUS
    <2>1. AsyncSend
        BY DEF Next, EventLoop, Start, Stop, Httpd, Accept, Drop, Subscribe, CloseFrame, Upload,
               UploadEnds, Report, Walk, SkipEntry, NotifyEntry
    <2>2. c \in Connection
        BY DEF ListedInv, TypeOK
    <2>3. PICK fd \in Fds : conn[fd] = c /\ Goes(1, fd) /\ latest'[c] = work[1].event
        BY <2>1, <2>2, SendingStep
    <2>4. 1 \in 1..Len(work)
        BY <2>1, SendingStep
    <2>5. latest[c] \in Nat /\ since[c] \in Nat /\ work[1].event \in Nat
        BY <2>2, <2>4, Numbers DEF ListedInv
    <2>6. latest[c] <= work[1].event
        BY <2>2, <2>4 DEF TurnInv, Order
    <2>7. refused \/ work[1].event <= since[c] + 1 \/ work[1].event <= latest[c] + 1
        <3>1. \A j \in 1..1 - 1 : FALSE
            OBVIOUS
        <3> QED
            BY <2>3, <2>4, <3>1 DEF TurnInv, Chained
    <2> QED
        BY <2>3, <2>5, <2>6, <2>7 DEF Later
<1> QED
    BY <1>1, ListedInvInit, ListedInvStep, TurnInvInit, TurnInvStep, PTL
    DEF FairSpec, Spec, SentInTurn
=============================================================================
