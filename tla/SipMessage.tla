----------------------------- MODULE SipMessage -----------------------------
(***************************************************************************)
(* From a datagram to the datagram that answers it: rx of SipClientInt     *)
(* parses the text, and send_sip_ok, send_sip_decline or send_sip_ack      *)
(* writes the answer into the socket's Buffer, of fixed size, from what    *)
(* the parser has kept.  A packet that has a status and the method INVITE  *)
(* is answered twice, out of the same Buffer.  Which reply is acknowledged *)
(* in which state, and the INVITE that follows the ACK of a challenge, are *)
(* module SipClient.                                                       *)
(*                                                                         *)
(* A line that is written takes two places of the buffer, its name and its *)
(* value; the line that ends the message is one place.                     *)
(***************************************************************************)
EXTENDS SipPacket, SequencesExt

CONSTANTS
    Self,           \* a From header that shows the client's own caller display
    Dialled,        \* m_uri, or the server's URI
    KnownContact,   \* m_to_contact and m_to_tag, as earlier packets have left them
    KnownTag,
    TxSize          \* TX_BUFFER_SIZE, in places

ASSUME SipMessageAssumption ==
    {Self, Dialled, KnownContact, KnownTag} \subseteq Values /\ TxSize \in Nat \ {0}

VARIABLES
    turn,   \* what rx looks at next: the "status", the "method", or it is "over"
    sent    \* the datagram rx sent last for the packet, or nothing

messageVars == <<vars, turn, sent>>

MessageInit == Init /\ turn = "status" /\ sent = <<>>

\* The two tests of rx on the method; a 500 is not looked at any further.
AnsweredAtOnce == m.status = UnknownStatus /\ m.method \in {"NOTIFY", "BYE", "INFO"}
IsInvite == m.status # 500 /\ m.method = "INVITE"

\* The replies some row acknowledges, in some state, and those rx itself does in any.
AcknowledgedByRow == {200, 401, 407, 487}
AcknowledgedByRx == {486, 603}

\* rx has come to the method: what it acknowledges itself is acknowledged.
StatusHandled == turn = "method" \/ (turn = "status" /\ m.status \notin AcknowledgedByRx)
-----------------------------------------------------------------------------
(* The Buffer *)

PutIfFits(content, piece) ==   \* mutant: a piece that does not fit is left out
    IF Len(content \o piece) < TxSize THEN content \o piece ELSE content

\* operator<<: what does not fit is cut off without a word.
Put(content, piece) ==
    LET whole == content \o piece
    IN  IF Len(whole) < TxSize THEN whole ELSE SubSeq(whole, 1, TxSize - 1)

End == <<"end">>

\* What the buffer holds when the operators << have run in turn.
Written(pieces) ==
    LET content[n \in 0..Len(pieces)] ==
            IF n = 0 THEN <<>> ELSE Put(content[n - 1], pieces[n])
    IN  content[Len(pieces)]

\* get_new_tx_buf, the operators <<, and send_buffered_data.
Send(lines) ==
    /\ sent' = Written(Append(lines, End))
    /\ UNCHANGED vars
-----------------------------------------------------------------------------
(* What is written *)

LinesOf(name, values) == [i \in DOMAIN values |-> <<name, values[i]>>]

\* send_sip_reply_header, which repeats the request's own headers.
ReplyHeader(status) ==
    <<<<"SIP/2.0", status>>, <<"To", m.to>>, <<"From", m.kept["From"]>>>>
        \o LinesOf("Record-Route", m.list["Record-Route"])
        \o LinesOf("Via", m.list["Via"])
        \o <<<<"CSeq", m.kept["CSeq"]>>, <<"Call-ID", m.kept["Call-ID"]>>,
             <<"Max-Forwards", "70">>>>

\* The end of send_sip_header: for an ACK the recorded route, backwards.
Routes(routes) == LinesOf("Route", Reverse(routes))

KnownPeer == KnownContact   \* mutant: rx does not take the packet's contact over

\* m_to_contact and m_to_tag, which rx takes from the packet only if it has them.
Peer == IF m.contact # NoText THEN m.contact ELSE KnownContact
PeerTag == IF m.to_tag # NoText THEN m.to_tag ELSE KnownTag

\* send_sip_ack; the lines between, which are the client's own, are left out.
AckLines ==
    <<<<"ACK", IF Peer # NoText THEN Peer ELSE Dialled>>, <<"To", PeerTag>>>>
        \o Routes(m.list["Record-Route"])

NoBody == <<"Content-Length", "0">>

\* NOTIFY, BYE and INFO are answered before, an INVITE after the machine has run.
Answer ==
    /\ at = "parsed" /\ StatusHandled
    /\ AnsweredAtOnce \/ (IsInvite /\ m.kept["From"] # Self)
    /\ turn' = "over"
    /\ Send(Append(ReplyHeader("200 OK"), NoBody))

Decline ==
    /\ at = "parsed" /\ StatusHandled
    /\ IsInvite /\ m.kept["From"] = Self
    /\ turn' = "over"
    /\ Send(Append(ReplyHeader("603 Decline"), NoBody))

Acknowledge ==
    /\ at = "parsed" /\ turn = "status"
    /\ m.status \in AcknowledgedByRow \union AcknowledgedByRx
    /\ turn' = "method"
    /\ Send(Append(AckLines, NoBody))

MessageNext == (Parse /\ UNCHANGED <<turn, sent>>) \/ Answer \/ Decline \/ Acknowledge

MessageFairSpec ==
    MessageInit /\ [][MessageNext]_messageVars /\ WF_messageVars(MessageNext)
-----------------------------------------------------------------------------
(* Renewal of the registration *)

HalfAnHour == 1800

WholeTime(expires) == IF expires < 10 THEN 2 * HalfAnHour ELSE expires   \* mutant

\* schedule_reregister: the seconds until the next registration, from what a 200
\* has said of the expiry, or nothing.
RenewalDelay(expires) == IF expires < 10 THEN HalfAnHour ELSE expires \div 2
-----------------------------------------------------------------------------
(* Properties *)

\* The Contact lines that say of an expiry.
Contacts(lines) ==
    {i \in Named(lines, "Contact") : Absent \notin {text[i].uri, text[i].expires}}

\* The client renews its registration before it ends, if the server grants ten
\* seconds or more and says so in each Contact it lists, and in none other than
\* the client's: the last Contact with an expiry decides.  And whatever it reads,
\* nothing, zero or less than ten seconds too, it does not renew at once.
RenewedInTime ==
    at = "parsed" =>
        /\ \A granted \in {text[i].expires : i \in Contacts(Header)}
                               \intersect 10..ExpiresModulus - 1 :
               (\A i \in Contacts(Header) : text[i].expires = granted)
                   => RenewalDelay(m.expires) < granted
        /\ RenewalDelay(m.expires) >= 5

\* The message as it was to be: two places for each line, and one for the end.
Whole(lines) ==
    LET all == Append(lines, NoBody)
    IN  [j \in 1..2 * Len(all) + 1 |->
            IF j > 2 * Len(all) THEN "end" ELSE all[(j + 1) \div 2][2 - (j % 2)]]

\* What is sent is what was to be sent, or the beginning of it that fits: nothing
\* is left out in the middle, and nothing left over from the datagram before.
SentFromTheBeginning ==
    sent # <<>> =>
        \E lines \in {ReplyHeader("200 OK"), ReplyHeader("603 Decline"), AckLines} :
            sent = SubSeq(Whole(lines), 1, Lesser(TxSize - 1, Len(Whole(lines))))

Complete == Len(sent) % 2 = 1 /\ sent[Len(sent)] = "end"

\* These lines of the datagram, and no other, have the name.
StandsAt(name, places) ==
    \A k \in 1..Len(sent) \div 2 : sent[2 * k - 1] = name <=> k \in places

\* A message finds its way: a reply repeats the request's Via and Record-Route
\* lines in order, an ACK takes the recorded route of the reply it acknowledges
\* backwards; of each list there are the first five, and none is lost but by the
\* end of the buffer.
FindsItsWay ==
    /\ Complete /\ sent[1] = "SIP/2.0" =>
           \A name \in Lists : \E n \in 0..ListLength, before \in 0..Len(sent) :
               /\ StandsAt(name, before + 1..before + n)
               /\ HoldsFirst([k \in 1..n |-> sent[2 * (before + k)]], name, Header)
    /\ Complete /\ sent[1] = "ACK" =>
           \E n \in 0..ListLength, before \in 0..Len(sent) :
               /\ StandsAt("Route", before + 1..before + n)
               /\ HoldsFirst([k \in 1..n |-> sent[2 * (before + n + 1 - k)]],
                             "Record-Route", Header)

Said(lines) == {i \in Named(lines, "Contact") : text[i].uri # Absent}
Tagged(lines) == {i \in Named(lines, "To") : text[i].tag # Absent}

\* An ACK goes to the last Contact of the packet it acknowledges, and carries the tag
\* of its last To, wherever those lines stand and whatever peer was known before.
AckNamesTheSender ==
    Complete /\ sent[1] = "ACK" =>
        /\ \A i \in DOMAIN text :
               IsLast(i, Said(Header)) /\ text[i].uri # NoText => sent[2] = text[i].uri
        /\ \A i \in DOMAIN text :
               IsLast(i, Tagged(Header)) /\ text[i].tag # NoText => sent[4] = text[i].tag
=============================================================================
