----------------------------- MODULE SipPacket ------------------------------
(***************************************************************************)
(* SipPacket::parse: what the client takes from the text of a datagram.    *)
(* Each action is one round of parse_header's or parse_body's loop, or the *)
(* way out of it; the branches of the loop are actions of their own.       *)
(*                                                                         *)
(* A text is cut at its line endings.  A line is told by the name it       *)
(* begins with, none of which begins another, and has the value the branch *)
(* reads from it.  "other" is any line no branch of parse_header matches,  *)
(* told by its first word; "empty" holds the line ending only.  Behind the *)
(* last line ending there may be more, the tail.  A Contact whose > comes  *)
(* before its < is left out.                                               *)
(***************************************************************************)
EXTENDS Integers, Sequences, FiniteSets

CONSTANTS
    Values,            \* texts of header lines
    NoText,            \* the empty one
    Absent,            \* a parameter that is not there, or that is not read
    Texts,             \* the texts that are received
    ListLength,        \* length of ViaT and RecordRouteT, 5
    ExpiresModulus,    \* 2^32: m_contact_expires and m_content_length
    DurationModulus    \* 2^16: m_dtmf_duration

\* The headers of which the last one is kept as it is.
Kept == {"From", "CSeq", "Call-ID", "P-Called-Party-ID"}
Lists == {"Via", "Record-Route"}
KeptInBody == {"Signal", "m", "c"}

Methods == {"NOTIFY", "BYE", "INFO", "INVITE"}
Statuses == {200, 401, 100, 183, 500, 486, 487, 407, 603}
Unknown == "UNKNOWN"     \* Method::UNKNOWN, ...
UnknownStatus == 0       \* ... and Status::UNKNOWN, told from the codes

\* A line, with what its branch reads from it.
Line ==
    [name : {"empty"}]
        \union [name : {"other"}, value : Methods \union {Unknown}]
        \union [name : {"SIP/2.0", "Content-Length", "Duration"}, value : Int]
        \union [name : Kept \union Lists \union KeptInBody, value : Values]
        \union [name : {"To"}, value : Values, tag : Values \union {Absent}]
        \union [name : {"Authenticate"}, realm : Values \union {Absent},
                nonce : Values \union {Absent}]
        \union [name : {"Contact"}, uri : Values \union {Absent},
                expires : Int \union {Absent}]
        \union [name : {"Content-Type"}, dtmf : BOOLEAN]

ASSUME SipPacketAssumption ==
    /\ NoText \in Values
    /\ {ListLength, ExpiresModulus, DurationModulus} \subseteq Nat \ {0}

ASSUME TextsAssumption == Texts \subseteq Seq(Line)

VARIABLES
    text, tail,   \* m_buffer: its lines, and whether there is more
    at,           \* the loop that runs, or "parsed" or "rejected"
    pos,          \* the line at start_position
    m             \* the members m_status, m_method, ...

vars == <<text, tail, at, pos, m>>

Members ==
    [status : Statuses \union {UnknownStatus}, method : Methods \union {Unknown},
     realm : Values, nonce : Values,
     contact : Values, expires : 0..ExpiresModulus - 1, to : Values, to_tag : Values,
     kept : [Kept -> Values], list : [Lists -> Seq(Values \ {NoText})],
     dtmf : BOOLEAN, length : 0..ExpiresModulus - 1,
     body : [KeptInBody -> Values], duration : 0..DurationModulus - 1]

\* The members as the constructor and the head of parse_header leave them.
Cleared ==
    [status |-> UnknownStatus, method |-> Unknown, realm |-> NoText, nonce |-> NoText,
     contact |-> NoText, expires |-> 0, to |-> NoText, to_tag |-> NoText,
     kept |-> [name \in Kept |-> NoText], list |-> [name \in Lists |-> <<>>],
     dtmf |-> FALSE, length |-> 0,
     body |-> [name \in KeptInBody |-> NoText], duration |-> 0]

Init ==
    /\ text \in Texts /\ tail \in BOOLEAN
    /\ at = "header" /\ pos = 1 /\ m = Cleared

Lesser(a, b) == IF a < b THEN a ELSE b

HasLine == pos <= Len(text)   \* strstr found a line ending
-----------------------------------------------------------------------------
(* What the branches read *)

\* read_param, which may fail, and the conditions on nullptr.
Read(param, old) == IF param = Absent THEN old ELSE param

\* strtol; what is negative is logged and skipped, the rest takes the member's width.
ReadNumber(number, old, modulus) ==
    IF number < 0 THEN old ELSE number % modulus

ConvertStatus(code) == IF code \in Statuses THEN code ELSE UnknownStatus
ConvertMethod(word) == IF word \in Methods THEN word ELSE Unknown

KeepLast(list, value) ==   \* mutant: the oldest one makes room
    IF value = NoText THEN list
    ELSE Append(IF Len(list) < ListLength THEN list ELSE Tail(list), value)

\* append_via and append_record_route: the first free place, if there is one. An
\* empty text leaves its place free.
AppendTo(list, value) ==
    IF Len(list) < ListLength /\ value # NoText THEN Append(list, value) ELSE list

ReadContact(line) ==
    IF line.uri = Absent THEN m
    ELSE [m EXCEPT
             !.contact = line.uri,
             !.expires = IF line.expires = Absent THEN @
                         ELSE ReadNumber(line.expires, @, ExpiresModulus)]
-----------------------------------------------------------------------------
(* parse_header *)

\* The line at pos begins with one of these names: its branch, and the next line.
HeaderLine(names) ==
    /\ at = "header" /\ HasLine /\ text[pos].name \in names
    /\ pos' = pos + 1
    /\ UNCHANGED <<text, tail, at>>

\* A status line counts wherever it stands.
StatusLine ==
    /\ HeaderLine({"SIP/2.0"})
    /\ m' = [m EXCEPT !.status = ConvertStatus(text[pos].value)]

Authenticate ==
    /\ HeaderLine({"Authenticate"})
    /\ m' = [m EXCEPT !.realm = Read(text[pos].realm, @),
                      !.nonce = Read(text[pos].nonce, @)]

Contact ==
    /\ HeaderLine({"Contact"})
    /\ m' = ReadContact(text[pos])

To ==
    /\ HeaderLine({"To"})
    /\ m' = [m EXCEPT !.to = text[pos].value, !.to_tag = Read(text[pos].tag, @)]

KeepFirst(name, value) ==   \* mutant: only a header that was not there yet
    IF m.kept[name] = NoText THEN value ELSE m.kept[name]

Keep(name, value) == value

KeptHeader ==
    /\ HeaderLine(Kept)
    /\ m' = [m EXCEPT !.kept[text[pos].name] = Keep(text[pos].name, text[pos].value)]

ListHeader ==
    /\ HeaderLine(Lists)
    /\ m' = [m EXCEPT !.list[text[pos].name] = AppendTo(@, text[pos].value)]

ContentType ==
    /\ HeaderLine({"Content-Type"})
    /\ m' = [m EXCEPT !.dtmf = text[pos].dtmf]

ContentLength ==
    /\ HeaderLine({"Content-Length"})
    /\ m' = [m EXCEPT !.length = ReadNumber(text[pos].value, @, ExpiresModulus)]

FirstLine == pos = 1

\* No branch but the last, which looks for a method in the first line only.
OtherLine ==
    /\ HeaderLine({"other", "Duration"} \union KeptInBody)
    /\ m' = IF FirstLine /\ text[pos].name = "other"
            THEN [m EXCEPT !.method = ConvertMethod(text[pos].value)]
            ELSE m

\* The body is what is left, if anything is.
BodyFollows == at' = IF pos = Len(text) /\ ~tail THEN "parsed" ELSE "body"

EndOfHeader ==
    /\ at = "header" /\ HasLine /\ text[pos].name = "empty"
    /\ pos' = pos + 1
    /\ BodyFollows
    /\ UNCHANGED <<text, tail, m>>

\* parse returns false.
HeaderUnended ==
    /\ at = "header" /\ ~HasLine
    /\ at' = "rejected"
    /\ UNCHANGED <<text, tail, pos, m>>
-----------------------------------------------------------------------------
(* parse_body, whose result parse does not look at *)

BodyLine ==
    /\ at = "body" /\ HasLine
    /\ pos' = pos + 1
    /\ UNCHANGED <<text, tail, at>>

KeptBodyLine ==
    /\ BodyLine /\ text[pos].name \in KeptInBody
    /\ m' = [m EXCEPT !.body[text[pos].name] = text[pos].value]

Duration ==
    /\ BodyLine /\ text[pos].name = "Duration"
    /\ m' = [m EXCEPT !.duration = ReadNumber(text[pos].value, @, DurationModulus)]

OtherBodyLine ==
    /\ BodyLine /\ text[pos].name \notin KeptInBody \union {"Duration", "empty"}
    /\ UNCHANGED m

EndOnEmptyLine ==   \* mutant: the text's end does not end the body
    /\ at = "body" /\ HasLine /\ text[pos].name = "empty"
    /\ at' = "parsed"
    /\ UNCHANGED <<text, tail, pos, m>>

EndOfBody ==
    /\ at = "body" /\ (HasLine => text[pos].name = "empty")
    /\ at' = "parsed"
    /\ UNCHANGED <<text, tail, pos, m>>

ParseHeader ==
    \/ StatusLine \/ Authenticate \/ Contact \/ To \/ KeptHeader \/ ListHeader
    \/ ContentType \/ ContentLength \/ OtherLine \/ EndOfHeader \/ HeaderUnended

ParseBody == KeptBodyLine \/ Duration \/ OtherBodyLine \/ EndOfBody

Parse == ParseHeader \/ ParseBody

Spec == Init /\ [][Parse]_vars /\ WF_vars(Parse)
-----------------------------------------------------------------------------
(* Properties *)

\* Every member keeps its shape, and its width.
TypeOK ==
    /\ at \in {"header", "body", "parsed", "rejected"}
    /\ pos \in 1..Len(text) + 1
    /\ m \in Members
    /\ \A name \in Lists : Len(m.list[name]) <= ListLength

\* The lines before the first empty one, and those behind it up to the next.
Header == {i \in DOMAIN text : \A j \in 1..i : text[j].name # "empty"}
Body ==
    {i \in DOMAIN text :
        \E end \in 1..i - 1 :
            /\ end - 1 \in Header \union {0} /\ end \notin Header
            /\ \A j \in end + 1..i : text[j].name # "empty"}

Named(lines, name) == {i \in lines : text[i].name = name}
IsLast(i, lines) == i \in lines /\ \A j \in lines : j <= i

\* What a header of these lines says.
HeaderTaken(header) ==
    /\ \A name \in Kept :
           LET lines == Named(header, name) IN
           \/ lines = {} /\ m.kept[name] = NoText
           \/ \E i \in lines : IsLast(i, lines) /\ m.kept[name] = text[i].value
    /\ LET lines == Named(header, "SIP/2.0") IN
           \/ lines = {} /\ m.status = UnknownStatus
           \/ \E i \in lines : /\ IsLast(i, lines)
                               /\ m.status = ConvertStatus(text[i].value)
    /\ m.method = IF 1 \in Named(header, "other") THEN text[1].value ELSE Unknown

\* What a body of these lines says of the duration.
DurationTaken(body) ==
    LET lines == {i \in Named(body, "Duration") : text[i].value >= 0} IN
    \/ lines = {} /\ m.duration = 0
    \/ \E i \in lines :
           /\ IsLast(i, lines)
           /\ text[i].value < DurationModulus => m.duration = text[i].value

\* What is read from a packet that is accepted is what its header says, whatever
\* the order of its lines and whatever its body looks like: the last line of a
\* name counts, and a method in the first line only, so that a packet whose status
\* line comes first is a reply and no request.  How long a key of the phone was
\* pressed is read from the body only, up to its first empty line, as sent unless
\* it is negative or takes more than 16 bits.
TakenAsSent == at = "parsed" => HeaderTaken(Header) /\ DurationTaken(Body)

\* The list holds what lines of this name say, in order: the first of those that are
\* not empty, as many as there is room for.
HoldsFirst(list, name, lines) ==
    LET listed == {i \in Named(lines, name) : text[i].value # NoText}
        Rank(i) == Cardinality({j \in listed : j <= i})
    IN  /\ Len(list) = Lesser(Cardinality(listed), ListLength)
        /\ \A i \in listed : Rank(i) <= ListLength => list[Rank(i)] = text[i].value

\* Parsing ends, and gives up the texts that have no end of the header, and no other.
Ends ==
    <>(at = IF \E i \in DOMAIN text : text[i].name = "empty" THEN "parsed" ELSE "rejected")
=============================================================================
