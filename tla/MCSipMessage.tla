---------------------------- MODULE MCSipMessage ----------------------------
(* Instances of SipMessage for TLC. *)
EXTENDS SipMessage

CONSTANTS v1, v2

MCValues == {NoText, v1, v2}

Of(name, value) == [name |-> name, value |-> value]
Empty == [name |-> "empty"]

FirstLines == {Of("SIP/2.0", 200), Of("SIP/2.0", 404),
               Of("other", "INVITE"), Of("other", "INFO")}

HeaderLines ==
    {Of("SIP/2.0", 500), Of("SIP/2.0", 486),
     [name |-> "Authenticate", realm |-> v1, nonce |-> Absent],
     [name |-> "Contact", uri |-> v1, expires |-> 10],
     [name |-> "Contact", uri |-> Absent, expires |-> Absent],
     [name |-> "To", value |-> v1, tag |-> v2],
     Of("From", v1), Of("From", v2),
     Of("Via", v2), Of("Via", NoText),
     Of("Record-Route", v1), Of("Record-Route", v2),
     Of("Content-Length", -1), Of("other", "BYE"), Empty}

BodyLines == {Of("Signal", v1), Of("Duration", 3), Of("Duration", 17),
              Of("Duration", -1), Of("From", v2), Empty}

UpTo(lines, n) == UNION {[1..k -> lines] : k \in 0..n}

\* Up to three header lines behind the first, and fewer without an end of the
\* header; and some with a body.
MCTexts ==
    {<<first>> \o header : first \in FirstLines, header \in UpTo(HeaderLines, 1)}
        \union
    {<<first>> \o header \o <<Empty>> :
        first \in FirstLines, header \in UpTo(HeaderLines \ {Empty}, 3)}
        \union
    {<<first>> \o header \o <<Empty>> \o body :
        first \in FirstLines,
        header \in UpTo({[name |-> "Content-Type", dtmf |-> TRUE]} \union BodyLines, 1),
        body \in UpTo(BodyLines, 2)}
=============================================================================
