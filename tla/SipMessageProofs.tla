-------------------------- MODULE SipMessageProofs --------------------------
(***************************************************************************)
(* What the parser makes of any text: the shape of the members, and that   *)
(* they say what the text says, whatever the order of its lines.  And what *)
(* is made of it in turn: the renewal of the registration, and the answer, *)
(* which is the beginning of the message that was to be sent and takes the *)
(* packet's Via and Record-Route lines over.                               *)
(***************************************************************************)
EXTENDS SipMessage, SequenceTheorems, FiniteSetTheorems, WellFoundedInduction, TLAPS

LEMMA Constants ==
    /\ ListLength \in Nat /\ ListLength > 0
    /\ ExpiresModulus \in Nat /\ ExpiresModulus > 0
    /\ DurationModulus \in Nat /\ DurationModulus > 0
<1>1. /\ ListLength \in Nat \ {0} /\ ExpiresModulus \in Nat \ {0}
      /\ DurationModulus \in Nat \ {0}
    BY SipPacketAssumption
<1> QED
    BY <1>1

\* What a number that is read leaves fits the member.
LEMMA NumbersFit ==
    ASSUME NEW modulus \in Nat, modulus > 0, NEW old \in 0..modulus - 1, NEW number \in Int
    PROVE  ReadNumber(number, old, modulus) \in 0..modulus - 1
BY DEF ReadNumber

\* A list that is added to keeps its bound, and holds no empty text.
LEMMA ListsFit ==
    ASSUME NEW list \in Seq(Values \ {NoText}), Len(list) <= ListLength,
           NEW value \in Values
    PROVE  /\ AppendTo(list, value) \in Seq(Values \ {NoText})
           /\ Len(AppendTo(list, value)) <= ListLength
<1>1. CASE Len(list) < ListLength /\ value # NoText
    <2>1. value \in Values \ {NoText} /\ Len(list) \in Nat
        BY <1>1, LenProperties
    <2>2. AppendTo(list, value) = Append(list, value)
        BY <1>1 DEF AppendTo
    <2>3. /\ Append(list, value) \in Seq(Values \ {NoText})
          /\ Len(Append(list, value)) = Len(list) + 1
        BY <2>1, AppendProperties
    <2> QED
        BY <1>1, <2>1, <2>2, <2>3, Constants
<1>2. CASE ~(Len(list) < ListLength /\ value # NoText)
    BY <1>2 DEF AppendTo
<1> QED
    BY <1>1, <1>2

\* The line the loop is at.
LEMMA LineAtPos ==
    ASSUME text \in Texts, TypeOK, HasLine
    PROVE  /\ Len(text) \in Nat
           /\ pos \in 1..Len(text) /\ pos + 1 \in 1..Len(text) + 1
           /\ text[pos] \in Line
<1>1. text \in Seq(Line)
    BY TextsAssumption
<1>2. Len(text) \in Nat
    BY <1>1, LenProperties
<1>3. pos \in 1..Len(text) /\ pos + 1 \in 1..Len(text) + 1
    BY <1>2 DEF TypeOK, HasLine
<1> QED
    BY <1>1, <1>2, <1>3, ElementOfSeq

\* What the branches read from a line, by the name it begins with.
LEMMA LineFields ==
    ASSUME NEW line \in Line
    PROVE  /\ line.name = "other" => line.value \in Methods \union {Unknown}
           /\ line.name \in {"SIP/2.0", "Content-Length", "Duration"} => line.value \in Int
           /\ line.name \in Kept \union Lists \union KeptInBody => line.value \in Values
           /\ line.name = "To" => line.value \in Values /\ line.tag \in Values \union {Absent}
           /\ line.name = "Authenticate" =>
                  /\ line.realm \in Values \union {Absent}
                  /\ line.nonce \in Values \union {Absent}
           /\ line.name = "Contact" =>
                  /\ line.uri \in Values \union {Absent}
                  /\ line.expires \in Int \union {Absent}
           /\ line.name = "Content-Type" => line.dtmf \in BOOLEAN
BY DEF Line, Kept, Lists, KeptInBody

\* A round of a loop that leaves the members in shape keeps the types.
LEMMA TypeRound ==
    ASSUME text \in Texts, TypeOK, HasLine, pos' = pos + 1, UNCHANGED <<text, tail, at>>,
           m' \in Members, m'.list = m.list
    PROVE  TypeOK'
BY LineAtPos DEF TypeOK

LEMMA TypeHeader == text \in Texts /\ TypeOK /\ ParseHeader => TypeOK'
<1> SUFFICES ASSUME text \in Texts, TypeOK, ParseHeader PROVE TypeOK'
    OBVIOUS
<1>1. m \in Members
    BY DEF TypeOK
<1>2. CASE ~EndOfHeader /\ ~HeaderUnended
    <2>1. HasLine /\ pos' = pos + 1 /\ UNCHANGED <<text, tail, at>>
        BY <1>2 DEF ParseHeader, StatusLine, Authenticate, Contact, To, KeptHeader,
           ListHeader, ContentType, ContentLength, OtherLine, HeaderLine
    <2>2. text[pos] \in Line
        BY <2>1, LineAtPos
    <2> DEFINE line == text[pos]
    <2>3. CASE StatusLine
        <3>1. m' \in Members /\ m'.list = m.list
            BY <2>3, <1>1 DEF StatusLine, Members, ConvertStatus
        <3> QED
            BY <2>1, <3>1, TypeRound
    <2>4. CASE Authenticate
        <3>1. /\ Read(line.realm, m.realm) \in Values
              /\ Read(line.nonce, m.nonce) \in Values
            BY <2>2, <2>4, <1>1, LineFields DEF Authenticate, HeaderLine, Read, Members
        <3>2. m' \in Members /\ m'.list = m.list
            BY <2>4, <3>1, <1>1 DEF Authenticate, Members
        <3> QED
            BY <2>1, <3>2, TypeRound
    <2>5. CASE Contact
        <3>1. line.uri \in Values \union {Absent} /\ line.expires \in Int \union {Absent}
            BY <2>2, <2>5, LineFields DEF Contact, HeaderLine
        <3>2. CASE line.uri = Absent
            BY <2>1, <2>5, <3>2, <1>1, TypeRound DEF Contact, ReadContact
        <3>3. CASE line.uri # Absent
            <4> DEFINE expires == IF line.expires = Absent THEN m.expires
                                  ELSE ReadNumber(line.expires, m.expires, ExpiresModulus)
            <4>1. m.expires \in 0..ExpiresModulus - 1
                BY <1>1 DEF Members
            <4>2. expires \in 0..ExpiresModulus - 1
                BY <3>1, <4>1, Constants, NumbersFit
            <4>3. m' = [m EXCEPT !.contact = line.uri, !.expires = expires]
                BY <2>5, <3>3 DEF Contact, ReadContact
            <4> HIDE DEF expires
            <4>4. m' \in Members /\ m'.list = m.list
                BY <3>1, <3>3, <4>2, <4>3, <1>1 DEF Members
            <4> QED
                BY <2>1, <4>4, TypeRound
        <3> QED
            BY <3>2, <3>3
    <2>6. CASE To
        <3>1. line.value \in Values /\ Read(line.tag, m.to_tag) \in Values
            BY <2>2, <2>6, <1>1, LineFields DEF To, HeaderLine, Read, Members
        <3>2. m' \in Members /\ m'.list = m.list
            BY <2>6, <3>1, <1>1 DEF To, Members
        <3> QED
            BY <2>1, <3>2, TypeRound
    <2>7. CASE KeptHeader
        <3>1. line.name \in Kept /\ line.value \in Values
            BY <2>2, <2>7, LineFields DEF KeptHeader, HeaderLine
        <3>2. [m.kept EXCEPT ![line.name] = line.value] \in [Kept -> Values]
            BY <3>1, <1>1 DEF Members
        <3>3. m' = [m EXCEPT !.kept = [m.kept EXCEPT ![line.name] = line.value]]
            BY <2>7 DEF KeptHeader, Keep
        <3>4. m' \in Members /\ m'.list = m.list
            BY <3>2, <3>3, <1>1 DEF Members
        <3> QED
            BY <2>1, <3>4, TypeRound
    <2>8. CASE ListHeader
        <3>1. line.name \in Lists /\ line.value \in Values
            BY <2>2, <2>8, LineFields DEF ListHeader, HeaderLine
        <3> DEFINE longer == [m.list EXCEPT ![line.name] = AppendTo(@, line.value)]
        <3>2. m.list \in [Lists -> Seq(Values \ {NoText})]
            BY <1>1 DEF Members
        <3>3. /\ AppendTo(m.list[line.name], line.value) \in Seq(Values \ {NoText})
              /\ Len(AppendTo(m.list[line.name], line.value)) <= ListLength
            BY <3>1, <3>2, ListsFit DEF TypeOK
        <3>4. longer \in [Lists -> Seq(Values \ {NoText})]
            BY <3>1, <3>2, <3>3
        <3>5. \A name \in Lists : Len(longer[name]) <= ListLength
            BY <3>1, <3>2, <3>3 DEF TypeOK
        <3>6. m' = [m EXCEPT !.list = longer]
            BY <2>8 DEF ListHeader
        <3> HIDE DEF longer
        <3>7. m' \in Members /\ m'.list = longer
            BY <3>4, <3>6, <1>1 DEF Members
        <3> QED
            BY <2>1, <3>5, <3>7, LineAtPos DEF TypeOK
    <2>9. CASE ContentType
        <3>1. line.dtmf \in BOOLEAN
            BY <2>2, <2>9, LineFields DEF ContentType, HeaderLine
        <3>2. m' \in Members /\ m'.list = m.list
            BY <2>9, <3>1, <1>1 DEF ContentType, Members
        <3> QED
            BY <2>1, <3>2, TypeRound
    <2>10. CASE ContentLength
        <3>1. line.value \in Int /\ m.length \in 0..ExpiresModulus - 1
            BY <2>2, <2>10, <1>1, LineFields DEF ContentLength, HeaderLine, Members
        <3>2. ReadNumber(line.value, m.length, ExpiresModulus) \in 0..ExpiresModulus - 1
            BY <3>1, Constants, NumbersFit
        <3>3. m' \in Members /\ m'.list = m.list
            BY <2>10, <3>2, <1>1 DEF ContentLength, Members
        <3> QED
            BY <2>1, <3>3, TypeRound
    <2>11. CASE OtherLine
        <3>1. m' \in Members /\ m'.list = m.list
            BY <2>11, <1>1 DEF OtherLine, Members, ConvertMethod
        <3> QED
            BY <2>1, <3>1, TypeRound
    <2> QED
        BY <1>2, <2>3, <2>4, <2>5, <2>6, <2>7, <2>8, <2>9, <2>10, <2>11 DEF ParseHeader
<1>3. CASE EndOfHeader
    BY <1>3, LineAtPos DEF EndOfHeader, BodyFollows, TypeOK
<1>4. CASE HeaderUnended
    BY <1>4 DEF HeaderUnended, TypeOK
<1> QED
    BY <1>2, <1>3, <1>4

LEMMA TypeBody == text \in Texts /\ TypeOK /\ ParseBody => TypeOK'
<1> SUFFICES ASSUME text \in Texts, TypeOK, ParseBody PROVE TypeOK'
    OBVIOUS
<1>1. m \in Members
    BY DEF TypeOK
<1> DEFINE line == text[pos]
<1>2. CASE KeptBodyLine
    <2>1. line.name \in KeptInBody /\ line.value \in Values
        BY <1>2, LineAtPos, LineFields DEF KeptBodyLine, BodyLine
    <2>2. [m.body EXCEPT ![line.name] = line.value] \in [KeptInBody -> Values]
        BY <2>1, <1>1 DEF Members
    <2>3. m' = [m EXCEPT !.body = [m.body EXCEPT ![line.name] = line.value]]
        BY <1>2 DEF KeptBodyLine
    <2>4. m' \in Members /\ m'.list = m.list
        BY <2>2, <2>3, <1>1 DEF Members
    <2> QED
        BY <1>2, <2>4, TypeRound DEF KeptBodyLine, BodyLine
<1>3. CASE Duration
    <2>1. line.value \in Int /\ m.duration \in 0..DurationModulus - 1
        BY <1>1, <1>3, LineAtPos, LineFields DEF Duration, BodyLine, Members
    <2>2. ReadNumber(line.value, m.duration, DurationModulus) \in 0..DurationModulus - 1
        BY <2>1, Constants, NumbersFit
    <2>3. m' \in Members /\ m'.list = m.list
        BY <1>3, <2>2, <1>1 DEF Duration, Members
    <2> QED
        BY <1>3, <2>3, TypeRound DEF Duration, BodyLine
<1>4. CASE OtherBodyLine
    BY <1>1, <1>4, TypeRound DEF OtherBodyLine, BodyLine
<1>5. CASE EndOfBody
    BY <1>5 DEF EndOfBody, TypeOK
<1> QED
    BY <1>2, <1>3, <1>4, <1>5 DEF ParseBody

TextInv == text \in Texts /\ TypeOK

LEMMA TextInvInit == MessageInit => TextInv
<1> SUFFICES ASSUME MessageInit PROVE TextInv
    OBVIOUS
<1>1. text \in Texts /\ at = "header" /\ pos = 1 /\ m = Cleared
    BY DEF MessageInit, Init
<1>2. Len(text) \in Nat
    BY <1>1, TextsAssumption, LenProperties
<1>3. m \in Members
    BY <1>1, Constants, SipPacketAssumption, EmptySeq DEF Cleared, Members
<1>4. \A name \in Lists : Len(m.list[name]) <= ListLength
    BY <1>1, Constants, EmptySeq DEF Cleared
<1> QED
    BY <1>1, <1>2, <1>3, <1>4 DEF TextInv, TypeOK

LEMMA MessageSteps == [MessageNext]_messageVars => [Parse]_vars
BY DEF MessageNext, messageVars, Answer, Decline, Acknowledge, Send

LEMMA TextInvStep == TextInv /\ [Parse]_vars => TextInv'
<1>1. TextInv /\ Parse => text' = text
    BY DEF Parse, ParseHeader, ParseBody, StatusLine, Authenticate, Contact, To, KeptHeader,
       ListHeader, ContentType, ContentLength, OtherLine, HeaderLine, EndOfHeader,
       HeaderUnended, KeptBodyLine, Duration, OtherBodyLine, EndOfBody, BodyLine
<1>2. TextInv /\ UNCHANGED vars => TextInv'
    BY DEF TextInv, TypeOK, vars
<1> QED
    BY <1>1, <1>2, TypeHeader, TypeBody DEF TextInv, Parse

\* Whatever is received, every member keeps its shape and its width, and no list
\* grows past its five places.
THEOREM MembersFit == MessageFairSpec => []TypeOK
<1>1. TextInv => TypeOK
    BY DEF TextInv
<1> QED
    BY <1>1, TextInvInit, TextInvStep, MessageSteps, PTL DEF MessageFairSpec
-----------------------------------------------------------------------------
(* What is taken from the lines *)

\* What a round of parse_header's loop changes of what the properties look at.
LEMMA HeaderRound ==
    ASSUME TextInv, ParseHeader, ~EndOfHeader, ~HeaderUnended
    PROVE  LET line == text[pos] IN
           /\ at = "header" /\ HasLine /\ line.name # "empty"
           /\ pos' = pos + 1 /\ UNCHANGED <<text, tail, at>>
           /\ m'.kept = IF line.name \in Kept
                        THEN [m.kept EXCEPT ![line.name] = line.value] ELSE m.kept
           /\ m'.status = IF line.name = "SIP/2.0"
                          THEN ConvertStatus(line.value) ELSE m.status
           /\ m'.method = IF pos = 1 /\ line.name = "other"
                          THEN ConvertMethod(line.value) ELSE m.method
           /\ m'.expires = IF /\ line.name = "Contact"
                              /\ line.uri # Absent /\ line.expires # Absent
                           THEN ReadNumber(line.expires, m.expires, ExpiresModulus)
                           ELSE m.expires
           /\ m'.list = IF line.name \in Lists
                        THEN [m.list EXCEPT ![line.name] =
                                 AppendTo(m.list[line.name], line.value)]
                        ELSE m.list
           /\ m'.contact = IF line.name = "Contact" /\ line.uri # Absent
                           THEN line.uri ELSE m.contact
           /\ m'.to_tag = IF line.name = "To" THEN Read(line.tag, m.to_tag) ELSE m.to_tag
           /\ m'.duration = m.duration
<1>1. m \in Members
    BY DEF TextInv, TypeOK
<1>2. CASE StatusLine
    BY <1>1, <1>2 DEF StatusLine, HeaderLine, Members, Kept, Lists
<1>3. CASE Authenticate
    BY <1>1, <1>3 DEF Authenticate, HeaderLine, Members, Kept, Lists
<1>4. CASE Contact
    BY <1>1, <1>4 DEF Contact, HeaderLine, ReadContact, Members, Kept, Lists
<1>5. CASE To
    BY <1>1, <1>5 DEF To, HeaderLine, Members, Kept, Lists
<1>6. CASE KeptHeader
    BY <1>1, <1>6 DEF KeptHeader, Keep, HeaderLine, Members, Kept, Lists
<1>7. CASE ListHeader
    BY <1>1, <1>7 DEF ListHeader, HeaderLine, Members, Kept, Lists
<1>8. CASE ContentType
    BY <1>1, <1>8 DEF ContentType, HeaderLine, Members, Kept, Lists
<1>9. CASE ContentLength
    BY <1>1, <1>9 DEF ContentLength, HeaderLine, Members, Kept, Lists
<1>10. CASE OtherLine
    BY <1>1, <1>10 DEF OtherLine, FirstLine, HeaderLine, Members, Kept, Lists, KeptInBody
<1> QED
    BY <1>2, <1>3, <1>4, <1>5, <1>6, <1>7, <1>8, <1>9, <1>10 DEF ParseHeader

\* What a round of parse_body's loop changes of it.
LEMMA BodyRound ==
    ASSUME TextInv, ParseBody, ~EndOfBody
    PROVE  LET line == text[pos] IN
           /\ at = "body" /\ HasLine /\ line.name # "empty"
           /\ pos' = pos + 1 /\ UNCHANGED <<text, tail, at>>
           /\ m'.duration = IF line.name = "Duration"
                            THEN ReadNumber(line.value, m.duration, DurationModulus)
                            ELSE m.duration
           /\ m'.kept = m.kept /\ m'.status = m.status /\ m'.method = m.method
           /\ m'.expires = m.expires /\ m'.list = m.list
           /\ m'.contact = m.contact /\ m'.to_tag = m.to_tag
<1>1. m \in Members
    BY DEF TextInv, TypeOK
<1>2. CASE KeptBodyLine
    BY <1>1, <1>2 DEF KeptBodyLine, BodyLine, Members, KeptInBody
<1>3. CASE Duration
    BY <1>1, <1>3 DEF Duration, BodyLine, Members
<1>4. CASE OtherBodyLine
    BY <1>1, <1>4 DEF OtherBodyLine, BodyLine, Members
<1> QED
    BY <1>2, <1>3, <1>4 DEF ParseBody

LEMMA NamedGrows ==
    ASSUME NEW from \in Int, from <= pos, pos \in Int, NEW name
    PROVE  Named(from..pos, name) =
               Named(from..pos - 1, name) \union (IF text[pos].name = name THEN {pos} ELSE {})
<1>1. from..pos = (from..pos - 1) \union {pos}
    OBVIOUS
<1> QED
    BY <1>1 DEF Named

\* The line at pos is the last of those up to it.
LEMMA LastIsLast ==
    ASSUME NEW from \in Int, pos \in Int, NEW lines, lines \subseteq from..pos, pos \in lines
    PROVE  IsLast(pos, lines)
BY DEF IsLast

LEMMA HeaderGrows ==
    ASSUME TextInv, ParseHeader, ~EndOfHeader, ~HeaderUnended, HeaderTaken(1..pos - 1)
    PROVE  HeaderTaken(1..pos - 1)'
<1> DEFINE line == text[pos]
<1>1. /\ text' = text /\ pos' = pos + 1 /\ pos \in Int /\ 1 <= pos /\ pos' - 1 = pos
      /\ line \in Line
    BY HeaderRound, LineAtPos DEF TextInv
<1>2. ASSUME NEW name
      PROVE  Named(1..pos - 1, name)' =
                 Named(1..pos - 1, name) \union (IF line.name = name THEN {pos} ELSE {})
    <2>1. Named(1..pos - 1, name)' = Named(1..pos, name)
        BY <1>1 DEF Named
    <2> QED
        BY <1>1, <2>1, NamedGrows
<1>3. ASSUME NEW name, line.name = name
      PROVE  IsLast(pos, Named(1..pos - 1, name)')
    <2>1. Named(1..pos - 1, name)' \subseteq 1..pos
        BY <1>1 DEF Named
    <2>2. pos \in Named(1..pos - 1, name)'
        BY <1>2, <1>3
    <2> QED
        BY <1>1, <2>1, <2>2, LastIsLast
<1>4. ASSUME NEW name \in Kept
      PROVE  LET lines == Named(1..pos - 1, name)' IN
             \/ lines = {} /\ m'.kept[name] = NoText
             \/ \E i \in lines : IsLast(i, lines) /\ m'.kept[name] = text[i].value
    <2>1. m.kept \in [Kept -> Values]
        BY DEF TextInv, TypeOK, Members
    <2>2. CASE line.name = name
        <3>1. m'.kept[name] = line.value
            BY <2>1, <2>2, HeaderRound
        <3> QED
            BY <1>2, <1>3, <2>2, <3>1
    <2>3. CASE line.name # name
        <3>1. m'.kept[name] = m.kept[name]
            BY <2>1, <2>3, HeaderRound
        <3>2. Named(1..pos - 1, name)' = Named(1..pos - 1, name)
            BY <1>2, <2>3
        <3>3. LET lines == Named(1..pos - 1, name) IN
              \/ lines = {} /\ m.kept[name] = NoText
              \/ \E i \in lines : IsLast(i, lines) /\ m.kept[name] = text[i].value
            BY DEF HeaderTaken
        <3> QED
            BY <3>1, <3>2, <3>3
    <2> QED
        BY <2>2, <2>3
<1>5. LET lines == Named(1..pos - 1, "SIP/2.0")' IN
      \/ lines = {} /\ m'.status = UnknownStatus
      \/ \E i \in lines : IsLast(i, lines) /\ m'.status = ConvertStatus(text[i].value)
    <2>1. CASE line.name = "SIP/2.0"
        <3>1. m'.status = ConvertStatus(line.value)
            BY <2>1, HeaderRound
        <3> QED
            BY <1>2, <1>3, <2>1, <3>1
    <2>2. CASE line.name # "SIP/2.0"
        <3>1. m'.status = m.status
            BY <2>2, HeaderRound
        <3> QED
            BY <1>2, <2>2, <3>1 DEF HeaderTaken
    <2> QED
        BY <2>1, <2>2
<1>6. m'.method = IF 1 \in Named(1..pos - 1, "other")' THEN text[1].value ELSE Unknown
    <2>1. CASE pos = 1 /\ line.name = "other"
        <3>1. m'.method = ConvertMethod(line.value) /\ line.value \in Methods \union {Unknown}
            BY <1>1, <2>1, HeaderRound, LineFields
        <3>2. m'.method = line.value
            BY <3>1 DEF ConvertMethod
        <3> QED
            BY <1>2, <2>1, <3>2
    <2>2. CASE ~(pos = 1 /\ line.name = "other")
        <3>1. m'.method = m.method
            BY <2>2, HeaderRound
        <3>2. 1 \in Named(1..pos - 1, "other")' <=> 1 \in Named(1..pos - 1, "other")
            BY <1>2, <2>2
        <3> QED
            BY <3>1, <3>2 DEF HeaderTaken
    <2> QED
        BY <2>1, <2>2
<1> QED
    BY <1>1, <1>4, <1>5, <1>6 DEF HeaderTaken, Named, IsLast

LEMMA DurationGrows ==
    ASSUME TextInv, ParseBody, ~EndOfBody, NEW from \in Int, from <= pos,
           DurationTaken(from..pos - 1)
    PROVE  DurationTaken(from..pos - 1)'
<1> DEFINE line == text[pos]
           Durations(lines) == {i \in Named(lines, "Duration") : text[i].value >= 0}
           grown == {i \in Named(from..pos, "Duration") : text[i].value >= 0}
<1>1. /\ text' = text /\ pos' = pos + 1 /\ pos \in Int /\ pos' - 1 = pos
      /\ line \in Line
    BY BodyRound, LineAtPos DEF TextInv
<1>2. Durations(from..pos - 1)' = grown
    BY <1>1 DEF Named
<1>3. Named(from..pos, "Duration") =
          Named(from..pos - 1, "Duration") \union (IF line.name = "Duration" THEN {pos} ELSE {})
    BY <1>1, NamedGrows
<1>4. CASE line.name = "Duration" /\ line.value >= 0
    <2>1. line.value \in Int
        BY <1>1, <1>4, LineFields
    <2>2. m'.duration = ReadNumber(line.value, m.duration, DurationModulus)
        BY <1>4, BodyRound
    <2>3. line.value < DurationModulus => m'.duration = line.value
        BY <1>4, <2>1, <2>2, Constants DEF ReadNumber
    <2>4. pos \in grown /\ grown \subseteq from..pos
        BY <1>3, <1>4 DEF Named
    <2>5. IsLast(pos, grown)
        BY <1>1, <2>4, LastIsLast
    <2> QED
        BY <1>1, <1>2, <2>3, <2>4, <2>5 DEF DurationTaken
<1>5. CASE ~(line.name = "Duration" /\ line.value >= 0)
    <2>1. m'.duration = m.duration
        <3>1. CASE line.name = "Duration"
            <4>1. line.value \in Int
                BY <1>1, <3>1, LineFields
            <4> QED
                BY <1>5, <3>1, <4>1, BodyRound DEF ReadNumber
        <3> QED
            BY <3>1, BodyRound
    <2>2. grown = Durations(from..pos - 1)
        BY <1>3, <1>5
    <2> HIDE DEF grown, Durations
    <2>3. \/ Durations(from..pos - 1) = {} /\ m.duration = 0
          \/ \E i \in Durations(from..pos - 1) :
                 /\ IsLast(i, Durations(from..pos - 1))
                 /\ text[i].value < DurationModulus => m.duration = text[i].value
        BY DEF DurationTaken, Durations
    <2>4. \/ grown = {} /\ m'.duration = 0
          \/ \E i \in grown :
                 /\ IsLast(i, grown)
                 /\ text[i].value < DurationModulus => m'.duration = text[i].value
        BY <2>1, <2>2, <2>3
    <2> QED
        BY <1>1, <1>2, <2>4 DEF DurationTaken, Durations
<1> QED
    BY <1>4, <1>5

\* The lines of these places are none of them empty.
Filled(lines) == \A i \in lines : text[i].name # "empty"

TakenInv ==
    /\ at = "header" =>
           Filled(1..pos - 1) /\ HeaderTaken(1..pos - 1) /\ DurationTaken({})
    /\ at = "body" =>
           \E end \in 1..pos - 1 :
               /\ Filled(1..end - 1) /\ text[end].name = "empty" /\ HeaderTaken(1..end - 1)
               /\ Filled(end + 1..pos - 1) /\ DurationTaken(end + 1..pos - 1)
    /\ TakenAsSent

\* Header and Body are what the loops have gone through.
LEMMA HeaderIs ==
    ASSUME text \in Texts, NEW end \in 1..Len(text),
           Filled(1..end - 1), text[end].name = "empty"
    PROVE  Header = 1..end - 1
<1>1. DOMAIN text = 1..Len(text) /\ Len(text) \in Nat
    BY TextsAssumption, LenProperties
<1> QED
    BY <1>1 DEF Header, Filled

LEMMA BodyIs ==
    ASSUME text \in Texts, NEW end \in 1..Len(text), NEW next \in end + 1..Len(text) + 1,
           Filled(1..end - 1), text[end].name = "empty", Filled(end + 1..next - 1),
           next <= Len(text) => text[next].name = "empty"
    PROVE  Body = end + 1..next - 1
<1>1. DOMAIN text = 1..Len(text) /\ Len(text) \in Nat
    BY TextsAssumption, LenProperties
<1>2. Header = 1..end - 1
    BY HeaderIs
<1>3. ASSUME NEW e \in Nat
      PROVE  e - 1 \in Header \union {0} /\ e \notin Header /\ 1 <= e <=> e = end
    BY <1>1, <1>2
<1>4. \A i \in 1..Len(text) :
          i \in Body <=> end \in 1..i - 1 /\ \A j \in end + 1..i : text[j].name # "empty"
    BY <1>1, <1>3 DEF Body
<1>5. \A i \in end + 1..next - 1 : i \in Body
    BY <1>1, <1>4 DEF Filled
<1>6. \A i \in Body : i \in end + 1..next - 1
    <2>1. TAKE i \in Body
    <2>2. i \in 1..Len(text)
        BY <1>1 DEF Body
    <2> QED
        BY <1>1, <1>4, <2>2
<1> QED
    BY <1>5, <1>6

\* As long as the members they look at stay, so does what was taken.
LEMMA HeaderStays ==
    ASSUME text' = text, m'.kept = m.kept, m'.status = m.status, m'.method = m.method,
           NEW lines, HeaderTaken(lines)
    PROVE  HeaderTaken(lines)'
<1>1. \A name : Named(lines, name)' = Named(lines, name)
    BY DEF Named
<1>2. ASSUME NEW name \in Kept
      PROVE  \/ Named(lines, name) = {} /\ m'.kept[name] = NoText
             \/ \E i \in Named(lines, name) :
                    IsLast(i, Named(lines, name)) /\ m'.kept[name] = text'[i].value
    BY DEF HeaderTaken
<1>3. \/ Named(lines, "SIP/2.0") = {} /\ m'.status = UnknownStatus
      \/ \E i \in Named(lines, "SIP/2.0") :
             /\ IsLast(i, Named(lines, "SIP/2.0"))
             /\ m'.status = ConvertStatus(text'[i].value)
    BY DEF HeaderTaken
<1>4. m'.method = IF 1 \in Named(lines, "other") THEN text'[1].value ELSE Unknown
    BY DEF HeaderTaken
<1> QED
    BY <1>1, <1>2, <1>3, <1>4 DEF HeaderTaken

LEMMA DurationStays ==
    ASSUME text' = text, m'.duration = m.duration, NEW lines
    PROVE  DurationTaken(lines)' <=> DurationTaken(lines)
BY DEF DurationTaken, Named

LEMMA TakenStays ==
    ASSUME UNCHANGED <<text, m>>
    PROVE  /\ HeaderTaken(Header) => HeaderTaken(Header)'
           /\ DurationTaken(Body) => DurationTaken(Body)'
<1>1. Header' = Header /\ Body' = Body
    BY DEF Header, Body
<1>2. \A name : /\ Named(Header, name)' = Named(Header, name)
                /\ Named(Body, name)' = Named(Body, name)
    BY <1>1 DEF Named
<1>3. ASSUME HeaderTaken(Header)
      PROVE  HeaderTaken(Header)'
    <2>1. ASSUME NEW name \in Kept
          PROVE  \/ Named(Header, name) = {} /\ m.kept[name] = NoText
                 \/ \E i \in Named(Header, name) :
                        IsLast(i, Named(Header, name)) /\ m.kept[name] = text[i].value
        BY <1>3 DEF HeaderTaken
    <2>2. \/ Named(Header, "SIP/2.0") = {} /\ m.status = UnknownStatus
          \/ \E i \in Named(Header, "SIP/2.0") :
                 /\ IsLast(i, Named(Header, "SIP/2.0"))
                 /\ m.status = ConvertStatus(text[i].value)
        BY <1>3 DEF HeaderTaken
    <2>3. m.method = IF 1 \in Named(Header, "other") THEN text[1].value ELSE Unknown
        BY <1>3 DEF HeaderTaken
    <2> QED
        BY <1>2, <2>1, <2>2, <2>3 DEF HeaderTaken
<1>4. ASSUME DurationTaken(Body)
      PROVE  DurationTaken(Body)'
    BY <1>2, <1>4 DEF DurationTaken
<1> QED
    BY <1>3, <1>4

LEMMA TakenInit == MessageInit => TakenInv
<1> SUFFICES ASSUME MessageInit PROVE TakenInv
    OBVIOUS
<1>1. at = "header" /\ pos = 1 /\ m = Cleared
    BY DEF MessageInit, Init
<1>2. 1..pos - 1 = {} /\ Filled({})
    BY <1>1 DEF Filled
<1>3. HeaderTaken({})
    BY <1>1 DEF HeaderTaken, Named, Cleared
<1>4. DurationTaken({})
    BY <1>1 DEF DurationTaken, Named, Cleared
<1> QED
    BY <1>1, <1>2, <1>3, <1>4 DEF TakenInv, TakenAsSent

LEMMA TakenStep == TextInv /\ TakenInv /\ [Parse]_vars => TakenInv'
<1> SUFFICES ASSUME TextInv, TakenInv, [Parse]_vars PROVE TakenInv'
    OBVIOUS
<1>1. text \in Texts /\ TypeOK /\ Len(text) \in Nat /\ pos \in 1..Len(text) + 1
    BY TextsAssumption, LenProperties DEF TextInv, TypeOK
<1>2. CASE ParseHeader /\ ~EndOfHeader /\ ~HeaderUnended
    <2>1. /\ at = "header" /\ at' = "header" /\ text' = text /\ pos' = pos + 1
          /\ text[pos].name # "empty" /\ m'.duration = m.duration
        BY <1>2, HeaderRound
    <2>2. Filled(1..pos - 1)'
        BY <1>1, <2>1 DEF TakenInv, Filled
    <2>3. HeaderTaken(1..pos - 1)'
        BY <1>2, <2>1, HeaderGrows DEF TakenInv
    <2>4. DurationTaken({})'
        BY <2>1 DEF TakenInv, DurationTaken, Named
    <2> QED
        BY <2>1, <2>2, <2>3, <2>4 DEF TakenInv, TakenAsSent
<1>3. CASE EndOfHeader
    <2>1. /\ at = "header" /\ at' \in {"body", "parsed"} /\ UNCHANGED <<text, m>>
          /\ pos' = pos + 1 /\ pos \in 1..Len(text) /\ text[pos].name = "empty"
        BY <1>1, <1>3, LineAtPos DEF EndOfHeader, BodyFollows
    <2>2. Filled(1..pos - 1) /\ HeaderTaken(1..pos - 1) /\ DurationTaken({})
        BY <2>1 DEF TakenInv
    <2>3. CASE at' = "body"
        <3>1. pos + 1..pos' - 1 = {} /\ pos \in 1..pos' - 1
            BY <2>1
        <3>2. \A lines : /\ Filled(lines)' <=> Filled(lines)
                         /\ HeaderTaken(lines)' <=> HeaderTaken(lines)
                         /\ DurationTaken(lines)' <=> DurationTaken(lines)
            BY <2>1 DEF Filled, HeaderTaken, DurationTaken, Named
        <3> QED
            BY <2>1, <2>2, <2>3, <3>1, <3>2 DEF TakenInv, TakenAsSent, Filled
    <2>4. CASE at' = "parsed"
        <3>1. pos = Len(text)
            BY <1>3, <2>4 DEF EndOfHeader, BodyFollows
        <3>2. Header = 1..pos - 1 /\ Body = {}
            BY <1>1, <2>1, <2>2, <3>1, HeaderIs, BodyIs DEF Filled
        <3>3. HeaderTaken(Header) /\ DurationTaken(Body)
            BY <2>2, <3>2
        <3>4. HeaderTaken(Header)' /\ DurationTaken(Body)'
            BY <2>1, <3>3, TakenStays
        <3> QED
            BY <2>4, <3>4 DEF TakenInv, TakenAsSent
    <2> QED
        BY <2>1, <2>3, <2>4
<1>4. CASE HeaderUnended
    BY <1>4 DEF HeaderUnended, TakenInv, TakenAsSent
<1>5. CASE ParseBody /\ ~EndOfBody
    <2>1. /\ at = "body" /\ at' = "body" /\ text' = text /\ pos' = pos + 1
          /\ text[pos].name # "empty"
          /\ m'.kept = m.kept /\ m'.status = m.status /\ m'.method = m.method
        BY <1>5, BodyRound
    <2>2. PICK end \in 1..pos - 1 :
              /\ Filled(1..end - 1) /\ text[end].name = "empty" /\ HeaderTaken(1..end - 1)
              /\ Filled(end + 1..pos - 1) /\ DurationTaken(end + 1..pos - 1)
        BY <2>1 DEF TakenInv
    <2>3. HeaderTaken(1..end - 1)'
        BY <2>1, <2>2, HeaderStays
    <2>4. DurationTaken(end + 1..pos - 1)'
        BY <1>1, <1>5, <2>2, DurationGrows
    <2>5. Filled(1..end - 1)' /\ Filled(end + 1..pos - 1)' /\ end \in 1..pos' - 1
        BY <1>1, <2>1, <2>2 DEF Filled
    <2> QED
        BY <2>1, <2>2, <2>3, <2>4, <2>5 DEF TakenInv, TakenAsSent
<1>6. CASE EndOfBody
    <2>1. /\ at = "body" /\ at' = "parsed" /\ UNCHANGED <<text, m>>
          /\ pos <= Len(text) => text[pos].name = "empty"
        BY <1>6 DEF EndOfBody, HasLine
    <2>2. PICK end \in 1..pos - 1 :
              /\ Filled(1..end - 1) /\ text[end].name = "empty" /\ HeaderTaken(1..end - 1)
              /\ Filled(end + 1..pos - 1) /\ DurationTaken(end + 1..pos - 1)
        BY <2>1 DEF TakenInv
    <2>3. end \in 1..Len(text) /\ pos \in end + 1..Len(text) + 1
        BY <1>1
    <2>4. Header = 1..end - 1 /\ Body = end + 1..pos - 1
        BY <1>1, <2>1, <2>2, <2>3, HeaderIs, BodyIs
    <2>5. HeaderTaken(Header) /\ DurationTaken(Body)
        BY <2>2, <2>4
    <2>6. HeaderTaken(Header)' /\ DurationTaken(Body)'
        BY <2>1, <2>5, TakenStays
    <2> QED
        BY <2>1, <2>6 DEF TakenInv, TakenAsSent
<1>7. CASE UNCHANGED vars
    <2>1. UNCHANGED <<text, m, at, pos>>
        BY <1>7 DEF vars
    <2>2. TakenAsSent'
        BY <2>1, TakenStays DEF TakenInv, TakenAsSent
    <2>3. ASSUME at = "header"
          PROVE  (Filled(1..pos - 1) /\ HeaderTaken(1..pos - 1) /\ DurationTaken({}))'
        BY <2>1, <2>3, HeaderStays, DurationStays DEF TakenInv, Filled
    <2>4. ASSUME at = "body"
          PROVE  \E end \in 1..pos' - 1 :
                     (/\ Filled(1..end - 1) /\ text[end].name = "empty"
                      /\ HeaderTaken(1..end - 1)
                      /\ Filled(end + 1..pos - 1) /\ DurationTaken(end + 1..pos - 1))'
        BY <2>1, <2>4, HeaderStays, DurationStays DEF TakenInv, Filled
    <2> QED
        BY <2>1, <2>2, <2>3, <2>4 DEF TakenInv
<1> QED
    BY <1>2, <1>3, <1>4, <1>5, <1>6, <1>7 DEF Parse

\* What is read from a packet that is accepted is what its header says, whatever the
\* order of its lines, and the duration is what its body says.
THEOREM ReadAsSent == MessageFairSpec => []TakenAsSent
<1>1. TakenInv => TakenAsSent
    BY DEF TakenInv
<1> QED
    BY <1>1, TextInvInit, TextInvStep, TakenInit, TakenStep, MessageSteps, PTL
    DEF MessageFairSpec
-----------------------------------------------------------------------------
(* Renewal of the registration *)

\* Those of these lines that grant some time.
Grants(lines) == {i \in Contacts(lines) : text[i].expires >= 0}

\* The expiry is one that is granted, or there is none.
ExpiryTaken(lines) ==
    \/ Grants(lines) = {} /\ m.expires = 0
    \/ \E i \in Grants(lines) : m.expires = text[i].expires % ExpiresModulus

ExpiryInv ==
    /\ at = "header" => ExpiryTaken(1..pos - 1)
    /\ at \in {"body", "parsed"} => ExpiryTaken(Header)

LEMMA ExpiryStays ==
    ASSUME text' = text, m'.expires = m.expires
    PROVE  /\ \A lines : ExpiryTaken(lines)' <=> ExpiryTaken(lines)
           /\ ExpiryTaken(Header)' <=> ExpiryTaken(Header)
<1>1. Header' = Header
    BY DEF Header
<1>2. /\ \A lines : Grants(lines)' = Grants(lines)
      /\ Grants(Header)' = Grants(Header)
    BY <1>1 DEF Grants, Contacts, Named
<1> QED
    BY <1>2 DEF ExpiryTaken

LEMMA ExpiryGrows ==
    ASSUME TextInv, ParseHeader, ~EndOfHeader, ~HeaderUnended, ExpiryTaken(1..pos - 1)
    PROVE  ExpiryTaken(1..pos - 1)'
<1> DEFINE line == text[pos]
           new == line.name = "Contact" /\ line.uri # Absent /\ line.expires # Absent
<1>1. /\ text' = text /\ pos' = pos + 1 /\ pos \in Int /\ 1 <= pos /\ pos' - 1 = pos
      /\ line \in Line
    BY HeaderRound, LineAtPos DEF TextInv
<1>2. Grants(1..pos - 1)' = Grants(1..pos)
    BY <1>1 DEF Grants, Contacts, Named
<1>3. Named(1..pos, "Contact") =
          Named(1..pos - 1, "Contact") \union (IF line.name = "Contact" THEN {pos} ELSE {})
    BY <1>1, NamedGrows
<1>4. m'.expires = IF new THEN ReadNumber(line.expires, m.expires, ExpiresModulus)
                   ELSE m.expires
    BY HeaderRound
<1>5. CASE new /\ line.expires >= 0
    <2>1. line.expires \in Int
        BY <1>1, <1>5, LineFields
    <2>2. m'.expires = line.expires % ExpiresModulus
        BY <1>4, <1>5, <2>1 DEF ReadNumber
    <2>3. pos \in Grants(1..pos)
        BY <1>3, <1>5 DEF Grants, Contacts
    <2> QED
        BY <1>1, <1>2, <2>2, <2>3 DEF ExpiryTaken
<1>6. CASE ~(new /\ line.expires >= 0)
    <2>1. m'.expires = m.expires
        <3>1. CASE new
            <4>1. line.expires \in Int
                BY <1>1, <3>1, LineFields
            <4> QED
                BY <1>4, <1>6, <3>1, <4>1 DEF ReadNumber
        <3> QED
            BY <1>4, <3>1
    <2>2. Grants(1..pos) = Grants(1..pos - 1)
        BY <1>3, <1>6 DEF Grants, Contacts
    <2> QED
        BY <1>1, <1>2, <2>1, <2>2 DEF ExpiryTaken
<1> QED
    BY <1>5, <1>6

LEMMA ExpiryInit == MessageInit => ExpiryInv
<1> SUFFICES ASSUME MessageInit PROVE ExpiryInv
    OBVIOUS
<1>1. at = "header" /\ pos = 1 /\ m.expires = 0
    BY DEF MessageInit, Init, Cleared
<1>2. Grants(1..pos - 1) = {}
    BY <1>1 DEF Grants, Contacts, Named
<1> QED
    BY <1>1, <1>2 DEF ExpiryInv, ExpiryTaken

LEMMA ExpiryStep == TextInv /\ TakenInv /\ ExpiryInv /\ [Parse]_vars => ExpiryInv'
<1> SUFFICES ASSUME TextInv, TakenInv, ExpiryInv, [Parse]_vars PROVE ExpiryInv'
    OBVIOUS
<1>1. CASE ParseHeader /\ ~EndOfHeader /\ ~HeaderUnended
    BY <1>1, HeaderRound, ExpiryGrows DEF ExpiryInv
<1>2. CASE EndOfHeader
    <2>1. /\ at = "header" /\ at' \in {"body", "parsed"} /\ UNCHANGED <<text, m>>
          /\ text \in Texts /\ pos \in 1..Len(text) /\ text[pos].name = "empty"
        BY <1>2, LineAtPos DEF EndOfHeader, BodyFollows, TextInv
    <2>2. Header = 1..pos - 1
        BY <2>1, HeaderIs DEF TakenInv
    <2>3. ExpiryTaken(Header)
        BY <2>1, <2>2 DEF ExpiryInv
    <2> QED
        BY <2>1, <2>3, ExpiryStays DEF ExpiryInv
<1>3. CASE HeaderUnended
    BY <1>3 DEF HeaderUnended, ExpiryInv
<1>4. CASE ParseBody /\ ~EndOfBody
    BY <1>4, BodyRound, ExpiryStays DEF ExpiryInv
<1>5. CASE EndOfBody
    BY <1>5, ExpiryStays DEF EndOfBody, ExpiryInv
<1>6. CASE UNCHANGED vars
    BY <1>6, ExpiryStays DEF vars, ExpiryInv
<1> QED
    BY <1>1, <1>2, <1>3, <1>4, <1>5, <1>6 DEF Parse

\* The client renews its registration before it ends, whatever else the packet holds
\* and wherever its Contact lines stand, if they agree on ten seconds or more; and
\* whatever they say, it waits five seconds at least.
THEOREM RenewsInTime == MessageFairSpec => []RenewedInTime
<1>1. TextInv /\ ExpiryInv => RenewedInTime
    <2> SUFFICES ASSUME TextInv, ExpiryInv, at = "parsed" PROVE RenewedInTime
        BY DEF RenewedInTime
    <2>1. ASSUME NEW granted \in {text[i].expires : i \in Contacts(Header)},
                 granted \in 10..ExpiresModulus - 1,
                 \A i \in Contacts(Header) : text[i].expires = granted
          PROVE  RenewalDelay(m.expires) < granted
        <3>1. granted \in Nat /\ granted >= 10 /\ granted < ExpiresModulus
            BY <2>1, Constants
        <3>2. Grants(Header) = Contacts(Header) /\ Contacts(Header) # {}
            BY <2>1, <3>1 DEF Grants
        <3>3. m.expires = granted % ExpiresModulus
            BY <2>1, <3>2 DEF ExpiryInv, ExpiryTaken
        <3>4. m.expires = granted
            BY <3>1, <3>3, Constants
        <3> QED
            BY <3>1, <3>4 DEF RenewalDelay
    <2>2. RenewalDelay(m.expires) >= 5
        <3>1. m.expires \in Nat
            BY Constants DEF TextInv, TypeOK, Members
        <3> QED
            BY <3>1 DEF RenewalDelay, HalfAnHour
    <2> QED
        BY <2>1, <2>2 DEF RenewedInTime
<1> QED
    BY <1>1, TextInvInit, TextInvStep, TakenInit, TakenStep, ExpiryInit, ExpiryStep,
       MessageSteps, PTL DEF MessageFairSpec
-----------------------------------------------------------------------------
(* The lists *)

Listed(name, lines) == {i \in Named(lines, name) : text[i].value # NoText}
Rank(i, places) == Cardinality({j \in places : j <= i})

\* The list holds the first values of these places.
HoldsThese(list, places) ==
    /\ Len(list) = Lesser(Cardinality(places), ListLength)
    /\ \A i \in places : Rank(i, places) <= ListLength => list[Rank(i, places)] = text[i].value

LEMMA HoldsFirstIs ==
    ASSUME NEW list, NEW name, NEW lines
    PROVE  HoldsFirst(list, name, lines) <=> HoldsThese(list, Listed(name, lines))
BY DEF HoldsFirst, HoldsThese, Listed, Rank

\* A place behind the others leaves their ranks, and comes last.
LEMMA RanksStay ==
    ASSUME NEW next \in Nat, NEW places, places \subseteq 1..next - 1
    PROVE  /\ Cardinality(places) \in Nat
           /\ Cardinality(places \union {next}) = Cardinality(places) + 1
           /\ Rank(next, places \union {next}) = Cardinality(places) + 1
           /\ \A i \in places :
                  /\ Rank(i, places \union {next}) = Rank(i, places)
                  /\ Rank(i, places) \in Nat /\ 1 <= Rank(i, places)
                  /\ Rank(i, places) <= Cardinality(places)
<1>0. \A i \in places : i \in Nat /\ i < next
    OBVIOUS
<1>1. IsFiniteSet(places) /\ next \notin places
    <2>1. IsFiniteSet(1..next - 1)
        BY FS_Interval
    <2>2. IsFiniteSet(places)
        BY <2>1, FS_Subset
    <2> QED
        BY <1>0, <2>2
<1>2. Cardinality(places) \in Nat /\ Cardinality(places \union {next}) = Cardinality(places) + 1
    BY <1>1, FS_AddElement, FS_CardinalityType
<1>3. {j \in places \union {next} : j <= next} = places \union {next}
    <2>1. \A j \in places \union {next} : j <= next
        BY <1>0
    <2> QED
        BY <2>1
<1>4. ASSUME NEW i \in places
      PROVE  /\ Rank(i, places \union {next}) = Rank(i, places)
             /\ Rank(i, places) \in Nat /\ 1 <= Rank(i, places)
             /\ Rank(i, places) <= Cardinality(places)
    <2>1. {j \in places \union {next} : j <= i} = {j \in places : j <= i}
        BY <1>0
    <2>2. /\ IsFiniteSet({j \in places : j <= i})
          /\ Cardinality({j \in places : j <= i}) <= Cardinality(places)
        BY <1>1, FS_Subset
    <2>3. {j \in places : j <= i} # {}
        BY <1>0
    <2>4. /\ Cardinality({j \in places : j <= i}) \in Nat
          /\ Cardinality({j \in places : j <= i}) # 0
        BY <2>2, <2>3, FS_CardinalityType, FS_EmptySet
    <2> QED
        BY <2>1, <2>2, <2>4 DEF Rank
<1> QED
    BY <1>2, <1>3, <1>4 DEF Rank

LEMMA HoldsGrows ==
    ASSUME NEW next \in Nat, NEW places, places \subseteq 1..next - 1,
           NEW list \in Seq(Values \ {NoText}), HoldsThese(list, places),
           text[next].value \in Values \ {NoText}
    PROVE  HoldsThese(AppendTo(list, text[next].value), places \union {next})
<1> DEFINE value == text[next].value
           grown == AppendTo(list, value)
<1> HIDE DEF grown
<1>1. Len(list) \in Nat /\ Len(list) = Lesser(Cardinality(places), ListLength)
    BY LenProperties DEF HoldsThese
<1>2. /\ Cardinality(places) \in Nat
      /\ Cardinality(places \union {next}) = Cardinality(places) + 1
      /\ Rank(next, places \union {next}) = Cardinality(places) + 1
      /\ \A i \in places :
             /\ Rank(i, places \union {next}) = Rank(i, places)
             /\ Rank(i, places) \in Nat /\ 1 <= Rank(i, places)
             /\ Rank(i, places) <= Cardinality(places)
    BY RanksStay
<1>3. CASE Len(list) < ListLength
    <2>1. grown = Append(list, value)
        BY <1>3 DEF AppendTo, grown
    <2>2. /\ Len(grown) = Len(list) + 1 /\ grown[Len(list) + 1] = value
          /\ \A k \in 1..Len(list) : grown[k] = list[k]
        BY <2>1, AppendProperties
    <2>3. Len(list) = Cardinality(places)
        BY <1>1, <1>2, <1>3, Constants DEF Lesser
    <2>4. Len(grown) = Lesser(Cardinality(places \union {next}), ListLength)
        BY <1>2, <1>3, <2>2, <2>3, Constants DEF Lesser
    <2>5. ASSUME NEW i \in places
          PROVE  grown[Rank(i, places \union {next})] = text[i].value
        <3>1. /\ Rank(i, places \union {next}) = Rank(i, places)
              /\ Rank(i, places) \in Nat /\ 1 <= Rank(i, places)
              /\ Rank(i, places) <= Len(list)
            BY <1>2, <2>3
        <3>2. Rank(i, places) \in 1..Len(list) /\ Rank(i, places) <= ListLength
            BY <1>1, <1>3, <3>1, Constants
        <3>3. list[Rank(i, places)] = text[i].value
            BY <3>2 DEF HoldsThese
        <3> QED
            BY <2>2, <3>1, <3>2, <3>3
    <2>6. grown[Rank(next, places \union {next})] = value
        <3>1. Rank(next, places \union {next}) = Len(list) + 1
            BY <1>2, <2>3
        <3> QED
            BY <2>2, <3>1
    <2> QED
        BY <2>4, <2>5, <2>6 DEF HoldsThese, grown
<1>4. CASE ~(Len(list) < ListLength)
    <2>1. grown = list
        BY <1>4 DEF AppendTo, grown
    <2>2. Cardinality(places) >= ListLength /\ Len(list) = ListLength
        BY <1>1, <1>2, <1>4, Constants DEF Lesser
    <2>3. Len(list) = Lesser(Cardinality(places \union {next}), ListLength)
        BY <1>2, <2>2, Constants DEF Lesser
    <2>4. ASSUME NEW i \in places, Rank(i, places \union {next}) <= ListLength
          PROVE  list[Rank(i, places \union {next})] = text[i].value
        BY <1>2, <2>4 DEF HoldsThese
    <2>5. ~(Rank(next, places \union {next}) <= ListLength)
        BY <1>2, <2>2, Constants
    <2> QED
        BY <2>1, <2>3, <2>4, <2>5 DEF HoldsThese, grown
<1> QED
    BY <1>3, <1>4

ListsInv ==
    /\ at = "header" => \A name \in Lists : HoldsFirst(m.list[name], name, 1..pos - 1)
    /\ at \in {"body", "parsed"} => \A name \in Lists : HoldsFirst(m.list[name], name, Header)

LEMMA ListsStay ==
    ASSUME text' = text
    PROVE  /\ \A list, name, lines : HoldsFirst(list, name, lines)' <=> HoldsFirst(list, name, lines)
           /\ \A list, name : HoldsFirst(list, name, Header)' <=> HoldsFirst(list, name, Header)
<1>1. Header' = Header
    BY DEF Header
<1>2. \A name : /\ \A lines : Named(lines, name)' = Named(lines, name)
                /\ Named(Header, name)' = Named(Header, name)
    BY <1>1 DEF Named
<1> QED
    BY <1>2 DEF HoldsFirst

LEMMA ListsGrow ==
    ASSUME TextInv, ParseHeader, ~EndOfHeader, ~HeaderUnended,
           NEW name \in Lists, HoldsFirst(m.list[name], name, 1..pos - 1)
    PROVE  HoldsFirst(m'.list[name], name, 1..pos)
<1> DEFINE line == text[pos]
           places == Listed(name, 1..pos - 1)
<1>1. pos \in Nat /\ 1 <= pos /\ line \in Line
    BY HeaderRound, LineAtPos DEF TextInv
<1>2. places \subseteq 1..pos - 1
    BY DEF Listed, Named
<1>3. HoldsThese(m.list[name], places)
    BY HoldsFirstIs
<1>4. m.list \in [Lists -> Seq(Values \ {NoText})]
    BY DEF TextInv, TypeOK, Members
<1>5. Named(1..pos, name) =
          Named(1..pos - 1, name) \union (IF line.name = name THEN {pos} ELSE {})
    BY <1>1, NamedGrows
<1>6. CASE line.name = name /\ line.value # NoText
    <2>1. line.value \in Values \ {NoText}
        BY <1>1, <1>6, LineFields
    <2>2. m'.list[name] = AppendTo(m.list[name], line.value)
        BY <1>4, <1>6, HeaderRound
    <2>3. Listed(name, 1..pos) = places \union {pos}
        BY <1>5, <1>6 DEF Listed
    <2> HIDE DEF places
    <2>4. HoldsThese(AppendTo(m.list[name], line.value), places \union {pos})
        BY <1>1, <1>2, <1>3, <1>4, <2>1, HoldsGrows
    <2> QED
        BY <2>2, <2>3, <2>4, HoldsFirstIs
<1>7. CASE ~(line.name = name /\ line.value # NoText)
    <2>1. m'.list[name] = m.list[name]
        BY <1>4, <1>7, HeaderRound DEF AppendTo
    <2>2. Listed(name, 1..pos) = places
        BY <1>5, <1>7 DEF Listed
    <2> QED
        BY <1>3, <2>1, <2>2, HoldsFirstIs
<1> QED
    BY <1>6, <1>7

LEMMA ListsInit == MessageInit => ListsInv
<1> SUFFICES ASSUME MessageInit PROVE ListsInv
    OBVIOUS
<1>1. at = "header" /\ pos = 1 /\ \A name \in Lists : m.list[name] = <<>>
    BY DEF MessageInit, Init, Cleared
<1>2. \A name \in Lists : Listed(name, 1..pos - 1) = {}
    BY <1>1 DEF Listed, Named
<1>3. HoldsThese(<<>>, {})
    BY FS_EmptySet, EmptySeq, Constants DEF HoldsThese, Lesser
<1> QED
    BY <1>1, <1>2, <1>3, HoldsFirstIs DEF ListsInv

LEMMA ListsStep == TextInv /\ TakenInv /\ ListsInv /\ [Parse]_vars => ListsInv'
<1> SUFFICES ASSUME TextInv, TakenInv, ListsInv, [Parse]_vars PROVE ListsInv'
    OBVIOUS
<1>1. CASE ParseHeader /\ ~EndOfHeader /\ ~HeaderUnended
    <2>1. /\ at = "header" /\ at' = "header" /\ text' = text
          /\ pos' - 1 = pos
        BY <1>1, HeaderRound, LineAtPos DEF TextInv
    <2>2. \A name \in Lists : HoldsFirst(m'.list[name], name, 1..pos)
        BY <1>1, <2>1, ListsGrow DEF ListsInv
    <2>3. \A name \in Lists : HoldsFirst(m.list[name], name, 1..pos - 1)'
        BY <2>1, <2>2 DEF HoldsFirst, Named
    <2> QED
        BY <2>1, <2>3 DEF ListsInv
<1>2. CASE EndOfHeader
    <2>1. /\ at = "header" /\ at' \in {"body", "parsed"} /\ UNCHANGED <<text, m>>
          /\ text \in Texts /\ pos \in 1..Len(text) /\ text[pos].name = "empty"
        BY <1>2, LineAtPos DEF EndOfHeader, BodyFollows, TextInv
    <2>2. Header = 1..pos - 1
        BY <2>1, HeaderIs DEF TakenInv
    <2>3. \A name \in Lists : HoldsFirst(m.list[name], name, Header)
        BY <2>1, <2>2 DEF ListsInv
    <2> QED
        BY <2>1, <2>3, ListsStay DEF ListsInv
<1>3. CASE HeaderUnended
    BY <1>3 DEF HeaderUnended, ListsInv
<1>4. CASE ParseBody /\ ~EndOfBody
    BY <1>4, BodyRound, ListsStay DEF ListsInv
<1>5. CASE EndOfBody
    BY <1>5, ListsStay DEF EndOfBody, ListsInv
<1>6. CASE UNCHANGED vars
    BY <1>6, ListsStay DEF vars, ListsInv
<1> QED
    BY <1>1, <1>2, <1>3, <1>4, <1>5, <1>6 DEF Parse
-----------------------------------------------------------------------------
(* The Buffer *)

Least(S, least) == least \in S /\ \A n \in S : least <= n

LEMMA LeastExists ==
    ASSUME NEW S, S \subseteq Nat, S # {}
    PROVE  \E least : Least(S, least)
<1>1. PICK least \in S : \A n \in S : ~(<<n, least>> \in OpToRel(<, Nat))
    BY NatLessThanWellFounded, WFMin, Zenon
<1>2. \A n \in S : least <= n
    <2>1. TAKE n \in S
    <2>2. n \in Nat /\ least \in Nat
        OBVIOUS
    <2>3. <<n, least>> \notin OpToRel(<, Nat)
        BY <1>1
    <2> QED
        BY <2>2, <2>3 DEF OpToRel
<1> QED
    BY <1>2 DEF Least

\* What the buffer holds after each piece, f, determines what it holds in the end.
LEMMA WrittenIs ==
    ASSUME NEW pieces, Len(pieces) \in Nat, NEW f,
           f = [n \in 0..Len(pieces) |-> IF n = 0 THEN <<>> ELSE Put(f[n - 1], pieces[n])]
    PROVE  Written(pieces) = f[Len(pieces)]
<1> DEFINE After(g) == [n \in 0..Len(pieces) |-> IF n = 0 THEN <<>> ELSE Put(g[n - 1], pieces[n])]
           content == CHOOSE g : g = After(g)
<1>1. f = After(f)
    OBVIOUS
<1>2. content = After(content)
    BY <1>1
<1>3. Written(pieces) = content[Len(pieces)]
    BY DEF Written
<1> HIDE DEF content
<1>4. ASSUME {n \in 0..Len(pieces) : content[n] # f[n]} # {} PROVE FALSE
    <2> DEFINE S == {n \in 0..Len(pieces) : content[n] # f[n]}
    <2>1. PICK least : Least(S, least)
        BY <1>4, LeastExists
    <2>2. least \in 0..Len(pieces) /\ content[least] # f[least]
        BY <2>1 DEF Least
    <2>3. least # 0
        BY <1>1, <1>2, <2>2
    <2>4. least - 1 \in 0..Len(pieces) /\ ~(least <= least - 1)
        BY <2>2, <2>3
    <2>5. content[least - 1] = f[least - 1]
        BY <2>1, <2>4 DEF Least
    <2>6. /\ content[least] = Put(content[least - 1], pieces[least])
          /\ f[least] = Put(f[least - 1], pieces[least])
        BY <1>1, <1>2, <2>2, <2>3
    <2> QED
        BY <2>2, <2>5, <2>6
<1> QED
    BY <1>3, <1>4

Room == TxSize - 1

LEMMA RoomIsNat == Room \in Nat /\ TxSize = Room + 1
<1>1. TxSize \in Nat \ {0}
    BY SipMessageAssumption
<1> QED
    BY <1>1 DEF Room

\* The beginning of a message that fits.
Beginning(message, n) == SubSeq(message, 1, Lesser(Room, n))

LEMMA BeginningIs ==
    ASSUME NEW S, NEW message \in Seq(S), NEW n \in 0..Len(message)
    PROVE  /\ Beginning(message, n) \in Seq(S)
           /\ Len(Beginning(message, n)) = Lesser(Room, n)
           /\ \A i \in 1..Lesser(Room, n) : Beginning(message, n)[i] = message[i]
<1> DEFINE last == Lesser(Room, n)
<1>1. Len(message) \in Nat /\ \A i \in 1..Len(message) : message[i] \in S
    BY LenProperties
<1>2. last \in Nat /\ last <= n /\ last <= Len(message)
    BY <1>1, RoomIsNat DEF Lesser
<1> HIDE DEF last
<1>3. \A i \in 1..last : message[i] \in S
    BY <1>1, <1>2
<1>4. /\ SubSeq(message, 1, last) \in Seq(S)
      /\ Len(SubSeq(message, 1, last)) = (IF 1 <= last THEN last - 1 + 1 ELSE 0)
      /\ \A i \in 1..last - 1 + 1 : SubSeq(message, 1, last)[i] = message[1 + i - 1]
    BY <1>2, <1>3, SubSeqProperties
<1>5. last - 1 + 1 = last /\ \A i \in 1..last : 1 + i - 1 = i
    BY <1>2
<1>6. Len(SubSeq(message, 1, last)) = last
    BY <1>2, <1>4
<1>7. \A i \in 1..last : SubSeq(message, 1, last)[i] = message[i]
    BY <1>4, <1>5
<1> QED
    BY <1>4, <1>6, <1>7 DEF Beginning, last

\* A piece of the message put behind the beginning that fits gives the beginning of
\* the longer message that fits.
LEMMA PutGrows ==
    ASSUME NEW S, NEW message \in Seq(S), NEW a \in 0..Len(message), NEW b \in a..Len(message),
           NEW piece \in Seq(S), Len(piece) = b - a,
           \A i \in 1..b - a : piece[i] = message[a + i]
    PROVE  Put(Beginning(message, a), piece) = Beginning(message, b)
<1> DEFINE head == Beginning(message, a)
           whole == head \o piece
           cut == SubSeq(whole, 1, TxSize - 1)
<1>0. /\ Len(message) \in Nat /\ Room \in Nat /\ a \in Nat /\ b \in Nat
      /\ a <= b /\ b <= Len(message) /\ TxSize = Room + 1
    BY LenProperties, RoomIsNat
<1>1. /\ head \in Seq(S) /\ Len(head) = Lesser(Room, a)
      /\ \A i \in 1..Lesser(Room, a) : head[i] = message[i]
    BY BeginningIs
<1>2. /\ Beginning(message, b) \in Seq(S) /\ Len(Beginning(message, b)) = Lesser(Room, b)
      /\ \A i \in 1..Lesser(Room, b) : Beginning(message, b)[i] = message[i]
    BY <1>0, BeginningIs
<1> HIDE DEF head
<1>3. /\ whole \in Seq(S) /\ Len(whole) = Lesser(Room, a) + (b - a)
      /\ \A i \in 1..Lesser(Room, a) + (b - a) :
             whole[i] = IF i <= Lesser(Room, a) THEN head[i] ELSE piece[i - Lesser(Room, a)]
    BY <1>1, ConcatProperties
<1> HIDE DEF whole
<1>4. \A i \in 1..Lesser(Room, b) : whole[i] = message[i]
    <2> SUFFICES ASSUME NEW i \in 1..Lesser(Room, b) PROVE whole[i] = message[i]
        OBVIOUS
    <2>1. CASE i <= Lesser(Room, a)
        <3>1. i \in 1..Lesser(Room, a) /\ i \in 1..Lesser(Room, a) + (b - a)
            BY <1>0, <2>1 DEF Lesser
        <3> QED
            BY <1>1, <1>3, <2>1, <3>1
    <2>2. CASE ~(i <= Lesser(Room, a))
        <3>1. /\ Lesser(Room, a) = a /\ i \in Nat
              /\ i - a \in 1..b - a /\ a + (i - a) = i
              /\ i \in 1..Lesser(Room, a) + (b - a)
            BY <1>0, <2>2 DEF Lesser
        <3>2. whole[i] = piece[i - a]
            BY <1>3, <2>2, <3>1
        <3>3. piece[i - a] = message[i]
            BY <3>1
        <3> QED
            BY <3>2, <3>3
    <2> QED
        BY <2>1, <2>2
<1>5. CASE Len(whole) < TxSize
    <2>1. Len(whole) = Lesser(Room, b)
        BY <1>0, <1>3, <1>5 DEF Lesser
    <2>2. whole = Beginning(message, b)
        BY <1>2, <1>3, <1>4, <2>1, SeqEqual
    <2> QED
        BY <1>5, <2>2 DEF Put, whole, head
<1>6. CASE ~(Len(whole) < TxSize)
    <2>1. Lesser(Room, b) = Room /\ Room <= Len(whole)
        BY <1>0, <1>3, <1>6 DEF Lesser
    <2>2. whole \in Seq(S) /\ Room \in 0..Len(whole) /\ Len(whole) \in Nat
        BY <1>0, <1>3, <2>1, LenProperties
    <2>3. \A i \in 1..Room : whole[i] \in S
        BY <2>2, ElementOfSeq
    <2>4. /\ cut \in Seq(S) /\ Len(cut) = Room /\ \A i \in 1..Room : cut[i] = whole[i]
        <3>1. cut = SubSeq(whole, 1, Room)
            BY <1>0
        <3>2. /\ cut \in Seq(S)
              /\ Len(cut) = (IF 1 <= Room THEN Room - 1 + 1 ELSE 0)
              /\ \A i \in 1..Room - 1 + 1 : cut[i] = whole[1 + i - 1]
            BY <1>0, <2>3, <3>1, SubSeqProperties
        <3>3. Room - 1 + 1 = Room /\ \A i \in 1..Room : 1 + i - 1 = i
            BY <1>0
        <3> HIDE DEF cut
        <3>4. Len(cut) = Room
            BY <1>0, <3>2
        <3>5. \A i \in 1..Room : cut[i] = whole[i]
            BY <3>2, <3>3
        <3> QED
            BY <3>2, <3>4, <3>5
    <2> HIDE DEF cut
    <2>5. cut = Beginning(message, b)
        BY <1>2, <1>4, <2>1, <2>4, SeqEqual
    <2> QED
        BY <1>6, <2>5 DEF Put, whole, head, cut
<1> QED
    BY <1>5, <1>6

LEMMA Halves ==
    ASSUME NEW k \in Int
    PROVE  /\ (2 * k - 1 + 1) \div 2 = k /\ (2 * k - 1) % 2 = 1
           /\ (2 * k + 1) \div 2 = k /\ (2 * k) % 2 = 0
OBVIOUS

LEMMA WholeIs ==
    ASSUME NEW S, {"end", "0", "Content-Length"} \subseteq S, NEW lines \in Seq(S \X S)
    PROVE  LET all == Append(lines, NoBody)
               message == Whole(lines)
           IN  /\ all \in Seq(S \X S) /\ Len(all) = Len(lines) + 1 /\ Len(all) \in Nat
               /\ message \in Seq(S) /\ Len(message) = 2 * Len(all) + 1
               /\ \A k \in 1..Len(all) :
                      message[2 * k - 1] = all[k][1] /\ message[2 * k] = all[k][2]
               /\ message[2 * Len(all) + 1] = "end"
<1> DEFINE all == Append(lines, NoBody)
           message == Whole(lines)
<1>1. NoBody \in S \X S
    BY DEF NoBody
<1>2. /\ all \in Seq(S \X S) /\ Len(all) = Len(lines) + 1
      /\ Len(all) \in Nat
    BY <1>1, AppendProperties, LenProperties
<1> HIDE DEF all
<1>3. \A k \in 1..Len(all) : all[k] \in S \X S
    BY <1>2, ElementOfSeq
<1>4. message = [j \in 1..2 * Len(all) + 1 |->
            IF j > 2 * Len(all) THEN "end" ELSE all[(j + 1) \div 2][2 - (j % 2)]]
    BY DEF Whole, all
<1>5. ASSUME NEW j \in 1..2 * Len(all) + 1
      PROVE  (IF j > 2 * Len(all) THEN "end" ELSE all[(j + 1) \div 2][2 - (j % 2)]) \in S
    <2>1. CASE j > 2 * Len(all)
        BY <2>1
    <2>2. CASE ~(j > 2 * Len(all))
        <3>1. (j + 1) \div 2 \in 1..Len(all) /\ 2 - (j % 2) \in 1..2
            BY <1>2, <2>2
        <3>2. \A pair \in S \X S : pair[1] \in S /\ pair[2] \in S
            OBVIOUS
        <3>3. all[(j + 1) \div 2] \in S \X S
            BY <1>3, <3>1
        <3>4. 2 - (j % 2) = 1 \/ 2 - (j % 2) = 2
            BY <3>1
        <3> QED
            BY <2>2, <3>2, <3>3, <3>4
    <2> QED
        BY <2>1, <2>2
<1> DEFINE length == 2 * Len(all) + 1
<1>6. length \in Nat
    BY <1>2
<1>7. message \in [1..length -> S]
    BY <1>4, <1>5
<1>8. message \in Seq(S) /\ Len(message) = length
    <2> HIDE DEF message, length
    <2> QED
        BY <1>6, <1>7
<1>9. ASSUME NEW k \in 1..Len(all)
      PROVE  message[2 * k - 1] = all[k][1] /\ message[2 * k] = all[k][2]
    <2>1. /\ k \in Int /\ 2 * k - 1 \in 1..length /\ 2 * k \in 1..length
          /\ ~(2 * k - 1 > 2 * Len(all)) /\ ~(2 * k > 2 * Len(all))
        BY <1>2
    <2>2. /\ message[2 * k - 1] = all[(2 * k - 1 + 1) \div 2][2 - ((2 * k - 1) % 2)]
          /\ message[2 * k] = all[(2 * k + 1) \div 2][2 - ((2 * k) % 2)]
        BY <1>4, <2>1
    <2>3. 2 - 1 = 1 /\ 2 - 0 = 2
        OBVIOUS
    <2> QED
        BY <2>1, <2>2, <2>3, Halves
<1>10. message[2 * Len(all) + 1] = "end"
    <2>1. 2 * Len(all) + 1 \in 1..2 * Len(all) + 1 /\ 2 * Len(all) + 1 > 2 * Len(all)
        BY <1>2
    <2> QED
        BY <1>4, <2>1
<1> QED
    BY <1>2, <1>8, <1>9, <1>10 DEF all

LEMMA WrittenIsWhole ==
    ASSUME NEW S, {"end", "0", "Content-Length"} \subseteq S, NEW lines \in Seq(S \X S)
    PROVE  Written(Append(Append(lines, NoBody), End)) =
               Beginning(Whole(lines), Len(Whole(lines)))
<1> DEFINE all == Append(lines, NoBody)
           message == Whole(lines)
           pieces == Append(all, End)
           places(n) == IF n <= Len(all) THEN 2 * n ELSE 2 * Len(all) + 1
           f == [n \in 0..Len(pieces) |-> Beginning(message, places(n))]
<1>1. /\ all \in Seq(S \X S) /\ Len(all) \in Nat
      /\ message \in Seq(S) /\ Len(message) = 2 * Len(all) + 1
      /\ \A k \in 1..Len(all) :
             message[2 * k - 1] = all[k][1] /\ message[2 * k] = all[k][2]
      /\ message[2 * Len(all) + 1] = "end"
    BY WholeIs
<1> HIDE DEF all, message
<1>2. /\ Len(pieces) = Len(all) + 1 /\ pieces[Len(all) + 1] = End
      /\ \A n \in 1..Len(all) : pieces[n] = all[n]
    <2> DEFINE T == (S \X S) \union {End}
    <2>1. all \in Seq(T) /\ End \in T
        BY <1>1, SeqMonotonic
    <2> HIDE DEF T
    <2> QED
        BY <2>1, AppendProperties
<1>3. \A n \in 1..Len(all) : all[n] \in S \X S
    BY <1>1, ElementOfSeq
<1> HIDE DEF pieces
<1>4. ASSUME NEW n \in 1..Len(pieces)
      PROVE  Put(Beginning(message, places(n - 1)), pieces[n]) = Beginning(message, places(n))
    <2> DEFINE from == places(n - 1)
               to == places(n)
    <2>1. CASE n <= Len(all)
        <3> DEFINE pair == all[n]
        <3>1. /\ from = 2 * n - 2 /\ to = 2 * n /\ n \in 1..Len(all)
              /\ from \in 0..Len(message) /\ to \in from..Len(message) /\ to - from = 2
            BY <1>1, <2>1
        <3>2. pair \in S \X S /\ pieces[n] = pair
            BY <1>2, <1>3, <3>1
        <3>3. /\ pair \in Seq(S) /\ Len(pair) = to - from
            <4> HIDE DEF pair, from, to
            <4>1. pair = <<pair[1], pair[2]>> /\ pair[1] \in S /\ pair[2] \in S
                BY <3>2
            <4>2. <<pair[1], pair[2]>> \in Seq(S) /\ Len(<<pair[1], pair[2]>>) = 2
                BY <4>1
            <4> QED
                BY <3>1, <4>1, <4>2
        <3>4. \A i \in 1..to - from : pair[i] = message[from + i]
            <4>1. pair[1] = message[2 * n - 1] /\ pair[2] = message[2 * n]
                BY <1>1, <3>1
            <4>2. from + 1 = 2 * n - 1 /\ from + 2 = 2 * n
                BY <3>1
            <4>3. \A i \in 1..to - from : i = 1 \/ i = 2
                BY <3>1
            <4> HIDE DEF pair, from, to
            <4>4. pair[1] = message[from + 1] /\ pair[2] = message[from + 2]
                BY <4>1, <4>2
            <4> QED
                BY <4>3, <4>4
        <3> HIDE DEF pair, from, to
        <3>5. Put(Beginning(message, from), pair) = Beginning(message, to)
            <4>1. /\ message \in Seq(S) /\ from \in 0..Len(message)
                  /\ to \in from..Len(message)
                BY <1>1, <3>1
            <4> QED
                BY <3>3, <3>4, <4>1, PutGrows
        <3> QED
            BY <3>2, <3>5 DEF from, to
    <2>2. CASE ~(n <= Len(all))
        <3>0. n = Len(all) + 1 /\ n - 1 = Len(all) /\ n - 1 <= Len(all)
            BY <1>1, <1>2, <2>2
        <3>1. /\ from = 2 * Len(all) /\ to = 2 * Len(all) + 1
              /\ from \in 0..Len(message) /\ to \in from..Len(message) /\ to - from = 1
            BY <1>1, <2>2, <3>0
        <3>2. End \in Seq(S) /\ Len(End) = 1 /\ End[1] = "end"
            BY DEF End
        <3> HIDE DEF from, to
        <3>3. End[1] = message[from + 1]
            BY <1>1, <3>1, <3>2
        <3>4. Len(End) = to - from /\ \A i \in 1..to - from : End[i] = message[from + i]
            BY <3>1, <3>2, <3>3
        <3>5. Put(Beginning(message, from), End) = Beginning(message, to)
            BY <1>1, <3>1, <3>2, <3>4, PutGrows
        <3> QED
            BY <1>2, <3>1, <3>5 DEF from, to
    <2> QED
        BY <2>1, <2>2
<1>5. Beginning(message, places(0)) = <<>>
    <2>1. places(0) = 0 /\ Lesser(Room, 0) = 0
        BY <1>1, RoomIsNat DEF Lesser
    <2> HIDE DEF places
    <2> QED
        BY <2>1, SubSeqEmpty DEF Beginning
<1>6. f = [n \in 0..Len(pieces) |-> IF n = 0 THEN <<>> ELSE Put(f[n - 1], pieces[n])]
    <2> SUFFICES ASSUME NEW n \in 0..Len(pieces)
                 PROVE  Beginning(message, places(n)) =
                            IF n = 0 THEN <<>> ELSE Put(f[n - 1], pieces[n])
        OBVIOUS
    <2>1. CASE n = 0
        BY <1>5, <2>1
    <2>2. CASE n # 0
        <3>1. n \in 1..Len(pieces) /\ n - 1 \in 0..Len(pieces)
            BY <1>1, <1>2, <2>2
        <3> DEFINE before == n - 1
        <3>2. f[before] = Beginning(message, places(before))
            <4> HIDE DEF before, places
            <4>1. before \in 0..Len(pieces)
                BY <3>1 DEF before
            <4> QED
                BY <4>1
        <3> HIDE DEF f, places
        <3> QED
            BY <1>4, <2>2, <3>1, <3>2
    <2> QED
        BY <2>1, <2>2
<1>7. f[Len(pieces)] = Beginning(message, Len(message))
    <2> DEFINE n == Len(pieces)
    <2>1. n \in 0..Len(pieces) /\ places(n) = Len(message)
        BY <1>1, <1>2
    <2> HIDE DEF n, places
    <2>2. f[n] = Beginning(message, places(n))
        BY <2>1
    <2> HIDE DEF f
    <2> QED
        BY <2>1, <2>2 DEF n
<1>8. Len(pieces) \in Nat
    BY <1>1, <1>2
<1> HIDE DEF f
<1>9. Written(pieces) = f[Len(pieces)]
    BY <1>6, <1>8, WrittenIs
<1> QED
    BY <1>7, <1>9 DEF pieces, all, message

-----------------------------------------------------------------------------
(* What is written *)

Names == {"SIP/2.0", "To", "From", "Record-Route", "Via", "CSeq", "Call-ID", "Max-Forwards",
          "ACK", "Route", "Content-Length"}
Words == Names \union Values \union {"200 OK", "603 Decline", "70", "0", "end"}

\* The name and the value of a line.
Lines == Seq(Names \X Words)

LEMMA JoinedIs ==
    ASSUME NEW T, NEW a \in Seq(T), NEW b \in Seq(T), NEW c \in Seq(T), NEW d \in Seq(T)
    PROVE  LET joined == a \o b \o c \o d
               n1 == Len(a)
               n2 == n1 + Len(b)
               n3 == n2 + Len(c)
               n4 == n3 + Len(d)
           IN  /\ joined \in Seq(T) /\ Len(joined) = n4
               /\ \A k \in 1..n4 :
                      joined[k] = IF k <= n1 THEN a[k]
                                  ELSE IF k <= n2 THEN b[k - n1]
                                  ELSE IF k <= n3 THEN c[k - n2]
                                  ELSE d[k - n3]
<1> DEFINE ab == a \o b
           abc == ab \o c
           n1 == Len(a)
           n2 == n1 + Len(b)
           n3 == n2 + Len(c)
           n4 == n3 + Len(d)
<1>1. n1 \in Nat /\ Len(b) \in Nat /\ Len(c) \in Nat /\ Len(d) \in Nat
    BY LenProperties
<1>2. /\ ab \in Seq(T) /\ Len(ab) = n2
      /\ \A k \in 1..n2 : ab[k] = IF k <= n1 THEN a[k] ELSE b[k - n1]
    BY ConcatProperties
<1> HIDE DEF ab
<1>3. /\ abc \in Seq(T) /\ Len(abc) = n3
      /\ \A k \in 1..n3 : abc[k] = IF k <= n2 THEN ab[k] ELSE c[k - n2]
    <2>1. /\ abc \in Seq(T) /\ Len(abc) = Len(ab) + Len(c)
          /\ \A k \in 1..Len(ab) + Len(c) :
                 abc[k] = IF k <= Len(ab) THEN ab[k] ELSE c[k - Len(ab)]
        <3>1. ab \in Seq(T)
            BY <1>2
        <3> QED
            BY <3>1, ConcatProperties
    <2>2. Len(ab) = n2
        BY <1>2
    <2> HIDE DEF abc, n2
    <2> QED
        BY <2>1, <2>2, Zenon
<1> HIDE DEF abc
<1>4. /\ abc \o d \in Seq(T) /\ Len(abc \o d) = n4
      /\ \A k \in 1..n4 : (abc \o d)[k] = IF k <= n3 THEN abc[k] ELSE d[k - n3]
    <2> DEFINE joined == abc \o d
    <2>1. /\ joined \in Seq(T) /\ Len(joined) = Len(abc) + Len(d)
          /\ \A k \in 1..Len(abc) + Len(d) :
                 joined[k] = IF k <= Len(abc) THEN abc[k] ELSE d[k - Len(abc)]
        <3>1. abc \in Seq(T)
            BY <1>3
        <3> QED
            BY <3>1, ConcatProperties
    <2>2. Len(abc) = n3
        BY <1>3
    <2> HIDE DEF joined, n3
    <2>3. /\ joined \in Seq(T) /\ Len(joined) = n4
          /\ \A k \in 1..n4 : joined[k] = IF k <= n3 THEN abc[k] ELSE d[k - n3]
        BY <2>1, <2>2, Zenon
    <2> QED
        BY <2>3 DEF joined
<1>5. /\ n2 \in Nat /\ n1 <= n2 /\ n3 \in Nat /\ n2 <= n3
    BY <1>1
<1>6. ASSUME NEW k \in 1..n4
      PROVE  (abc \o d)[k] = IF k <= n1 THEN a[k]
                             ELSE IF k <= n2 THEN b[k - n1]
                             ELSE IF k <= n3 THEN c[k - n2]
                             ELSE d[k - n3]
    <2>1. CASE k <= n1
        <3>1. k \in 1..n2 /\ k \in 1..n3 /\ k <= n2 /\ k <= n3
            BY <1>1, <1>5, <2>1
        <3> QED
            BY <1>2, <1>3, <1>4, <2>1, <3>1
    <2>2. CASE ~(k <= n1) /\ k <= n2
        <3>1. k \in 1..n2 /\ k \in 1..n3 /\ k <= n3
            BY <1>1, <1>5, <2>2
        <3> QED
            BY <1>2, <1>3, <1>4, <2>2, <3>1
    <2>3. CASE ~(k <= n2) /\ k <= n3
        <3>1. k \in 1..n3 /\ ~(k <= n1)
            BY <1>1, <1>5, <2>3
        <3> QED
            BY <1>3, <1>4, <2>3, <3>1
    <2>4. CASE ~(k <= n3)
        <3>1. ~(k <= n1) /\ ~(k <= n2)
            BY <1>1, <1>5, <2>4
        <3> QED
            BY <1>4, <2>4, <3>1
    <2> QED
        BY <1>1, <1>5, <2>1, <2>2, <2>3, <2>4
<1> QED
    BY <1>4, <1>6 DEF ab, abc

LEMMA LinesOfIs ==
    ASSUME NEW name \in Names, NEW values \in Seq(Values)
    PROVE  /\ LinesOf(name, values) \in Lines
           /\ Len(LinesOf(name, values)) = Len(values)
           /\ \A i \in 1..Len(values) :
                  /\ LinesOf(name, values)[i][1] = name
                  /\ LinesOf(name, values)[i][2] = values[i]
<1>1. Len(values) \in Nat /\ DOMAIN values = 1..Len(values)
    BY LenProperties
<1>2. \A i \in 1..Len(values) : values[i] \in Values
    BY ElementOfSeq
<1>3. \A i \in 1..Len(values) : <<name, values[i]>> \in Names \X Words
    BY <1>2 DEF Words
<1>4. LinesOf(name, values) = [i \in 1..Len(values) |-> <<name, values[i]>>]
    BY <1>1 DEF LinesOf
<1>5. LinesOf(name, values) \in [1..Len(values) -> Names \X Words]
    BY <1>3, <1>4
<1>6. LinesOf(name, values) \in Lines /\ Len(LinesOf(name, values)) = Len(values)
    BY <1>1, <1>5 DEF Lines
<1> QED
    BY <1>4, <1>6

LEMMA ReversedIs ==
    ASSUME NEW values \in Seq(Values)
    PROVE  /\ Reverse(values) \in Seq(Values)
           /\ Len(Reverse(values)) = Len(values)
           /\ \A i \in 1..Len(values) : Reverse(values)[Len(values) + 1 - i] = values[i]
<1>1. Len(values) \in Nat
    BY LenProperties
<1> DEFINE n == Len(values)
<1>2. Reverse(values) = [i \in 1..n |-> values[n - i + 1]]
    BY DEF Reverse
<1>3. \A i \in 1..n : n - i + 1 \in 1..n /\ n + 1 - i \in 1..n /\ n - (n + 1 - i) + 1 = i
    BY <1>1
<1>4. \A i \in 1..n : values[n - i + 1] \in Values
    BY <1>3, ElementOfSeq
<1>5. Reverse(values) \in [1..n -> Values]
    BY <1>2, <1>4
<1>6. Reverse(values) \in Seq(Values) /\ Len(Reverse(values)) = n
    BY <1>1, <1>5
<1> HIDE DEF n
<1>7. ASSUME NEW i \in 1..n PROVE Reverse(values)[n + 1 - i] = values[i]
    <2>1. Reverse(values)[n + 1 - i] = values[n - (n + 1 - i) + 1]
        BY <1>2, <1>3
    <2> QED
        BY <1>3, <2>1
<1> QED
    BY <1>6, <1>7 DEF n

\* What TypeOK says of the texts and the lists.
LEMMA MembersAre ==
    ASSUME TypeOK
    PROVE  /\ m.contact \in Values /\ m.to \in Values /\ m.to_tag \in Values
           /\ \A name \in Kept : m.kept[name] \in Values
           /\ \A name \in Lists : /\ m.list[name] \in Seq(Values)
                                  /\ Len(m.list[name]) \in 0..ListLength
                                  /\ m.list[name] \in [1..Len(m.list[name]) -> Values]
<1>1. m \in Members
    BY DEF TypeOK
<1>2. m.kept \in [Kept -> Values] /\ m.list \in [Lists -> Seq(Values \ {NoText})]
    BY <1>1 DEF Members
<1>3. ASSUME NEW name \in Lists
      PROVE  /\ m.list[name] \in Seq(Values) /\ Len(m.list[name]) \in 0..ListLength
             /\ m.list[name] \in [1..Len(m.list[name]) -> Values]
    <2>1. m.list[name] \in Seq(Values \ {NoText}) /\ Values \ {NoText} \subseteq Values
        BY <1>2
    <2>2. m.list[name] \in Seq(Values)
        BY <2>1, SeqMonotonic
    <2>3. Len(m.list[name]) \in Nat /\ Len(m.list[name]) <= ListLength
        BY <2>2, LenProperties DEF TypeOK
    <2> QED
        BY <2>2, <2>3, LenProperties, Constants
<1> QED
    BY <1>1, <1>2, <1>3 DEF Members

\* Where the lines of a name stand: behind as many others.
Block(lines, name, before, values) ==
    /\ \A k \in 1..Len(lines) :
           lines[k][1] = name <=> k \in before + 1..before + Len(values)
    /\ \A i \in 1..Len(values) :
           before + i \in 1..Len(lines) /\ lines[before + i][2] = values[i]

\* The lines of a reply.
LEMMA ReplyIs ==
    ASSUME TypeOK, NEW status \in Words
    PROVE  LET lines == ReplyHeader(status)
               routes == m.list["Record-Route"]
           IN  /\ lines \in Lines
               /\ Len(lines) \in Nat /\ 3 + Len(routes) <= Len(lines)
               /\ lines[1][1] = "SIP/2.0"
               /\ Block(lines, "Record-Route", 3, routes)
               /\ Block(lines, "Via", 3 + Len(routes), m.list["Via"])
<1> DEFINE lines == ReplyHeader(status)
           T == Names \X Words
           routes == m.list["Record-Route"]
           vias == m.list["Via"]
           head == <<<<"SIP/2.0", status>>, <<"To", m.to>>, <<"From", m.kept["From"]>>>>
           route == LinesOf("Record-Route", routes)
           via == LinesOf("Via", vias)
           foot == <<<<"CSeq", m.kept["CSeq"]>>, <<"Call-ID", m.kept["Call-ID"]>>,
                     <<"Max-Forwards", "70">>>>
           r == Len(routes)
           v == Len(vias)
<1>1. /\ m.to \in Words /\ "70" \in Words /\ \A name \in Kept : m.kept[name] \in Words
      /\ routes \in Seq(Values) /\ vias \in Seq(Values) /\ r \in Nat /\ v \in Nat
    <2>1. /\ m.to \in Values /\ \A name \in Kept : m.kept[name] \in Values
          /\ routes \in Seq(Values) /\ vias \in Seq(Values)
        BY MembersAre DEF Lists
    <2>2. r \in Nat /\ v \in Nat
        BY <2>1, LenProperties
    <2> QED
        BY <2>1, <2>2 DEF Words
<1>2. /\ head \in Seq(T) /\ Len(head) = 3
      /\ head[1][1] = "SIP/2.0" /\ head[2][1] = "To" /\ head[3][1] = "From"
    <2>1. /\ <<"SIP/2.0", status>> \in T /\ <<"To", m.to>> \in T
          /\ <<"From", m.kept["From"]>> \in T
        BY <1>1 DEF Names, Kept
    <2> QED
        BY <2>1
<1>3. /\ foot \in Seq(T) /\ Len(foot) = 3
      /\ foot[1][1] = "CSeq" /\ foot[2][1] = "Call-ID" /\ foot[3][1] = "Max-Forwards"
    <2>1. /\ <<"CSeq", m.kept["CSeq"]>> \in T /\ <<"Call-ID", m.kept["Call-ID"]>> \in T
          /\ <<"Max-Forwards", "70">> \in T
        BY <1>1 DEF Names, Kept
    <2> QED
        BY <2>1
<1>4. /\ route \in Seq(T) /\ Len(route) = r
      /\ \A i \in 1..r : route[i][1] = "Record-Route" /\ route[i][2] = routes[i]
    BY <1>1, LinesOfIs DEF Lines, Names
<1>5. /\ via \in Seq(T) /\ Len(via) = v
      /\ \A i \in 1..v : via[i][1] = "Via" /\ via[i][2] = vias[i]
    BY <1>1, LinesOfIs DEF Lines, Names
<1>6. lines = head \o route \o via \o foot
    BY DEF ReplyHeader
<1> HIDE DEF lines, head, route, via, foot, T
<1>7. /\ lines \in Seq(T) /\ Len(lines) = 3 + r + v + 3
      /\ \A k \in 1..3 + r + v + 3 :
             lines[k] = IF k <= 3 THEN head[k]
                        ELSE IF k <= 3 + r THEN route[k - 3]
                        ELSE IF k <= 3 + r + v THEN via[k - (3 + r)]
                        ELSE foot[k - (3 + r + v)]
    <2> DEFINE n1 == Len(head)
               n2 == n1 + Len(route)
               n3 == n2 + Len(via)
               n4 == n3 + Len(foot)
    <2>1. /\ head \in Seq(T) /\ route \in Seq(T) /\ via \in Seq(T) /\ foot \in Seq(T)
        BY <1>2, <1>3, <1>4, <1>5
    <2>2. /\ lines \in Seq(T) /\ Len(lines) = n4
          /\ \A k \in 1..n4 :
                 lines[k] = IF k <= n1 THEN head[k]
                            ELSE IF k <= n2 THEN route[k - n1]
                            ELSE IF k <= n3 THEN via[k - n2]
                            ELSE foot[k - n3]
        <3> DEFINE joined == head \o route \o via \o foot
        <3>1. /\ joined \in Seq(T) /\ Len(joined) = n4
              /\ \A k \in 1..n4 :
                     joined[k] = IF k <= n1 THEN head[k]
                                 ELSE IF k <= n2 THEN route[k - n1]
                                 ELSE IF k <= n3 THEN via[k - n2]
                                 ELSE foot[k - n3]
            BY <2>1, JoinedIs
        <3>2. lines = joined
            BY <1>6
        <3> HIDE DEF joined
        <3> QED
            BY <3>1, <3>2
    <2>3. n1 = 3 /\ n2 = 3 + r /\ n3 = 3 + r + v /\ n4 = 3 + r + v + 3
        BY <1>2, <1>3, <1>4, <1>5
    <2> HIDE DEF n1, n2, n3, n4
    <2> QED
        BY <2>2, <2>3, Zenon
<1> HIDE DEF routes, vias, r, v
<1>8. ASSUME NEW k \in 1..3
      PROVE  lines[k][1] \in {"SIP/2.0", "To", "From"}
    <2>1. k \in 1..3 + r + v + 3 /\ k <= 3 /\ (k = 1 \/ k = 2 \/ k = 3)
        BY <1>1
    <2>2. lines[k] = head[k]
        BY <1>7, <2>1
    <2> QED
        BY <1>2, <2>1, <2>2
<1>9. ASSUME NEW i \in 1..r
      PROVE  /\ 3 + i \in 1..Len(lines)
             /\ lines[3 + i][1] = "Record-Route" /\ lines[3 + i][2] = routes[i]
    <2>1. 3 + i \in 1..3 + r + v + 3 /\ ~(3 + i <= 3) /\ 3 + i <= 3 + r /\ 3 + i - 3 = i
        BY <1>1
    <2>2. lines[3 + i] = route[i]
        BY <1>7, <2>1
    <2> QED
        BY <1>4, <1>7, <2>1, <2>2
<1>10. ASSUME NEW i \in 1..v
       PROVE  /\ 3 + r + i \in 1..Len(lines)
              /\ lines[3 + r + i][1] = "Via" /\ lines[3 + r + i][2] = vias[i]
    <2> DEFINE k == 3 + r + i
    <2>1. /\ k \in 1..3 + r + v + 3 /\ ~(k <= 3) /\ ~(k <= 3 + r)
          /\ k <= 3 + r + v /\ k - (3 + r) = i
        BY <1>1
    <2> HIDE DEF k
    <2>2. lines[k] = via[i]
        BY <1>7, <2>1
    <2> QED
        BY <1>5, <1>7, <2>1, <2>2 DEF k
<1>11. ASSUME NEW k \in 1..Len(lines), k > 3 + r + v
       PROVE  lines[k][1] \in {"CSeq", "Call-ID", "Max-Forwards"}
    <2> DEFINE i == k - (3 + r + v)
    <2>1. /\ k \in 1..3 + r + v + 3 /\ ~(k <= 3) /\ ~(k <= 3 + r) /\ ~(k <= 3 + r + v)
          /\ (i = 1 \/ i = 2 \/ i = 3)
        BY <1>1, <1>7, <1>11
    <2>2. lines[k] = foot[i]
        BY <1>7, <2>1
    <2> HIDE DEF i
    <2> QED
        BY <1>3, <2>1, <2>2
<1>12. ASSUME NEW k \in 1..Len(lines)
       PROVE  \/ k \in 1..3
              \/ k - 3 \in 1..r /\ 3 + (k - 3) = k
              \/ k - (3 + r) \in 1..v /\ 3 + r + (k - (3 + r)) = k
              \/ k > 3 + r + v
    BY <1>1, <1>7
<1>13. Block(lines, "Record-Route", 3, routes)
    <2>1. ASSUME NEW k \in 1..Len(lines)
          PROVE  lines[k][1] = "Record-Route" <=> k \in 3 + 1..3 + r
        <3>1. CASE k \in 1..3
            BY <1>1, <1>8, <3>1
        <3>2. CASE k - 3 \in 1..r /\ 3 + (k - 3) = k
            <4>1. lines[k][1] = "Record-Route"
                BY <1>9, <3>2
            <4>2. k \in 3 + 1..3 + r
                BY <1>1, <3>2
            <4> QED
                BY <4>1, <4>2
        <3>3. CASE k - (3 + r) \in 1..v /\ 3 + r + (k - (3 + r)) = k
            <4>1. lines[k][1] = "Via"
                BY <1>10, <3>3
            <4>2. ~(k \in 3 + 1..3 + r)
                BY <1>1, <3>3
            <4> QED
                BY <4>1, <4>2
        <3>4. CASE k > 3 + r + v
            <4>1. ~(k \in 3 + 1..3 + r)
                BY <1>1, <3>4
            <4> QED
                BY <1>11, <3>4, <4>1
        <3> QED
            BY <1>12, <3>1, <3>2, <3>3, <3>4
    <2> QED
        BY <1>9, <2>1 DEF Block, r
<1>14. Block(lines, "Via", 3 + r, vias)
    <2>1. ASSUME NEW k \in 1..Len(lines)
          PROVE  lines[k][1] = "Via" <=> k \in 3 + r + 1..3 + r + v
        <3>1. CASE k \in 1..3
            BY <1>1, <1>8, <3>1
        <3>2. CASE k - 3 \in 1..r /\ 3 + (k - 3) = k
            <4>1. lines[k][1] = "Record-Route"
                BY <1>9, <3>2
            <4>2. ~(k \in 3 + r + 1..3 + r + v)
                BY <1>1, <3>2
            <4> QED
                BY <4>1, <4>2
        <3>3. CASE k - (3 + r) \in 1..v /\ 3 + r + (k - (3 + r)) = k
            <4>1. lines[k][1] = "Via"
                BY <1>10, <3>3
            <4>2. k \in 3 + r + 1..3 + r + v
                BY <1>1, <3>3
            <4> QED
                BY <4>1, <4>2
        <3>4. CASE k > 3 + r + v
            <4>1. ~(k \in 3 + r + 1..3 + r + v)
                BY <1>1, <3>4
            <4> QED
                BY <1>11, <3>4, <4>1
        <3> QED
            BY <1>12, <3>1, <3>2, <3>3, <3>4
    <2> QED
        BY <1>10, <2>1 DEF Block, v
<1>15. Len(lines) \in Nat /\ 3 + r <= Len(lines) /\ lines[1][1] = "SIP/2.0"
    <2>1. 1 \in 1..3 + r + v + 3 /\ 1 <= 3
        BY <1>1
    <2>2. lines[1] = head[1]
        BY <1>7, <2>1
    <2> QED
        BY <1>1, <1>2, <1>7, <2>2
<1> QED
    BY <1>7, <1>13, <1>14, <1>15 DEF Lines, T, lines, routes, vias, r

\* The lines of an acknowledgement.
LEMMA AckIs ==
    ASSUME TypeOK
    PROVE  LET routes == Reverse(m.list["Record-Route"]) IN
           /\ AckLines \in Lines
           /\ Len(AckLines) \in Nat /\ 2 <= Len(AckLines) /\ AckLines[1][1] = "ACK"
           /\ AckLines[1][2] = (IF Peer # NoText THEN Peer ELSE Dialled)
           /\ AckLines[2][2] = PeerTag
           /\ Block(AckLines, "Route", 2, routes)
<1> DEFINE lines == AckLines
           T == Names \X Words
           routes == Reverse(m.list["Record-Route"])
           peer == IF Peer # NoText THEN Peer ELSE Dialled
           head == <<<<"ACK", peer>>, <<"To", PeerTag>>>>
           route == LinesOf("Route", routes)
           r == Len(routes)
<1>1. /\ peer \in Words /\ PeerTag \in Words
      /\ routes \in Seq(Values) /\ r \in Nat
    <2>1. m.list["Record-Route"] \in Seq(Values)
        BY MembersAre DEF Lists
    <2>2. routes \in Seq(Values)
        BY <2>1, ReversedIs
    <2>3. {Dialled, KnownContact, KnownTag} \subseteq Values
        BY SipMessageAssumption
    <2>4. peer \in Values /\ PeerTag \in Values
        BY <2>3, MembersAre DEF Peer, PeerTag
    <2> QED
        BY <2>2, <2>4, LenProperties DEF Words
<1> HIDE DEF peer
<1>2. /\ head \in Seq(T) /\ Len(head) = 2
      /\ head[1][1] = "ACK" /\ head[2][1] = "To"
      /\ head[1][2] = peer /\ head[2][2] = PeerTag
    <2>1. <<"ACK", peer>> \in T /\ <<"To", PeerTag>> \in T
        BY <1>1 DEF Names
    <2> QED
        BY <2>1
<1>4. /\ route \in Seq(T) /\ Len(route) = r
      /\ \A i \in 1..r : route[i][1] = "Route" /\ route[i][2] = routes[i]
    BY <1>1, LinesOfIs DEF Lines, Names
<1>6. lines = head \o route
    BY DEF AckLines, Routes, peer
<1> HIDE DEF lines, head, route, T
<1>7. /\ lines \in Seq(T) /\ Len(lines) = 2 + r
      /\ \A k \in 1..2 + r : lines[k] = IF k <= 2 THEN head[k] ELSE route[k - 2]
    <2>0. head \in Seq(T) /\ route \in Seq(T)
        BY <1>2, <1>4
    <2>1. Len(head) = 2 /\ Len(route) = r
        BY <1>2, <1>4
    <2>2. /\ lines \in Seq(T) /\ Len(lines) = Len(head) + Len(route)
          /\ \A k \in 1..Len(head) + Len(route) :
                 lines[k] = IF k <= Len(head) THEN head[k] ELSE route[k - Len(head)]
        BY <1>6, <2>0, ConcatProperties
    <2> HIDE DEF r
    <2> QED
        BY <2>1, <2>2, Zenon
<1> HIDE DEF routes, r
<1>8. /\ \A k \in 1..2 : lines[k] = head[k]
      /\ \A i \in 1..r : 2 + i \in 1..Len(lines) /\ lines[2 + i] = route[i]
    <2>1. \A k \in 1..2 : k \in 1..2 + r /\ k <= 2
        BY <1>1
    <2>2. \A i \in 1..r : 2 + i \in 1..2 + r /\ ~(2 + i <= 2) /\ 2 + i - 2 = i
        BY <1>1
    <2> QED
        BY <1>7, <2>1, <2>2
<1>9. Block(lines, "Route", 2, routes)
    <2>1. ASSUME NEW k \in 1..Len(lines)
          PROVE  lines[k][1] = "Route" <=> k \in 2 + 1..2 + r
        <3>1. CASE k \in 1..2
            <4>1. (k = 1 \/ k = 2) /\ ~(k \in 2 + 1..2 + r)
                BY <1>1, <3>1
            <4> QED
                BY <1>2, <1>8, <3>1, <4>1
        <3>2. CASE ~(k \in 1..2)
            <4>1. k - 2 \in 1..r /\ 2 + (k - 2) = k /\ k \in 2 + 1..2 + r
                BY <1>1, <1>7, <3>2
            <4>2. lines[k][1] = "Route"
                BY <1>4, <1>8, <4>1
            <4> QED
                BY <4>1, <4>2
        <3> QED
            BY <3>1, <3>2
    <2>2. \A i \in 1..r : 2 + i \in 1..Len(lines) /\ lines[2 + i][2] = routes[i]
        BY <1>4, <1>8
    <2> QED
        BY <2>1, <2>2 DEF Block, r
<1>10. /\ Len(lines) \in Nat /\ 2 <= Len(lines) /\ lines[1][1] = "ACK"
       /\ lines[1][2] = peer /\ lines[2][2] = PeerTag
    BY <1>1, <1>2, <1>7, <1>8
<1> QED
    BY <1>7, <1>9, <1>10 DEF Lines, T, lines, routes, peer
-----------------------------------------------------------------------------
(* What is sent *)

Replies == {ReplyHeader("200 OK"), ReplyHeader("603 Decline"), AckLines}

LEMMA WordsAre ==
    /\ {"end", "0", "Content-Length"} \subseteq Words
    /\ "200 OK" \in Words /\ "603 Decline" \in Words
    /\ Names \X Words \subseteq Words \X Words
    /\ NoBody \in Names \X Words
BY DEF Words, Names, NoBody

\* Every message is a sequence of named lines, whose name is no end of a message.
LEMMA RepliesAre ==
    ASSUME TypeOK, NEW lines \in Replies
    PROVE  lines \in Lines /\ lines \in Seq(Words \X Words)
<1>1. lines \in Seq(Names \X Words)
    BY ReplyIs, AckIs, WordsAre DEF Replies, Lines
<1> QED
    BY <1>1, WordsAre, SeqMonotonic DEF Lines

LEMMA RepliesAreLong ==
    ASSUME TypeOK, NEW lines \in Replies
    PROVE  /\ Len(lines) \in Nat /\ Len(lines) >= 1
           /\ lines = AckLines => Len(lines) >= 2
<1>1. Len(m.list["Record-Route"]) \in Nat
    BY MembersAre, LenProperties DEF Lists
<1>2. ASSUME NEW status \in Words
      PROVE  Len(ReplyHeader(status)) \in Nat /\ Len(ReplyHeader(status)) >= 1
    BY <1>1, ReplyIs
<1>3. Len(AckLines) \in Nat /\ Len(AckLines) >= 2
    BY AckIs
<1>4. Len(AckLines) >= 1
    BY <1>3
<1>5. Len(lines) \in Nat /\ Len(lines) >= 1
    BY <1>2, <1>3, <1>4, WordsAre DEF Replies
<1> QED
    BY <1>3, <1>5

\* Something is sent only for a packet that is read to its end, and it is the message
\* that is to be sent, or its beginning.
SentInv == sent # <<>> => at = "parsed" /\ SentFromTheBeginning

LEMMA SendBegins ==
    ASSUME TypeOK, NEW lines \in Replies, at = "parsed", Send(Append(lines, NoBody))
    PROVE  SentInv'
<1>1. UNCHANGED vars /\ sent' = Written(Append(Append(lines, NoBody), End))
    BY DEF Send
<1>2. sent' = Beginning(Whole(lines), Len(Whole(lines)))
    BY <1>1, RepliesAre, WordsAre, WrittenIsWhole
<1>3. sent' = SubSeq(Whole(lines), 1, Lesser(TxSize - 1, Len(Whole(lines))))
    BY <1>2 DEF Beginning, Room
<1>4. at' = "parsed" /\ m' = m
    BY <1>1 DEF vars
<1>5. Replies' = Replies
    BY <1>4 DEF Replies, ReplyHeader, AckLines, Peer, PeerTag, Routes
<1>6. \E reply \in Replies' :
          sent' = SubSeq(Whole(reply), 1, Lesser(TxSize - 1, Len(Whole(reply))))
    BY <1>3, <1>5
<1> QED
    BY <1>4, <1>6 DEF SentInv, SentFromTheBeginning, Replies

LEMMA ParseStops == at = "parsed" => ~Parse
BY DEF Parse, ParseHeader, ParseBody, StatusLine, Authenticate, Contact, To, KeptHeader,
   ListHeader, ContentType, ContentLength, OtherLine, HeaderLine, EndOfHeader,
   HeaderUnended, KeptBodyLine, Duration, OtherBodyLine, EndOfBody, BodyLine

LEMMA SentInvStep == TypeOK /\ SentInv /\ [MessageNext]_messageVars => SentInv'
<1> SUFFICES ASSUME TypeOK, SentInv, [MessageNext]_messageVars PROVE SentInv'
    OBVIOUS
<1>1. CASE Parse /\ UNCHANGED <<turn, sent>>
    BY <1>1, ParseStops DEF SentInv
<1>2. CASE Answer
    <2>1. ReplyHeader("200 OK") \in Replies
        BY DEF Replies
    <2> QED
        BY <1>2, <2>1, SendBegins DEF Answer
<1>3. CASE Decline
    <2>1. ReplyHeader("603 Decline") \in Replies
        BY DEF Replies
    <2> QED
        BY <1>3, <2>1, SendBegins DEF Decline
<1>4. CASE Acknowledge
    <2>1. AckLines \in Replies
        BY DEF Replies
    <2> QED
        BY <1>4, <2>1, SendBegins DEF Acknowledge
<1>5. CASE UNCHANGED messageVars
    <2>1. at' = at /\ m' = m /\ sent' = sent
        BY <1>5 DEF messageVars, vars
    <2>2. Replies' = Replies
        BY <2>1 DEF Replies, ReplyHeader, AckLines, Peer, PeerTag, Routes
    <2> QED
        BY <2>1, <2>2 DEF SentInv, SentFromTheBeginning, Replies
<1> QED
    BY <1>1, <1>2, <1>3, <1>4, <1>5 DEF MessageNext

LEMMA SentInvInit == MessageInit => SentInv
BY DEF MessageInit, SentInv

\* Whatever the size of the buffer, what is sent is the message or its beginning:
\* nothing is left out in the middle.
THEOREM SendsTheBeginning == MessageFairSpec => []SentFromTheBeginning
<1>1. SentInv => SentFromTheBeginning
    BY DEF SentInv, SentFromTheBeginning
<1>2. MessageInit => TextInv /\ SentInv
    BY TextInvInit, SentInvInit
<1>3. TextInv /\ SentInv /\ [MessageNext]_messageVars => (TextInv /\ SentInv)'
    BY TextInvStep, MessageSteps, SentInvStep DEF TextInv
<1> QED
    BY <1>1, <1>2, <1>3, PTL DEF MessageFairSpec

\* A message that is complete has all its lines: what is cut off has no end.
LEMMA CompleteIsWhole ==
    ASSUME NEW lines \in Lines, lines \in Seq(Words \X Words),
           sent = Beginning(Whole(lines), Len(Whole(lines))), Complete
    PROVE  /\ Len(lines) \in Nat /\ Len(sent) \div 2 = Len(lines) + 1
           /\ Len(sent) = 2 * (Len(lines) + 1) + 1
           /\ \A k \in 1..Len(lines) :
                  sent[2 * k - 1] = lines[k][1] /\ sent[2 * k] = lines[k][2]
           /\ sent[2 * (Len(lines) + 1) - 1] = "Content-Length"
<1> DEFINE all == Append(lines, NoBody)
           message == Whole(lines)
           n == Len(lines) + 1
<1>1. /\ Len(all) = n /\ n \in Nat
      /\ message \in Seq(Words) /\ Len(message) = 2 * Len(all) + 1
      /\ \A k \in 1..Len(all) :
             message[2 * k - 1] = all[k][1] /\ message[2 * k] = all[k][2]
      /\ message[2 * Len(all) + 1] = "end"
    BY WordsAre, WholeIs
<1>2. /\ Len(lines) \in Nat /\ all[n] = NoBody /\ \A k \in 1..Len(lines) : all[k] = lines[k]
    <2>1. lines \in Seq(Names \X Words) /\ NoBody \in Names \X Words
        BY WordsAre DEF Lines
    <2> QED
        BY <2>1, AppendProperties, LenProperties
<1>3. \A k \in 1..n : all[k][1] \in Names
    <2>1. \A k \in 1..Len(lines) : lines[k] \in Names \X Words
        BY ElementOfSeq DEF Lines
    <2>2. \A k \in 1..n : k \in 1..Len(lines) \/ k = n
        BY <1>2
    <2>3. NoBody[1] \in Names
        BY DEF NoBody, Names
    <2> QED
        BY <1>2, <2>1, <2>2, <2>3
<1> HIDE DEF all, message
<1>4. Len(message) \in 0..Len(message) /\ Len(message) = 2 * n + 1
    BY <1>1
<1>5. /\ Len(sent) = Lesser(Room, Len(message))
      /\ \A i \in 1..Lesser(Room, Len(message)) : sent[i] = message[i]
    BY <1>1, <1>4, BeginningIs DEF message
<1> HIDE DEF n
<1>6. Len(sent) \in Nat /\ Len(sent) <= Len(message) /\ \A i \in 1..Len(sent) : sent[i] = message[i]
    BY <1>1, <1>4, <1>5, RoomIsNat DEF Lesser
<1>7. Len(sent) = Len(message)
    <2> SUFFICES ASSUME Len(sent) # Len(message) PROVE FALSE
        OBVIOUS
    <2> DEFINE k == (Len(sent) + 1) \div 2
    <2>1. Len(sent) % 2 = 1 /\ sent[Len(sent)] = "end"
        BY DEF Complete
    <2>2. k \in 1..n /\ Len(sent) = 2 * k - 1 /\ Len(sent) \in 1..Len(sent)
        <3> DEFINE length == Len(sent)
        <3>0. length \in Nat /\ length <= 2 * n + 1 /\ length # 2 * n + 1
            BY <1>4, <1>6
        <3>a. n \in Nat
            BY <1>1
        <3>b. length % 2 = 1
            BY <2>1
        <3> HIDE DEF length
        <3>1. length < 2 * n + 1
            BY <3>0, <3>a
        <3>2. /\ length = 2 * ((length + 1) \div 2) - 1 /\ length \in 1..length
              /\ (length + 1) \div 2 \in 1..n
            BY <3>0, <3>a, <3>b, <3>1
        <3> QED
            BY <3>2 DEF length
    <2> HIDE DEF k
    <2>3. message[2 * k - 1] \in Names
        BY <1>1, <1>3, <2>2
    <2>4. message[2 * k - 1] = "end"
        BY <1>6, <2>1, <2>2
    <2> QED
        BY <2>3, <2>4 DEF Names
<1>8. ASSUME NEW k \in 1..n
      PROVE  sent[2 * k - 1] = all[k][1] /\ sent[2 * k] = all[k][2]
    <2>1. 2 * k - 1 \in 1..Len(sent) /\ 2 * k \in 1..Len(sent)
        BY <1>1, <1>4, <1>7
    <2> QED
        BY <1>1, <1>6, <2>1
<1>9. Len(sent) = 2 * n + 1 /\ Len(sent) \div 2 = n
    BY <1>1, <1>4, <1>7
<1>10. ASSUME NEW k \in 1..Len(lines)
       PROVE  sent[2 * k - 1] = lines[k][1] /\ sent[2 * k] = lines[k][2]
    <2>1. k \in 1..n
        BY <1>2 DEF n
    <2> QED
        BY <1>2, <1>8, <2>1
<1>11. sent[2 * n - 1] = "Content-Length"
    <2>1. n \in 1..n
        BY <1>2 DEF n
    <2>2. all[n][1] = "Content-Length"
        BY <1>2 DEF NoBody
    <2> QED
        BY <1>8, <2>1, <2>2
<1> QED
    BY <1>2, <1>9, <1>10, <1>11 DEF n

\* A block of lines is found in the datagram.
LEMMA BlockIsFound ==
    ASSUME NEW lines \in Lines, lines \in Seq(Words \X Words),
           sent = Beginning(Whole(lines), Len(Whole(lines))), Complete,
           NEW values \in Seq(Values), NEW before \in Nat, NEW name, name # "Content-Length",
           Block(lines, name, before, values), before <= Len(lines)
    PROVE  /\ before \in 0..Len(sent)
           /\ StandsAt(name, before + 1..before + Len(values))
           /\ \A i \in 1..Len(values) : sent[2 * (before + i)] = values[i]
<1> DEFINE n == Len(lines)
<1>1. /\ n \in Nat /\ Len(sent) \div 2 = n + 1 /\ Len(sent) = 2 * (n + 1) + 1
      /\ \A k \in 1..n : sent[2 * k - 1] = lines[k][1] /\ sent[2 * k] = lines[k][2]
      /\ sent[2 * (n + 1) - 1] = "Content-Length"
    BY CompleteIsWhole
<1>2. Len(values) \in Nat
    BY LenProperties
<1>3. /\ \A k \in 1..n : lines[k][1] = name <=> k \in before + 1..before + Len(values)
      /\ \A i \in 1..Len(values) : before + i \in 1..n /\ lines[before + i][2] = values[i]
    BY DEF Block
<1>4. ~(n + 1 \in before + 1..before + Len(values))
    <2> SUFFICES ASSUME n + 1 \in before + 1..before + Len(values) PROVE FALSE
        OBVIOUS
    <2>1. Len(values) \in 1..Len(values) /\ ~(before + Len(values) \in 1..n)
        BY <1>1, <1>2
    <2> QED
        BY <1>3, <2>1
<1> HIDE DEF n
<1>5. ASSUME NEW k \in 1..n + 1
      PROVE  sent[2 * k - 1] = name <=> k \in before + 1..before + Len(values)
    <2>1. CASE k = n + 1
        BY <1>1, <1>4, <2>1
    <2>2. CASE k # n + 1
        <3>1. n \in Nat
            BY <1>1
        <3>2. k \in 1..n
            BY <2>2, <3>1
        <3> QED
            BY <1>1, <1>3, <3>2
    <2> QED
        BY <2>1, <2>2
<1>6. StandsAt(name, before + 1..before + Len(values))
    BY <1>1, <1>5 DEF StandsAt
<1>7. \A i \in 1..Len(values) : sent[2 * (before + i)] = values[i]
    BY <1>1, <1>3
<1>8. before \in 0..Len(sent)
    BY <1>1 DEF n
<1> QED
    BY <1>6, <1>7, <1>8

LEMMA ReplyFindsItsWay ==
    ASSUME TypeOK, ListsInv, at = "parsed", Complete, NEW status \in Words,
           ReplyHeader(status) \in Replies,
           sent = Beginning(Whole(ReplyHeader(status)), Len(Whole(ReplyHeader(status)))),
           NEW name \in Lists
    PROVE  \E n \in 0..ListLength, before \in 0..Len(sent) :
               /\ StandsAt(name, before + 1..before + n)
               /\ HoldsFirst([k \in 1..n |-> sent[2 * (before + k)]], name, Header)
<1> DEFINE lines == ReplyHeader(status)
           values == m.list[name]
           n == Len(values)
           routes == m.list["Record-Route"]
           before == IF name = "Via" THEN 3 + Len(routes) ELSE 3
<1>1. lines \in Lines /\ lines \in Seq(Words \X Words)
    BY RepliesAre
<1>2. values \in Seq(Values) /\ n \in 0..ListLength /\ values \in [1..n -> Values]
    BY MembersAre
<1>3. Len(routes) \in Nat
    <2>1. Len(routes) \in 0..ListLength
        BY MembersAre DEF Lists
    <2> QED
        BY <2>1, Constants
<1>4. Block(lines, name, before, values)
    BY ReplyIs DEF Lists
<1>5. before \in Nat /\ before <= Len(lines) /\ name # "Content-Length"
    BY <1>3, ReplyIs DEF Lists
<1> HIDE DEF lines, before
<1>6. /\ before \in 0..Len(sent)
      /\ StandsAt(name, before + 1..before + n)
      /\ \A i \in 1..n : sent[2 * (before + i)] = values[i]
    BY <1>1, <1>2, <1>4, <1>5, BlockIsFound DEF lines
<1>7. [k \in 1..n |-> sent[2 * (before + k)]] = values
    BY <1>2, <1>6
<1>8. HoldsFirst(values, name, Header)
    BY DEF ListsInv
<1> QED
    BY <1>2, <1>6, <1>7, <1>8

LEMMA AckFindsItsWay ==
    ASSUME TypeOK, ListsInv, at = "parsed", Complete,
           sent = Beginning(Whole(AckLines), Len(Whole(AckLines)))
    PROVE  \E n \in 0..ListLength, before \in 0..Len(sent) :
               /\ StandsAt("Route", before + 1..before + n)
               /\ HoldsFirst([k \in 1..n |-> sent[2 * (before + n + 1 - k)]],
                             "Record-Route", Header)
<1> DEFINE lines == AckLines
           values == m.list["Record-Route"]
           n == Len(values)
           back == Reverse(values)
<1>1. lines \in Lines /\ lines \in Seq(Words \X Words)
    BY RepliesAre DEF Replies
<1>2. values \in Seq(Values) /\ n \in 0..ListLength /\ values \in [1..n -> Values] /\ n \in Nat
    BY MembersAre, LenProperties DEF Lists
<1>3. /\ back \in Seq(Values) /\ Len(back) = n
      /\ \A i \in 1..n : back[n + 1 - i] = values[i]
    BY <1>2, ReversedIs
<1>4. Block(lines, "Route", 2, back) /\ 2 <= Len(lines)
    BY AckIs
<1> HIDE DEF lines, back, n
<1>6. /\ 2 \in 0..Len(sent)
      /\ StandsAt("Route", 2 + 1..2 + n)
      /\ \A i \in 1..n : sent[2 * (2 + i)] = back[i]
    BY <1>1, <1>3, <1>4, BlockIsFound DEF lines
<1>7. ASSUME NEW k \in 1..n PROVE sent[2 * (2 + n + 1 - k)] = values[k]
    <2>1. n + 1 - k \in 1..n /\ 2 + (n + 1 - k) = 2 + n + 1 - k
        BY <1>2
    <2>2. sent[2 * (2 + (n + 1 - k))] = back[n + 1 - k]
        BY <1>6, <2>1
    <2> QED
        BY <1>3, <2>1, <2>2
<1>8. [k \in 1..n |-> sent[2 * (2 + n + 1 - k)]] = values
    BY <1>2, <1>7
<1>9. HoldsFirst(values, "Record-Route", Header)
    BY DEF ListsInv, Lists
<1> QED
    BY <1>2, <1>6, <1>8, <1>9

\* Whatever packet is answered, a reply repeats its Via and Record-Route lines in
\* order, and an ACK takes the recorded route backwards.
THEOREM AnswersFindTheirWay == MessageFairSpec => []FindsItsWay
<1> DEFINE Inv == TextInv /\ TakenInv /\ ListsInv /\ SentInv
<1>1. MessageInit => Inv
    BY TextInvInit, TakenInit, ListsInit, SentInvInit
<1>2. Inv /\ [MessageNext]_messageVars => Inv'
    BY TextInvStep, TakenStep, ListsStep, SentInvStep, MessageSteps DEF TextInv
<1>3. Inv => FindsItsWay
    <2> SUFFICES ASSUME Inv, Complete PROVE FindsItsWay
        BY DEF FindsItsWay
    <2>1. TypeOK
        BY DEF TextInv
    <2>2. sent # <<>>
        BY DEF Complete
    <2>3. at = "parsed" /\ ListsInv
        BY <2>2 DEF SentInv
    <2>4. PICK lines \in Replies :
              sent = SubSeq(Whole(lines), 1, Lesser(TxSize - 1, Len(Whole(lines))))
        BY <2>2 DEF SentInv, SentFromTheBeginning, Replies
    <2>5. sent = Beginning(Whole(lines), Len(Whole(lines)))
        BY <2>4 DEF Beginning, Room
    <2>6. Len(lines) \in Nat /\ Len(lines) >= 1 /\ sent[1] = lines[1][1]
        <3>1. Len(lines) \in Nat /\ Len(lines) >= 1
            BY <2>1, RepliesAreLong
        <3>2. \A k \in 1..Len(lines) : sent[2 * k - 1] = lines[k][1]
            BY <2>1, <2>5, RepliesAre, CompleteIsWhole
        <3>3. 1 \in 1..Len(lines) /\ 2 * 1 - 1 = 1
            BY <3>1
        <3> QED
            BY <3>1, <3>2, <3>3
    <2>7. ASSUME NEW status \in {"200 OK", "603 Decline"}, lines = ReplyHeader(status)
          PROVE  FindsItsWay
        <3>1. status \in Words /\ sent[1] = "SIP/2.0"
            BY <2>1, <2>6, <2>7, ReplyIs, WordsAre
        <3>2. \A name \in Lists : \E n \in 0..ListLength, before \in 0..Len(sent) :
                  /\ StandsAt(name, before + 1..before + n)
                  /\ HoldsFirst([k \in 1..n |-> sent[2 * (before + k)]], name, Header)
            BY <2>1, <2>3, <2>5, <2>7, <3>1, ReplyFindsItsWay
        <3> QED
            BY <3>1, <3>2 DEF FindsItsWay
    <2>8. CASE lines = AckLines
        <3>1. sent[1] = "ACK"
            BY <2>1, <2>6, <2>8, AckIs
        <3>2. \E n \in 0..ListLength, before \in 0..Len(sent) :
                  /\ StandsAt("Route", before + 1..before + n)
                  /\ HoldsFirst([k \in 1..n |-> sent[2 * (before + n + 1 - k)]],
                                "Record-Route", Header)
            BY <2>1, <2>3, <2>5, <2>8, AckFindsItsWay
        <3> QED
            BY <3>1, <3>2 DEF FindsItsWay
    <2> QED
        BY <2>7, <2>8 DEF Replies
<1> QED
    BY <1>1, <1>2, <1>3, PTL DEF MessageFairSpec
-----------------------------------------------------------------------------
(* Whom an acknowledgement names *)

\* The contact and the tag are those of the last lines that say of them.
PeerTaken(lines) ==
    /\ \A i \in Said(lines) : IsLast(i, Said(lines)) => m.contact = text[i].uri
    /\ \A i \in Tagged(lines) : IsLast(i, Tagged(lines)) => m.to_tag = text[i].tag

PeerInv ==
    /\ at = "header" => PeerTaken(1..pos - 1)
    /\ at \in {"body", "parsed"} => PeerTaken(Header)

LEMMA PeerStays ==
    ASSUME text' = text, m'.contact = m.contact, m'.to_tag = m.to_tag
    PROVE  /\ \A lines : PeerTaken(lines)' <=> PeerTaken(lines)
           /\ PeerTaken(Header)' <=> PeerTaken(Header)
<1>1. Header' = Header
    BY DEF Header
<1>2. ASSUME NEW lines
      PROVE  Said(lines)' = Said(lines) /\ Tagged(lines)' = Tagged(lines)
    BY DEF Said, Tagged, Named
<1>3. Said(Header)' = Said(Header) /\ Tagged(Header)' = Tagged(Header)
    BY <1>1 DEF Said, Tagged, Named
<1> QED
    BY <1>2, <1>3 DEF PeerTaken, IsLast

LEMMA PeerGrows ==
    ASSUME TextInv, ParseHeader, ~EndOfHeader, ~HeaderUnended, PeerTaken(1..pos - 1)
    PROVE  PeerTaken(1..pos - 1)'
<1> DEFINE line == text[pos]
<1>1. /\ text' = text /\ pos' = pos + 1 /\ pos \in Int /\ 1 <= pos /\ pos' - 1 = pos
      /\ line \in Line
    BY HeaderRound, LineAtPos DEF TextInv
<1>2. Said(1..pos - 1)' = Said(1..pos) /\ Tagged(1..pos - 1)' = Tagged(1..pos)
    BY <1>1 DEF Said, Tagged, Named
<1>3. ASSUME NEW name
      PROVE  Named(1..pos, name) =
                 Named(1..pos - 1, name) \union (IF line.name = name THEN {pos} ELSE {})
    BY <1>1, NamedGrows
<1>4. ASSUME NEW i \in Said(1..pos), IsLast(i, Said(1..pos))
      PROVE  m'.contact = text[i].uri
    <2>1. CASE line.name = "Contact" /\ line.uri # Absent
        <3>1. m'.contact = line.uri
            BY <2>1, HeaderRound
        <3>2. pos \in Said(1..pos) /\ Said(1..pos) \subseteq 1..pos
            BY <1>3, <2>1 DEF Said, Named
        <3>3. i = pos
            BY <1>1, <1>4, <3>2 DEF IsLast
        <3> QED
            BY <3>1, <3>3
    <2>2. CASE ~(line.name = "Contact" /\ line.uri # Absent)
        <3>1. m'.contact = m.contact
            BY <2>2, HeaderRound
        <3>2. Said(1..pos) = Said(1..pos - 1)
            BY <1>3, <2>2 DEF Said
        <3> QED
            BY <1>4, <3>1, <3>2 DEF PeerTaken
    <2> QED
        BY <2>1, <2>2
<1>5. ASSUME NEW i \in Tagged(1..pos), IsLast(i, Tagged(1..pos))
      PROVE  m'.to_tag = text[i].tag
    <2>1. CASE line.name = "To" /\ line.tag # Absent
        <3>1. m'.to_tag = line.tag
            BY <2>1, HeaderRound DEF Read
        <3>2. pos \in Tagged(1..pos) /\ Tagged(1..pos) \subseteq 1..pos
            BY <1>3, <2>1 DEF Tagged, Named
        <3>3. i = pos
            BY <1>1, <1>5, <3>2 DEF IsLast
        <3> QED
            BY <3>1, <3>3
    <2>2. CASE ~(line.name = "To" /\ line.tag # Absent)
        <3>1. m'.to_tag = m.to_tag
            BY <2>2, HeaderRound DEF Read
        <3>2. Tagged(1..pos) = Tagged(1..pos - 1)
            BY <1>3, <2>2 DEF Tagged
        <3> QED
            BY <1>5, <3>1, <3>2 DEF PeerTaken
    <2> QED
        BY <2>1, <2>2
<1> QED
    BY <1>1, <1>2, <1>4, <1>5 DEF PeerTaken, IsLast

LEMMA PeerInit == MessageInit => PeerInv
<1> SUFFICES ASSUME MessageInit PROVE PeerInv
    OBVIOUS
<1>1. at = "header" /\ pos = 1
    BY DEF MessageInit, Init
<1>2. Said(1..pos - 1) = {} /\ Tagged(1..pos - 1) = {}
    BY <1>1 DEF Said, Tagged, Named
<1> QED
    BY <1>1, <1>2 DEF PeerInv, PeerTaken

LEMMA PeerStep == TextInv /\ TakenInv /\ PeerInv /\ [Parse]_vars => PeerInv'
<1> SUFFICES ASSUME TextInv, TakenInv, PeerInv, [Parse]_vars PROVE PeerInv'
    OBVIOUS
<1>1. CASE ParseHeader /\ ~EndOfHeader /\ ~HeaderUnended
    BY <1>1, HeaderRound, PeerGrows DEF PeerInv
<1>2. CASE EndOfHeader
    <2>1. /\ at = "header" /\ at' \in {"body", "parsed"} /\ UNCHANGED <<text, m>>
          /\ text \in Texts /\ pos \in 1..Len(text) /\ text[pos].name = "empty"
        BY <1>2, LineAtPos DEF EndOfHeader, BodyFollows, TextInv
    <2>2. Header = 1..pos - 1
        BY <2>1, HeaderIs DEF TakenInv
    <2>3. PeerTaken(Header)
        BY <2>1, <2>2 DEF PeerInv
    <2> QED
        BY <2>1, <2>3, PeerStays DEF PeerInv
<1>3. CASE HeaderUnended
    BY <1>3 DEF HeaderUnended, PeerInv
<1>4. CASE ParseBody /\ ~EndOfBody
    BY <1>4, BodyRound, PeerStays DEF PeerInv
<1>5. CASE EndOfBody
    BY <1>5, PeerStays DEF EndOfBody, PeerInv
<1>6. CASE UNCHANGED vars
    BY <1>6, PeerStays DEF vars, PeerInv
<1> QED
    BY <1>1, <1>2, <1>3, <1>4, <1>5, <1>6 DEF Parse

\* Whoever the client knew before, and wherever the lines stand, a complete ACK goes
\* to the last Contact of the packet it acknowledges, with the tag of its last To.
THEOREM AcksNameTheSender == MessageFairSpec => []AckNamesTheSender
<1> DEFINE Inv == TextInv /\ TakenInv /\ PeerInv /\ SentInv
<1>1. MessageInit => Inv
    BY TextInvInit, TakenInit, PeerInit, SentInvInit
<1>2. Inv /\ [MessageNext]_messageVars => Inv'
    BY TextInvStep, TakenStep, PeerStep, SentInvStep, MessageSteps DEF TextInv
<1>3. Inv => AckNamesTheSender
    <2> SUFFICES ASSUME Inv, Complete, sent[1] = "ACK" PROVE AckNamesTheSender
        BY DEF AckNamesTheSender
    <2>1. TypeOK /\ sent # <<>>
        BY DEF TextInv, Complete
    <2>2. PeerTaken(Header)
        BY <2>1 DEF SentInv, PeerInv
    <2>3. PICK lines \in Replies :
              sent = Beginning(Whole(lines), Len(Whole(lines)))
        <3>1. \E lines \in Replies :
                  sent = SubSeq(Whole(lines), 1, Lesser(TxSize - 1, Len(Whole(lines))))
            BY <2>1 DEF SentInv, SentFromTheBeginning, Replies
        <3> QED
            BY <3>1 DEF Beginning, Room
    <2>4. /\ lines[1][1] = "ACK" /\ sent[2] = lines[1][2]
          /\ lines = AckLines => sent[4] = lines[2][2]
        <3>1. \A k \in 1..Len(lines) :
                  sent[2 * k - 1] = lines[k][1] /\ sent[2 * k] = lines[k][2]
            BY <2>1, <2>3, RepliesAre, CompleteIsWhole
        <3>2. Len(lines) \in Nat /\ Len(lines) >= 1 /\ (lines = AckLines => Len(lines) >= 2)
            BY <2>1, RepliesAreLong
        <3>3. 1 \in 1..Len(lines) /\ 2 * 1 - 1 = 1 /\ 2 * 1 = 2
              /\ 2 * 2 = 4 /\ (lines = AckLines => 2 \in 1..Len(lines))
            BY <3>2
        <3> QED
            BY <3>1, <3>3
    <2>5. lines = AckLines
        <3>1. ASSUME NEW status \in Words PROVE lines # ReplyHeader(status)
            BY <2>1, <2>4, ReplyIs
        <3> QED
            BY <3>1, WordsAre DEF Replies
    <2>6. /\ sent[2] = (IF Peer # NoText THEN Peer ELSE Dialled) /\ sent[4] = PeerTag
        BY <2>1, <2>4, <2>5, AckIs
    <2>7. ASSUME NEW i \in DOMAIN text, IsLast(i, Said(Header)), text[i].uri # NoText
          PROVE  sent[2] = text[i].uri
        BY <2>2, <2>6, <2>7 DEF PeerTaken, IsLast, Peer
    <2>8. ASSUME NEW i \in DOMAIN text, IsLast(i, Tagged(Header)), text[i].tag # NoText
          PROVE  sent[4] = text[i].tag
        BY <2>2, <2>6, <2>8 DEF PeerTaken, IsLast, PeerTag
    <2> QED
        BY <2>7, <2>8 DEF AckNamesTheSender
<1> QED
    BY <1>1, <1>2, <1>3, PTL DEF MessageFairSpec
=============================================================================
