------------------------------- MODULE Mailbox -------------------------------
(***************************************************************************)
(* What rx() of the SIP client is promised of its socket: the datagrams    *)
(* that arrived, each with its own text, in order and at most once.  What  *)
(* has arrived last may be lost, as when the socket is closed.             *)
(***************************************************************************)
EXTENDS Naturals, Sequences

CONSTANT Texts   \* what a datagram may hold

VARIABLES
    inbox,   \* what has arrived and was not handed on yet
    given    \* what the step handed on: <<text>>, or nothing

Init == inbox = <<>> /\ given = <<>>

Arrive(text) == inbox' = Append(inbox, text) /\ given' = <<>>

Give ==
    /\ inbox # <<>>
    /\ given' = <<Head(inbox)>> /\ inbox' = Tail(inbox)

Lose(kept) == inbox' = SubSeq(inbox, 1, kept) /\ given' = <<>>

Next ==
    \/ \E text \in Texts : Arrive(text)
    \/ Give
    \/ \E kept \in 0..Len(inbox) : Lose(kept)

Spec == Init /\ [][Next]_<<inbox, given>>
=============================================================================
