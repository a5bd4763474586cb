---------------------------- MODULE MCSipClient ----------------------------
(* An instance of SipClient for TLC. *)
EXTENDS SipClient, TLC

\* A contact is compared with another and with the empty one, and nothing else
\* is done with it; all properties are about states and steps.
Symmetry == Permutations(Contacts)
=============================================================================
