------------------------------ MODULE Lifecycle ------------------------------
(***************************************************************************)
(* What a session promises its owner (SPEC.md 9.1, 9.2, 9.4, 9.5): the     *)
(* negotiation diagrams, with on_open called on entering Connected,        *)
(* on_close called on entering Closed, and the error that each cause of a  *)
(* close reports.  There is no way out of Closed.                          *)
(***************************************************************************)
EXTENDS Integers

VARIABLES state, error, opens, closes

vars == <<state, error, opens, closes>>

Init == state = "IDLE" /\ error = 0 /\ opens = 0 /\ closes = 0

(* The offer or the answer is ready to be delivered. *)
Offer ==
    /\ state = "IDLE" /\ state' \in {"OFFER_SENT", "ANSWER_SENT"}
    /\ UNCHANGED <<error, opens, closes>>

Answered ==
    /\ state = "OFFER_SENT" /\ state' = "NEGOTIATING"
    /\ UNCHANGED <<error, opens, closes>>

Connected ==
    /\ state \in {"NEGOTIATING", "ANSWER_SENT"} /\ state' = "CONNECTED"
    /\ opens' = opens + 1
    /\ UNCHANGED <<error, closes>>

(* Codes that may only report a close from some states: the two timeouts,  *)
(* the ICE failure and the loss of an open connection.                     *)
Allowed(err) ==
    /\ err = 14 => state = "OFFER_SENT"
    /\ err \in {5, 15} => state \in {"NEGOTIATING", "ANSWER_SENT"}
    /\ err = 32 => state = "CONNECTED"

Closed ==
    /\ state # "CLOSED" /\ state' = "CLOSED"
    /\ closes' = closes + 1
    /\ error' \in Int /\ Allowed(error')
    /\ UNCHANGED opens

Next == Offer \/ Answered \/ Connected \/ Closed

Spec == Init /\ [][Next]_vars
=============================================================================
