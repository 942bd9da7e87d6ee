----------------------------- MODULE EventClaims -----------------------------
(***************************************************************************)
(* What the claims of processed_events promise the handlers of user-service*)
(* (broker.go:39, "durable event claims for user projections"): an event is*)
(* worked on only under a claim, one claim is held at a time, a claim is   *)
(* given back only if the event was not applied, and so an event is applied*)
(* at most once, however often and wherever it is delivered.               *)
(***************************************************************************)
EXTENDS Naturals

CONSTANTS Events

VARIABLES
    claimed,    \* events somebody holds, or held for good, the claim of
    applied     \* applied[e]: how many times a handler succeeded on e

Take(e) ==
    /\ e \notin claimed
    /\ claimed' = claimed \cup {e}
    /\ UNCHANGED applied

Apply(e) ==
    /\ e \in claimed
    /\ applied[e] = 0
    /\ applied' = [applied EXCEPT ![e] = 1]
    /\ UNCHANGED claimed

GiveBack(e) ==
    /\ e \in claimed
    /\ applied[e] = 0
    /\ claimed' = claimed \ {e}
    /\ UNCHANGED applied

Init ==
    /\ claimed = {}
    /\ applied = [e \in Events |-> 0]

Next == \E e \in Events : Take(e) \/ Apply(e) \/ GiveBack(e)

Spec == Init /\ [][Next]_<<claimed, applied>>
=============================================================================
