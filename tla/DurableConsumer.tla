--------------------------- MODULE DurableConsumer ---------------------------
(***************************************************************************)
(* What a durable JetStream consumer with explicit acknowledgements        *)
(* promises the handlers of user-service: a message is delivered at most   *)
(* MaxDeliver times, each delivery is handled at most once, a message is   *)
(* acknowledged only after a handler succeeded on it, and is given up only *)
(* after its last delivery.                                                *)
(***************************************************************************)
EXTENDS Naturals

CONSTANTS Messages, MaxDeliver

VARIABLES
    delivered,  \* delivered[m]: how many times m was delivered
    tried,      \* the deliveries <<m, n>> whose handler ran
    handled,    \* messages a handler succeeded on
    settled     \* settled[m]: whether m is still owed, acknowledged or given up

Due(S) == \A m \in S : settled[m] = "owed" /\ delivered[m] < MaxDeliver

DeliverAll(S) ==
    /\ Due(S)
    /\ delivered' = [m \in Messages |-> IF m \in S THEN delivered[m] + 1
                                        ELSE delivered[m]]
    /\ UNCHANGED <<tried, handled, settled>>

Try(m, n) ==
    /\ n \in 1..delivered[m]
    /\ <<m, n>> \notin tried
    /\ tried' = tried \cup {<<m, n>>}
    /\ handled' \in {handled, handled \cup {m}}
    /\ UNCHANGED <<delivered, settled>>

Acknowledge(m) ==
    /\ m \in handled
    /\ settled[m] = "owed"
    /\ settled' = [settled EXCEPT ![m] = "acked"]
    /\ UNCHANGED <<delivered, tried, handled>>

GiveUp(m) ==
    /\ settled[m] = "owed"
    /\ delivered[m] = MaxDeliver
    /\ settled' = [settled EXCEPT ![m] = "givenup"]
    /\ UNCHANGED <<delivered, tried, handled>>

Init ==
    /\ delivered = [m \in Messages |-> 0]
    /\ tried = {}
    /\ handled = {}
    /\ settled = [m \in Messages |-> "owed"]

Next ==
    \/ \E S \in SUBSET Messages : DeliverAll(S)
    \/ \E m \in Messages :
          \/ \E n \in 1..MaxDeliver : Try(m, n)
          \/ Acknowledge(m)
          \/ GiveUp(m)

Spec == Init /\ [][Next]_<<delivered, tried, handled, settled>>
=============================================================================
