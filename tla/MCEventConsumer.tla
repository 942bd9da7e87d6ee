--------------------------- MODULE MCEventConsumer ---------------------------
(***************************************************************************)
(* EventConsumer on small instances.                                       *)
(***************************************************************************)
EXTENDS EventConsumer, TLC

CONSTANTS good, fine, bad, torn

\* bad is a command whose handler always fails, torn one that cannot be unwrapped.
BadIsFailing == [e \in Events |-> CASE e \in {good, fine} -> "sound"
                                    [] e = bad -> "failing"
                                    [] e = torn -> "garbled"]

AllFaults == FaultKinds
\* What happens to a loop whose database answers and whose process lives.
LiveFaults == {"kafka", "handler", "duplicate", "rebalance"}
OnlyShutdown == {"shutdown"}

Members == Permutations(Consumers)
=============================================================================
