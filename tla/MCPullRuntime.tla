---------------------------- MODULE MCPullRuntime ----------------------------
(***************************************************************************)
(* PullRuntime on a small instance: batches larger than the channel, two   *)
(* deliveries per message.  The plan stays the base plan: what the adaptive*)
(* one can be is the subject of PullRuntimeProofs.                         *)
(***************************************************************************)
EXTENDS PullRuntime

CONSTANTS p1, p2, w1, m1, m2, none

OneMessageFails == {m2}

TinyConfig ==
    [stream |-> "SagaCommandsStream", subject |-> "SagaCreateUserSubject",
     durable |-> "SagaCreateUserDurable", batch_size |-> 2, max_wait |-> 1,
     workers |-> 1, queue_size |-> 1, ack_wait |-> 1, max_deliver |-> 2,
     adaptive |-> [enabled |-> FALSE, check_interval |-> 0,
                   medium_pending |-> 0, high_pending |-> 0,
                   batch_size |-> [t \in Tiers |-> 0],
                   max_wait |-> [t \in Tiers |-> 0]]]
=============================================================================
