------------------------------- MODULE PullPlan -------------------------------
(***************************************************************************)
(* The settings of a NATS pull consumer: what Validate accepts             *)
(* (pull_consumer_validator.go) and the fetch plan ResolvePullPlan derives *)
(* from the backlog (nats/broker.go).  Pure operators; PullRuntime uses    *)
(* them, and PullRuntimeProofs shows what validation buys.                 *)
(***************************************************************************)
EXTENDS Integers

Tiers == {"low", "medium", "high"}

\* PullAdaptiveConfig, with one batch size and one wait per tier.
AdaptiveConfig == [enabled: BOOLEAN, check_interval: Int,
                   medium_pending: Int, high_pending: Int,
                   batch_size: [Tiers -> Int], max_wait: [Tiers -> Int]]

PullConsumerConfig == [stream: STRING, subject: STRING, durable: STRING,
                       batch_size: Int, max_wait: Int, workers: Int,
                       queue_size: Int, ack_wait: Int, max_deliver: Int,
                       adaptive: AdaptiveConfig]

ValidAdaptive(a) ==
    /\ a.check_interval > 0
    /\ a.medium_pending >= 0
    /\ a.high_pending > a.medium_pending
    /\ \A t \in Tiers : a.batch_size[t] > 0 /\ a.max_wait[t] > 0

\* Validate returns nil; which error it returns otherwise is left out.
Valid(cfg) ==
    /\ cfg.stream # "" /\ cfg.subject # "" /\ cfg.durable # ""
    /\ cfg.batch_size > 0
    /\ cfg.max_wait > 0
    /\ cfg.workers > 0
    /\ cfg.queue_size > 0
    /\ cfg.ack_wait > 0
    /\ cfg.max_deliver > 0
    /\ cfg.adaptive.enabled => ValidAdaptive(cfg.adaptive)

-----------------------------------------------------------------------------

\* What the fetcher starts with, and stays with when nothing is adaptive.
BasePlan(cfg) == [batch |-> cfg.batch_size, wait |-> cfg.max_wait]

TierOf(a, pending) ==
    IF pending >= a.high_pending THEN "high"
    ELSE IF pending >= a.medium_pending THEN "medium" ELSE "low"

\* The tier itself is returned for the log only.
ResolvePullPlan(cfg, pending) ==
    IF ~cfg.adaptive.enabled THEN BasePlan(cfg)
    ELSE LET t == TierOf(cfg.adaptive, pending)
         IN [batch |-> cfg.adaptive.batch_size[t],
             wait |-> cfg.adaptive.max_wait[t]]

\* Tiers in the order of the backlogs they are meant for.
Rank(tier) == CASE tier = "low" -> 0
                [] tier = "medium" -> 1
                [] tier = "high" -> 2
=============================================================================
