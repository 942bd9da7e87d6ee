--------------------------- MODULE PullRuntimeProofs ---------------------------
(***************************************************************************)
(* For any number of replicas, workers and messages, any settings Validate *)
(* accepts and any faults: every plan of the fetcher can be used, and the  *)
(* types and the streams are right.  What becomes of the deliveries is the *)
(* subject of PullAccountingProofs.                                        *)
(***************************************************************************)
EXTENDS PullRuntime, FiniteSetTheorems, TLAPS

USE DEF bootVars, streamVars, historyVars

-----------------------------------------------------------------------------
\* What Validate buys.

\* The tier of a backlog is one of the three.
LEMMA TierIsTier ==
    ASSUME NEW a, NEW pending
    PROVE  TierOf(a, pending) \in Tiers
BY DEF TierOf, Tiers

\* Fetch is never called with a batch or a wait that is not positive, with the
\* base plan or any plan the backlog chooses (pull_consumer_validator.go:21-52,
\* broker.go:202-215).
THEOREM PlansAreUsable ==
    ASSUME NEW cfg \in PullConsumerConfig, Valid(cfg), NEW pending \in Nat
    PROVE  /\ BasePlan(cfg).batch \in Nat \ {0}
           /\ BasePlan(cfg).wait \in Nat \ {0}
           /\ ResolvePullPlan(cfg, pending).batch \in Nat \ {0}
           /\ ResolvePullPlan(cfg, pending).wait \in Nat \ {0}
<1>1. BasePlan(cfg).batch \in Nat \ {0} /\ BasePlan(cfg).wait \in Nat \ {0}
  <2>1. /\ cfg.batch_size \in Int /\ cfg.batch_size > 0
        /\ cfg.max_wait \in Int /\ cfg.max_wait > 0
    BY DEF Valid, PullConsumerConfig
  <2> QED
    BY <2>1 DEF BasePlan
<1>2. CASE ~cfg.adaptive.enabled
  BY <1>1, <1>2 DEF ResolvePullPlan
<1>3. CASE cfg.adaptive.enabled
  <2> DEFINE t == TierOf(cfg.adaptive, pending)
  <2>1. t \in Tiers
    BY TierIsTier
  <2>2. /\ cfg.adaptive.batch_size[t] \in Int /\ cfg.adaptive.batch_size[t] > 0
        /\ cfg.adaptive.max_wait[t] \in Int /\ cfg.adaptive.max_wait[t] > 0
    BY <1>3, <2>1 DEF Valid, ValidAdaptive, PullConsumerConfig, AdaptiveConfig
  <2> QED
    BY <1>1, <1>3, <2>2 DEF ResolvePullPlan
<1> QED
  BY <1>2, <1>3

\* The thresholds Validate accepts split the backlogs into three ranges in the
\* order low, medium, high; "high" and "medium" are used, and "low" unless the
\* medium threshold is zero (pull_consumer_validator.go:45, broker.go:207-214).
THEOREM TiersFollowBacklog ==
    ASSUME NEW a \in AdaptiveConfig, ValidAdaptive(a)
    PROVE  /\ \A n, m \in Nat :
                  n <= m => Rank(TierOf(a, n)) <= Rank(TierOf(a, m))
           /\ TierOf(a, a.high_pending) = "high"
           /\ TierOf(a, a.medium_pending) = "medium"
           /\ a.medium_pending > 0 => TierOf(a, 0) = "low"
<1>1. /\ a.medium_pending \in Nat /\ a.high_pending \in Nat
      /\ a.high_pending > a.medium_pending
  BY DEF AdaptiveConfig, ValidAdaptive
<1>2. Rank("low") = 0 /\ Rank("medium") = 1 /\ Rank("high") = 2
  BY DEF Rank
<1>3. ASSUME NEW n \in Nat, NEW m \in Nat, n <= m
      PROVE  Rank(TierOf(a, n)) <= Rank(TierOf(a, m))
  <2>1. CASE n >= a.high_pending
    BY <1>1, <1>2, <1>3, <2>1 DEF TierOf
  <2>2. CASE n < a.high_pending /\ n >= a.medium_pending
    BY <1>1, <1>2, <1>3, <2>2 DEF TierOf
  <2>3. CASE n < a.medium_pending
    BY <1>1, <1>2, <1>3, <2>3 DEF TierOf
  <2> QED
    BY <1>1, <2>1, <2>2, <2>3
<1> QED
  BY <1>1, <1>3 DEF TierOf

-----------------------------------------------------------------------------
\* The runtime.

Plans == [batch: Nat \ {0}, wait: Nat \ {0}]
WorkerStates == [at: WorkerSteps, with: Deliveries \cup {NoDelivery}]

LEMMA ConfigFacts ==
    /\ MaxDeliver \in Nat \ {0}
    /\ QueueSize \in Nat \ {0}
    /\ BasePlan(Config) \in Plans
    /\ \A pending \in Nat : ResolvePullPlan(Config, pending) \in Plans
<1>1. MaxDeliver \in Nat \ {0} /\ QueueSize \in Nat \ {0}
  <2>1. /\ Config.max_deliver \in Int /\ Config.queue_size \in Int
        /\ Config.max_deliver > 0 /\ Config.queue_size > 0
    BY RuntimeAssumption DEF Valid, PullConsumerConfig
  <2> QED
    BY <2>1 DEF MaxDeliver, QueueSize
<1>2. BasePlan(Config) \in Plans
  <2>1. BasePlan(Config).batch \in Nat \ {0} /\ BasePlan(Config).wait \in Nat \ {0}
    BY PlansAreUsable, RuntimeAssumption
  <2> QED
    BY <2>1 DEF BasePlan, Plans
<1>3. ASSUME NEW pending \in Nat
      PROVE  ResolvePullPlan(Config, pending) \in Plans
  <2>1. /\ ResolvePullPlan(Config, pending).batch \in Nat \ {0}
        /\ ResolvePullPlan(Config, pending).wait \in Nat \ {0}
    BY PlansAreUsable, RuntimeAssumption
  <2> QED
    BY <1>2, <2>1 DEF ResolvePullPlan, BasePlan, Plans
<1> QED
  BY <1>1, <1>2, <1>3

LEMMA BacklogIsNat ==
    ASSUME NEW S \in SUBSET Messages
    PROVE  Cardinality(S) \in Nat
BY RuntimeAssumption, FS_Subset, FS_CardinalityType

-----------------------------------------------------------------------------
\* The inductive invariant.

\* What the places in the program say about what is held there.
Control ==
    /\ \A p \in Replicas :
          /\ ctx[p] = "off" => fetcher[p] = "closed"
          /\ fetcher[p] = "closed" =>
                jobs[p] = <<>> /\ \A w \in Workers : worker[p][w].at = "gone"
          /\ fetcher[p] # "dispatch" => batch[p] = {}
          /\ \A w \in Workers :
                /\ worker[p][w].at \in {"handle", "ack", "nak"} =>
                      worker[p][w].with \in Deliveries
                /\ worker[p][w].at \in {"ack", "nak"} => worker[p][w].with \in tried
                /\ worker[p][w].at = "ack" => worker[p][w].with[1] \in handled
    /\ \A m \in Messages : status[m] = "owed" => delivered[m] < MaxDeliver

IInv == PullTypeOK /\ Control

-----------------------------------------------------------------------------
\* EnsureStream.

LEMMA StreamFacts ==
    /\ Len(StreamNames) = 3
    /\ DOMAIN StreamNames = 1..3
    /\ AllStreams = {StreamNames[1], StreamNames[2], StreamNames[3]}
BY DEF StreamNames, AllStreams

LEMMA BootSteps_Type ==
    ASSUME BootTypeOK, NEW p \in Replicas,
           \/ StartProcess(p)
           \/ EnsureStream(p)
    PROVE  BootTypeOK'
<1> USE StreamFacts, BootAssumption DEF BootTypeOK, BootSteps, Ensuring, Fault, Stream
<1>1. CASE StartProcess(p)
  BY <1>1 DEF StartProcess
<1>2. CASE AddStream(p)
  BY <1>2 DEF AddStream, StreamEnsured
<1>3. CASE AddStreamFails(p)
  BY <1>3 DEF AddStreamFails
<1>4. CASE UpdateStream(p)
  BY <1>4 DEF UpdateStream, StreamEnsured
<1>5. CASE EnsureFails(p)
  BY <1>5 DEF EnsureFails
<1> QED
  BY <1>1, <1>2, <1>3, <1>4, <1>5 DEF EnsureStream

LEMMA Bootstrap_Inv ==
    ASSUME IInv, NEW p \in Replicas, Bootstrap(p)
    PROVE  IInv'
<1>1. BootTypeOK'
  BY BootSteps_Type DEF Bootstrap, IInv, PullTypeOK
<1> QED
  BY <1>1 DEF Bootstrap, processVars, IInv, PullTypeOK, Control

-----------------------------------------------------------------------------
\* Starting and ending a process.

LEMMA Runtime_Types ==
    ASSUME IInv, NEW p \in Replicas,
           NEW c \in Contexts, NEW f \in FetcherSteps, NEW s \in WorkerSteps,
           Runtime(p, c, f, s)
    PROVE  /\ ctx' = [ctx EXCEPT ![p] = c]
           /\ ctx' \in [Replicas -> Contexts]
           /\ plan' \in [Replicas -> Plans]
           /\ fetcher' = [fetcher EXCEPT ![p] = f]
           /\ fetcher' \in [Replicas -> FetcherSteps]
           /\ batch' = [batch EXCEPT ![p] = {}]
           /\ batch' \in [Replicas -> SUBSET Deliveries]
           /\ jobs' = [jobs EXCEPT ![p] = <<>>]
           /\ jobs' \in [Replicas -> Seq(Deliveries)]
           /\ \A q \in Replicas : Len(jobs'[q]) <= QueueSize
           /\ worker' \in [Replicas -> [Workers -> WorkerStates]]
           /\ \A w \in Workers : worker'[p][w] = [at |-> s, with |-> NoDelivery]
           /\ \A q \in Replicas \ {p} : worker'[q] = worker[q]
<1> USE DEF IInv, PullTypeOK, Runtime
<1>1. plan' \in [Replicas -> Plans]
  BY ConfigFacts DEF Plans
<1>2. AllWorkers(s) \in [Workers -> WorkerStates]
  BY DEF AllWorkers, WorkerStates
<1>3. /\ worker' \in [Replicas -> [Workers -> WorkerStates]]
      /\ worker'[p] = AllWorkers(s)
      /\ \A q \in Replicas \ {p} : worker'[q] = worker[q]
  BY <1>2 DEF WorkerStates
<1>4. /\ jobs' \in [Replicas -> Seq(Deliveries)]
      /\ \A q \in Replicas : Len(jobs'[q]) <= QueueSize
  BY ConfigFacts
<1> QED
  BY <1>1, <1>3, <1>4 DEF AllWorkers

\* A start or an end leaves nothing in the process.
LEMMA Runtime_Inv ==
    ASSUME IInv, NEW p \in Replicas,
           NEW c \in Contexts, NEW f \in FetcherSteps, NEW s \in {"idle", "gone"},
           Runtime(p, c, f, s),
           BootTypeOK',
           f # "closed" => c # "off",
           f = "closed" => s = "gone",
           UNCHANGED <<streamVars, tried, handled>>,
           dropped' \subseteq Deliveries
    PROVE  IInv'
<1>0. s \in WorkerSteps
  BY DEF WorkerSteps
<1>1. PullTypeOK'
  BY <1>0, Runtime_Types DEF IInv, PullTypeOK, Plans, WorkerStates
<1>2. ASSUME NEW q \in Replicas
      PROVE  /\ ctx'[q] = "off" => fetcher'[q] = "closed"
             /\ fetcher'[q] = "closed" =>
                   jobs'[q] = <<>> /\ \A w \in Workers : worker'[q][w].at = "gone"
             /\ fetcher'[q] # "dispatch" => batch'[q] = {}
             /\ \A w \in Workers :
                   /\ worker'[q][w].at \in {"handle", "ack", "nak"} =>
                         worker'[q][w].with \in Deliveries
                   /\ worker'[q][w].at \in {"ack", "nak"} =>
                         worker'[q][w].with \in tried'
                   /\ worker'[q][w].at = "ack" => worker'[q][w].with[1] \in handled'
  <2>1. CASE q = p
    <3>1. /\ ctx'[q] = c /\ fetcher'[q] = f /\ jobs'[q] = <<>> /\ batch'[q] = {}
          /\ \A w \in Workers : worker'[q][w] = [at |-> s, with |-> NoDelivery]
      BY <1>0, <2>1, Runtime_Types DEF IInv, PullTypeOK
    <3>2. \A w \in Workers : worker'[q][w].at = s
      BY <3>1
    <3> QED
      BY <3>1, <3>2
  <2>2. CASE q # p
    <3>1. /\ ctx'[q] = ctx[q] /\ fetcher'[q] = fetcher[q] /\ jobs'[q] = jobs[q]
          /\ batch'[q] = batch[q]
      BY <2>2 DEF Runtime, IInv, PullTypeOK
    <3>2. worker'[q] = worker[q]
      BY <1>0, <2>2, Runtime_Types
    <3> QED
      BY <3>1, <3>2 DEF IInv, Control
  <2> QED
    BY <2>1, <2>2
<1> QED
  BY <1>1, <1>2 DEF IInv, Control

LEMMA Lifecycle_Inv ==
    ASSUME IInv, NEW p \in Replicas,
           \/ RunPullConsumer(p)
           \/ CreateFails(p)
           \/ Stop(p)
           \/ Exit(p)
           \/ Crash(p)
    PROVE  IInv'
<1> USE BootAssumption DEF Contexts, FetcherSteps, WorkerSteps
<1>1. CASE RunPullConsumer(p)
  BY <1>1, Runtime_Inv DEF RunPullConsumer, Start, IInv, PullTypeOK, BootTypeOK
<1>2. CASE CreateFails(p)
  BY <1>2, StreamFacts
  DEF CreateFails, processVars, Fault, IInv, PullTypeOK, BootTypeOK, Control, BootSteps
<1>3. CASE Stop(p)
  BY <1>3 DEF Stop, Fault, IInv, PullTypeOK, BootTypeOK, Control
<1>4. CASE Exit(p)
  <2>1. BootTypeOK'
    BY <1>4, StreamFacts DEF Exit, Ends, IInv, PullTypeOK, BootTypeOK, BootSteps
  <2> QED
    BY <1>4, <2>1, Runtime_Inv DEF Exit, Ends, IInv, PullTypeOK
<1>5. CASE Crash(p)
  <2>1. dropped' \subseteq Deliveries
    BY <1>5 DEF Crash, IInv, PullTypeOK, Control, Queued, InHand
  <2>2. BootTypeOK'
    BY <1>5, StreamFacts DEF Crash, Fault, Ends, IInv, PullTypeOK, BootTypeOK, BootSteps
  <2> QED
    BY <1>5, <2>1, <2>2, Runtime_Inv DEF Crash, Ends
<1> QED
  BY <1>1, <1>2, <1>3, <1>4, <1>5

-----------------------------------------------------------------------------
\* JetStream.

LEMMA AckWait_Inv ==
    ASSUME IInv, NEW m \in Messages, AckWaitElapses(m)
    PROVE  IInv'
BY ConfigFacts
DEF AckWaitElapses, OweAgain, processVars, IInv, PullTypeOK, BootTypeOK, Control, Statuses

LEMMA Delivery_Types ==
    ASSUME IInv, NEW S \in SUBSET Owed, DeliverAll(S)
    PROVE  /\ status' \in [Messages -> Statuses]
           /\ delivered' \in [Messages -> 0..MaxDeliver]
           /\ \A m \in Messages : status'[m] = "owed" => delivered'[m] < MaxDeliver
           /\ Fetched(S) \subseteq Deliveries
<1> USE ConfigFacts DEF IInv, PullTypeOK, Control, DeliverAll, Owed, Statuses
<1>1. status' \in [Messages -> Statuses]
  OBVIOUS
<1>2. delivered' \in [Messages -> 0..MaxDeliver]
  OBVIOUS
<1>3. \A m \in Messages : status'[m] = "owed" => delivered'[m] < MaxDeliver
  OBVIOUS
<1>4. Fetched(S) \subseteq Deliveries
  BY DEF Fetched, Deliveries
<1> QED
  BY <1>1, <1>2, <1>3, <1>4

-----------------------------------------------------------------------------
\* The fetcher.

LEMMA Fetcher_Inv ==
    ASSUME IInv, NEW p \in Replicas, FetcherStep(p)
    PROVE  IInv'
<1> USE BootAssumption DEF IInv, FetcherGoes, FetcherSteps
<1>1. CASE CheckPlan(p)
  <2>1. plan' \in [Replicas -> Plans]
    <3>1. Cardinality({m \in Messages : delivered[m] = 0}) \in Nat
      BY BacklogIsNat
    <3>2. PICK n \in Nat :
               \/ plan' = plan
               \/ plan' = [plan EXCEPT ![p] = ResolvePullPlan(Config, n)]
      BY <1>1, <3>1 DEF CheckPlan
    <3>3. ResolvePullPlan(Config, n) \in Plans
      BY ConfigFacts
    <3>4. plan \in [Replicas -> Plans]
      BY DEF PullTypeOK, Plans
    <3> QED
      BY <3>2, <3>3, <3>4
  <2>2. PullTypeOK'
    BY <1>1, <2>1 DEF CheckPlan, PullTypeOK, BootTypeOK, Plans
  <2>3. /\ \E step \in {"wait", "fetch"} : fetcher' = [fetcher EXCEPT ![p] = step]
        /\ fetcher[p] = "check"
        /\ UNCHANGED <<ctx, batch, jobs, worker, tried, handled, status, delivered>>
    BY <1>1 DEF CheckPlan
  <2> QED
    BY <2>2, <2>3 DEF PullTypeOK, Control
<1>2. CASE Fetch(p)
  <2>1. PICK S \in SUBSET Owed : DeliverAll(S) /\ batch' = [batch EXCEPT ![p] = Fetched(S)]
    BY <1>2 DEF Fetch
  <2>2. batch' \in [Replicas -> SUBSET Deliveries]
    BY <2>1, Delivery_Types DEF PullTypeOK
  <2> QED
    BY <1>2, <2>1, <2>2, Delivery_Types DEF Fetch, PullTypeOK, BootTypeOK, Control
<1>3. CASE FetchFails(p)
  <2>1. /\ status' \in [Messages -> Statuses]
        /\ delivered' \in [Messages -> 0..MaxDeliver]
        /\ \A m \in Messages : status'[m] = "owed" => delivered'[m] < MaxDeliver
        /\ dropped' \subseteq Deliveries
        /\ faults' \in 0..MaxFaults
    BY <1>3, Delivery_Types DEF FetchFails, Fault, PullTypeOK, BootTypeOK, Control
  <2> QED
    BY <1>3, <2>1 DEF FetchFails, PullTypeOK, BootTypeOK, Control
<1>4. CASE Dispatch(p)
  <2>1. PICK d \in batch[p] :
              /\ jobs' = [jobs EXCEPT ![p] = Append(jobs[p], d)]
              /\ batch' = [batch EXCEPT ![p] = batch[p] \ {d}]
              /\ FetcherGoes(p, IF batch[p] = {d} THEN "check" ELSE "dispatch")
    BY <1>4 DEF Dispatch
  <2>2. d \in Deliveries
    BY <2>1 DEF PullTypeOK
  <2>3. /\ Append(jobs[p], d) \in Seq(Deliveries)
        /\ Len(Append(jobs[p], d)) = Len(jobs[p]) + 1
    BY <2>2 DEF PullTypeOK
  <2>4. /\ jobs' \in [Replicas -> Seq(Deliveries)]
        /\ \A q \in Replicas : Len(jobs'[q]) <= QueueSize
    BY <1>4, <2>1, <2>3, ConfigFacts DEF Dispatch, PullTypeOK
  <2>5. PullTypeOK'
    BY <1>4, <2>1, <2>4 DEF Dispatch, PullTypeOK, BootTypeOK
  <2> QED
    BY <1>4, <2>1, <2>5 DEF Dispatch, PullTypeOK, Control
<1>5. CASE DispatchStops(p)
  BY <1>5 DEF DispatchStops, PullTypeOK, BootTypeOK, Control
<1>6. CASE Close(p)
  <2>1. dropped' \subseteq Deliveries
    BY <1>6 DEF Close, Queued, PullTypeOK
  <2>2. /\ jobs' \in [Replicas -> Seq(Deliveries)]
        /\ \A q \in Replicas : Len(jobs'[q]) <= QueueSize
    BY <1>6, ConfigFacts DEF Close, PullTypeOK
  <2>3. PullTypeOK'
    BY <1>6, <2>1, <2>2 DEF Close, PullTypeOK, BootTypeOK
  <2>4. /\ fetcher' = [fetcher EXCEPT ![p] = "closed"]
        /\ jobs' = [jobs EXCEPT ![p] = <<>>]
        /\ \A w \in Workers : worker[p][w].at = "gone"
        /\ fetcher[p] = "wait"
        /\ UNCHANGED <<ctx, batch, worker, tried, handled, status, delivered>>
    BY <1>6 DEF Close
  <2> QED
    BY <2>3, <2>4 DEF PullTypeOK, Control
<1> QED
  BY <1>1, <1>2, <1>3, <1>4, <1>5, <1>6 DEF FetcherStep

-----------------------------------------------------------------------------
\* A worker of p.

\* What a worker does that goes on to step with delivery d, in the types.
LEMMA WorkerGoes_Inv ==
    ASSUME IInv, NEW p \in Replicas, NEW w \in Workers, NEW step \in WorkerSteps,
           NEW d \in Deliveries \cup {NoDelivery},
           WorkerGoes(p, w, step, d),
           ctx[p] # "off", worker[p][w].at # "gone",
           step \in {"handle", "ack", "nak"} => d \in Deliveries,
           step \in {"ack", "nak"} => d \in tried',
           step = "ack" => d[1] \in handled',
           UNCHANGED <<streams, boot, delivered, ctx, plan, fetcher, batch, dropped>>,
           faults' \in 0..MaxFaults,
           status' \in [Messages -> Statuses],
           \A m \in Messages : status'[m] = "owed" => delivered[m] < MaxDeliver,
           jobs' \in [Replicas -> Seq(Deliveries)],
           \A q \in Replicas : Len(jobs'[q]) <= QueueSize,
           \A q \in Replicas : jobs[q] = <<>> => jobs'[q] = <<>>,
           tried' \in SUBSET Deliveries, tried \subseteq tried',
           handled' \in SUBSET Messages, handled \subseteq handled'
    PROVE  IInv'
<1>1. /\ worker' \in [Replicas -> [Workers -> WorkerStates]]
      /\ worker'[p][w] = [at |-> step, with |-> d]
      /\ \A q \in Replicas, v \in Workers :
            q # p \/ v # w => worker'[q][v] = worker[q][v]
  <2>1. [at |-> step, with |-> d] \in WorkerStates
    BY DEF WorkerStates
  <2>2. worker \in [Replicas -> [Workers -> WorkerStates]]
    BY DEF IInv, PullTypeOK, WorkerStates
  <2> QED
    BY <2>1, <2>2 DEF WorkerGoes
<1>2. PullTypeOK'
  BY <1>1 DEF IInv, PullTypeOK, BootTypeOK, WorkerStates
<1>3. /\ worker'[p][w].at = step
      /\ worker'[p][w].with = d
  BY <1>1
<1>4. ASSUME NEW q \in Replicas, NEW v \in Workers
      PROVE  /\ worker'[q][v].at \in {"handle", "ack", "nak"} =>
                   worker'[q][v].with \in Deliveries
             /\ worker'[q][v].at \in {"ack", "nak"} => worker'[q][v].with \in tried'
             /\ worker'[q][v].at = "ack" => worker'[q][v].with[1] \in handled'
  <2>1. CASE q = p /\ v = w
    BY <1>3, <2>1
  <2>2. CASE q # p \/ v # w
    <3>1. worker'[q][v] = worker[q][v]
      BY <1>1, <2>2
    <3>2. /\ worker[q][v].at \in {"handle", "ack", "nak"} =>
                worker[q][v].with \in Deliveries
          /\ worker[q][v].at \in {"ack", "nak"} => worker[q][v].with \in tried
          /\ worker[q][v].at = "ack" => worker[q][v].with[1] \in handled
      BY DEF IInv, Control
    <3> QED
      BY <3>1, <3>2
  <2> QED
    BY <2>1, <2>2
<1>5. fetcher[p] # "closed"
  BY DEF IInv, Control
<1>6. ASSUME NEW q \in Replicas
      PROVE  /\ ctx'[q] = "off" => fetcher'[q] = "closed"
             /\ fetcher'[q] = "closed" =>
                   jobs'[q] = <<>> /\ \A v \in Workers : worker'[q][v].at = "gone"
             /\ fetcher'[q] # "dispatch" => batch'[q] = {}
  <2>1. fetcher[q] = "closed" => \A v \in Workers : worker'[q][v] = worker[q][v]
    BY <1>1, <1>5
  <2> QED
    BY <2>1 DEF IInv, Control
<1> QED
  BY <1>2, <1>4, <1>6 DEF Control, IInv

LEMMA OweAgain_Type ==
    ASSUME IInv, NEW m \in Messages, OweAgain(m)
    PROVE  /\ status' \in [Messages -> Statuses]
           /\ \A k \in Messages : status'[k] = "owed" => delivered[k] < MaxDeliver
BY ConfigFacts DEF OweAgain, IInv, PullTypeOK, Control, Statuses

LEMMA Worker_Inv ==
    ASSUME IInv, NEW p \in Replicas, NEW w \in Workers, WorkerStep(p, w)
    PROVE  IInv'
<1> DEFINE d == worker[p][w].with
<1>1. /\ faults \in 0..MaxFaults
      /\ status \in [Messages -> Statuses]
      /\ \A m \in Messages : status[m] = "owed" => delivered[m] < MaxDeliver
      /\ jobs \in [Replicas -> Seq(Deliveries)]
      /\ \A q \in Replicas : Len(jobs[q]) <= QueueSize
      /\ tried \in SUBSET Deliveries
      /\ handled \in SUBSET Messages
      /\ worker[p][w].at \in {"handle", "ack", "nak"} => d \in Deliveries
      /\ worker[p][w].at \in {"ack", "nak"} => d \in tried
      /\ worker[p][w].at = "ack" => d[1] \in handled
      /\ MaxFaults \in Nat
  BY BootAssumption DEF IInv, PullTypeOK, BootTypeOK, Control
<1>2. CASE Take(p, w)
  <2>1. /\ Head(jobs[p]) \in Deliveries
        /\ Tail(jobs[p]) \in Seq(Deliveries)
        /\ Len(Tail(jobs[p])) = Len(jobs[p]) - 1
    BY <1>1, <1>2 DEF Take
  <2>2. /\ jobs' \in [Replicas -> Seq(Deliveries)]
        /\ \A q \in Replicas : Len(jobs'[q]) <= QueueSize
        /\ \A q \in Replicas : jobs[q] = <<>> => jobs'[q] = <<>>
    BY <1>1, <1>2, <2>1, ConfigFacts DEF Take
  <2> QED
    BY <1>1, <1>2, <2>1, <2>2, WorkerGoes_Inv DEF Take, WorkerAt, WorkerSteps
<1>3. CASE WorkerStops(p, w)
  BY <1>1, <1>3, WorkerGoes_Inv DEF WorkerStops, WorkerAt, WorkerSteps
<1>4. CASE HandlerSucceeds(p, w)
  <2>1. d \in Deliveries /\ d[1] \in Messages
    BY <1>1, <1>4 DEF HandlerSucceeds, WorkerAt, Deliveries
  <2> QED
    BY <1>1, <1>4, <2>1, WorkerGoes_Inv DEF HandlerSucceeds, WorkerAt, WorkerSteps
<1>5. CASE HandlerFails(p, w)
  <2>1. d \in Deliveries /\ faults' \in 0..MaxFaults
    BY <1>1, <1>5 DEF HandlerFails, WorkerAt, Fault
  <2> QED
    BY <1>1, <1>5, <2>1, WorkerGoes_Inv DEF HandlerFails, WorkerAt, WorkerSteps
<1>6. CASE Ack(p, w)
  <2>1. /\ faults' \in 0..MaxFaults
        /\ status' \in [Messages -> Statuses]
        /\ \A m \in Messages : status'[m] = "owed" => status[m] = "owed"
    BY <1>1, <1>6 DEF Ack, Acked, Fault, Statuses
  <2> QED
    BY <1>1, <1>6, <2>1, WorkerGoes_Inv DEF Ack, WorkerAt, WorkerSteps
<1>7. CASE Nak(p, w)
  <2>1. d[1] \in Messages
    BY <1>1, <1>7 DEF Nak, WorkerAt, Deliveries
  <2>2. OweAgain(d[1]) \/ UNCHANGED status
    BY <1>7 DEF Nak
  <2>3. /\ faults' \in 0..MaxFaults
        /\ status' \in [Messages -> Statuses]
        /\ \A m \in Messages : status'[m] = "owed" => delivered[m] < MaxDeliver
    <3>1. faults' \in 0..MaxFaults
      BY <1>1, <1>7 DEF Nak, Fault
    <3> QED
      BY <1>1, <2>1, <2>2, <3>1, OweAgain_Type
  <2> QED
    BY <1>1, <1>7, <2>3, WorkerGoes_Inv DEF Nak, WorkerAt, WorkerSteps
<1> QED
  BY <1>2, <1>3, <1>4, <1>5, <1>6, <1>7 DEF WorkerStep

-----------------------------------------------------------------------------

LEMMA IInv_Init == PullInit => IInv
<1> SUFFICES ASSUME PullInit PROVE IInv
  OBVIOUS
<1> USE ConfigFacts, StreamFacts, BootAssumption DEF PullInit, BootInit
<1>1. BootTypeOK
  BY DEF BootTypeOK, BootSteps
<1>2. worker \in [Replicas -> [Workers -> WorkerStates]]
  BY DEF AllWorkers, WorkerStates, WorkerSteps
<1>3. PullTypeOK
  BY <1>1, <1>2
  DEF PullTypeOK, Statuses, Contexts, FetcherSteps, Plans, WorkerStates
<1>4. Control
  BY DEF Control, AllWorkers
<1> QED
  BY <1>3, <1>4 DEF IInv

LEMMA IInv_Next == IInv /\ [PullNext]_pullVars => IInv'
<1> SUFFICES ASSUME IInv, [PullNext]_pullVars PROVE IInv'
  OBVIOUS
<1>1. ASSUME NEW m \in Messages, AckWaitElapses(m) PROVE IInv'
  BY <1>1, AckWait_Inv
<1>2. ASSUME NEW p \in Replicas, MainStep(p) PROVE IInv'
  BY <1>2, Bootstrap_Inv, Lifecycle_Inv, Fetcher_Inv DEF MainStep
<1>3. ASSUME NEW p \in Replicas, NEW w \in Workers, WorkerStep(p, w) PROVE IInv'
  BY <1>3, Worker_Inv
<1>4. ASSUME NEW p \in Replicas, CreateFails(p) \/ Stop(p) \/ Crash(p) PROVE IInv'
  BY <1>4, Lifecycle_Inv
<1>5. CASE UNCHANGED pullVars
  BY <1>5 DEF pullVars, processVars, IInv, PullTypeOK, BootTypeOK, Control
<1> QED
  BY <1>1, <1>2, <1>3, <1>4, <1>5 DEF PullNext

LEMMA IInv_Always == PullSpec => []IInv
BY IInv_Init, IInv_Next, PTL DEF PullSpec

\* Every variable keeps its type and no channel holds more than queue_size, with
\* any number of replicas (pull_consumer_runtime.go:78).
THEOREM TypeCorrect == PullSpec => []PullTypeOK
<1>1. IInv => PullTypeOK
  BY DEF IInv
<1> QED
  BY <1>1, IInv_Always, PTL

-----------------------------------------------------------------------------
\* The streams of a process that is past EnsureStream.

\* The part of EnsuredStreamsExist about replica p.
Ensured(p) ==
    /\ boot[p].at = "ready" => AllStreams \subseteq streams
    /\ boot[p].at \in {"add", "update"} =>
          \A i \in 1..(boot[p].next - 1) : StreamNames[i] \in streams
    /\ ctx[p] # "off" => Config.stream \in streams

LEMMA BootSteps_Ensured ==
    ASSUME BootTypeOK, NEW p \in Replicas, UNCHANGED ctx,
           \/ StartProcess(p)
           \/ EnsureStream(p),
           \A q \in Replicas : Ensured(q)
    PROVE  \A q \in Replicas : Ensured(q)'
<1>1. streams \subseteq streams'
  BY DEF StartProcess, EnsureStream, AddStream, AddStreamFails, UpdateStream, EnsureFails
<1>2. ASSUME NEW q \in Replicas, q # p
      PROVE  Ensured(q)'
  <2>1. boot'[q] = boot[q]
    BY <1>2 DEF StartProcess, EnsureStream, AddStream, AddStreamFails, UpdateStream,
                EnsureFails, StreamEnsured, BootTypeOK
  <2>2. Ensured(q)
    BY <1>2
  <2> QED
    BY <1>1, <2>1, <2>2 DEF Ensured
<1>3. Ensured(p)'
  <2> DEFINE n == boot[p].next
  <2>1. /\ n \in 1..3 /\ Len(StreamNames) = 3
        /\ AllStreams = {StreamNames[1], StreamNames[2], StreamNames[3]}
        /\ boot \in [Replicas -> [next: 1..3, at: BootSteps]]
    BY StreamFacts DEF BootTypeOK
  <2>2. ctx[p] # "off" => Config.stream \in streams'
    BY <1>1 DEF Ensured
  <2>3. CASE StartProcess(p)
    <3>1. boot'[p].at = "add" /\ boot'[p].next = 1
      BY <2>1, <2>3 DEF StartProcess
    <3> QED
      BY <2>2, <3>1 DEF Ensured
  <2>4. ASSUME StreamEnsured(p), StreamNames[n] \in streams',
               boot[p].at \in {"add", "update"}
        PROVE  Ensured(p)'
    <3>1. \A i \in 1..n : StreamNames[i] \in streams'
      BY <1>1, <2>1, <2>4 DEF Ensured
    <3>2. CASE n = 3
      <4>1. boot'[p] = [next |-> 1, at |-> "ready"]
        BY <2>1, <2>4, <3>2 DEF StreamEnsured
      <4>2. AllStreams \subseteq streams'
        BY <2>1, <3>1, <3>2
      <4> QED
        BY <2>2, <4>1, <4>2 DEF Ensured
    <3>3. CASE n # 3
      <4>1. boot'[p] = [next |-> n + 1, at |-> "add"]
        BY <2>1, <2>4, <3>3 DEF StreamEnsured
      <4>2. boot'[p].next = n + 1 /\ boot'[p].at = "add"
        BY <4>1
      <4> QED
        BY <2>1, <2>2, <3>1, <4>2 DEF Ensured
    <3> QED
      BY <3>2, <3>3
  <2>5. CASE AddStream(p)
    BY <2>4, <2>5 DEF AddStream, Stream, Ensuring
  <2>6. CASE AddStreamFails(p)
    <3>1. boot'[p].next = n /\ boot'[p].at = "update" /\ boot[p].at = "add"
      BY <2>1, <2>6 DEF AddStreamFails, Ensuring
    <3> QED
      BY <1>1, <2>2, <3>1 DEF Ensured
  <2>7. CASE UpdateStream(p)
    BY <2>4, <2>7 DEF UpdateStream, Stream, Ensuring
  <2>8. CASE EnsureFails(p)
    <3>1. boot'[p].at = "down"
      BY <2>1, <2>8 DEF EnsureFails
    <3> QED
      BY <2>2, <3>1 DEF Ensured
  <2> QED
    BY <2>3, <2>5, <2>6, <2>7, <2>8 DEF EnsureStream
<1> QED
  BY <1>2, <1>3

LEMMA Ensured_Next ==
    ASSUME IInv, [PullNext]_pullVars, EnsuredStreamsExist
    PROVE  EnsuredStreamsExist'
<1>1. \A q \in Replicas : Ensured(q)
  BY DEF EnsuredStreamsExist, Ensured
<1>2. BootTypeOK /\ boot \in [Replicas -> [next: 1..3, at: BootSteps]]
      /\ ctx \in [Replicas -> Contexts]
  BY StreamFacts DEF IInv, PullTypeOK, BootTypeOK
<1>3. ASSUME NEW p \in Replicas, Bootstrap(p)
      PROVE  \A q \in Replicas : Ensured(q)'
  BY <1>1, <1>2, <1>3, BootSteps_Ensured DEF Bootstrap, processVars
<1>4. ASSUME NEW p \in Replicas,
             \/ RunPullConsumer(p)
             \/ CreateFails(p)
             \/ Stop(p)
             \/ Exit(p)
             \/ Crash(p)
      PROVE  \A q \in Replicas : Ensured(q)'
  <2>1. /\ streams' = streams
        /\ \/ boot' = boot
           \/ boot' = [boot EXCEPT ![p] = [next |-> 1, at |-> "down"]]
        /\ \/ ctx' = ctx
           \/ ctx' = [ctx EXCEPT ![p] = "off"]
           \/ ctx' = [ctx EXCEPT ![p] = "cancelled"] /\ ctx[p] # "off"
           \/ ctx' = [ctx EXCEPT ![p] = "live"] /\ Config.stream \in streams
    BY <1>4 DEF RunPullConsumer, Start, Runtime, CreateFails, processVars, Stop, Exit,
                Crash, Ends
  <2>2. ASSUME NEW q \in Replicas
        PROVE  boot'[q] = boot[q] \/ boot'[q].at = "down"
    BY <1>2, <2>1
  <2>3. ASSUME NEW q \in Replicas
        PROVE  ctx'[q] # "off" => Config.stream \in streams
    BY <1>1, <1>2, <2>1 DEF Ensured
  <2> QED
    BY <1>1, <2>1, <2>2, <2>3 DEF Ensured
<1>6. ASSUME UNCHANGED <<streams, boot, ctx>>
      PROVE  \A q \in Replicas : Ensured(q)'
  <2>1. streams' = streams /\ boot' = boot /\ ctx' = ctx
    BY <1>6
  <2> SUFFICES ASSUME NEW q \in Replicas PROVE Ensured(q)'
    OBVIOUS
  <2>2. Ensured(q)
    BY <1>1
  <2> QED
    BY <2>1, <2>2, Zenon DEF Ensured
<1>7. ASSUME NEW m \in Messages, AckWaitElapses(m)
      PROVE  UNCHANGED <<streams, boot, ctx>>
  BY <1>7 DEF AckWaitElapses, processVars
<1>8. ASSUME NEW p \in Replicas, FetcherStep(p)
      PROVE  UNCHANGED <<streams, boot, ctx>>
  BY <1>8 DEF FetcherStep, CheckPlan, Fetch, FetchFails, Dispatch, DispatchStops, Close
<1>9. ASSUME NEW p \in Replicas, NEW w \in Workers, WorkerStep(p, w)
      PROVE  UNCHANGED <<streams, boot, ctx>>
  BY <1>9 DEF WorkerStep, Take, WorkerStops, HandlerSucceeds, HandlerFails, Ack, Nak
<1>10. UNCHANGED pullVars => UNCHANGED <<streams, boot, ctx>>
  BY DEF pullVars, processVars
<1>11. \A q \in Replicas : Ensured(q)'
  BY <1>3, <1>4, <1>6, <1>7, <1>8, <1>9, <1>10 DEF PullNext, MainStep
<1> QED
  BY <1>11 DEF EnsuredStreamsExist, Ensured

\* However many replicas bootstrap side by side, crash and start again, a process
\* that passed EnsureStream finds every stream, and a consumer its own
\* (bootstrap.go:70-107).
THEOREM StreamsExist == PullSpec => []EnsuredStreamsExist
<1>1. PullInit => EnsuredStreamsExist
  <2> SUFFICES ASSUME PullInit, NEW p \in Replicas
               PROVE  boot[p].at = "down" /\ ctx[p] = "off"
    BY DEF EnsuredStreamsExist
  <2>1. boot[p] = [next |-> 1, at |-> "down"] /\ ctx[p] = "off"
    BY DEF PullInit, BootInit
  <2> QED
    BY <2>1
<1> QED
  BY <1>1, IInv_Always, Ensured_Next, PTL DEF PullSpec

-----------------------------------------------------------------------------
\* How long a stop takes: StepsLeft as a measure.

\* How many workers are at one of the steps, with f[w] the state of worker w.
CountAt(f, steps) == Cardinality({w \in Workers : f[w].at \in steps})

LEMMA CountAtType ==
    ASSUME NEW f, NEW steps
    PROVE  /\ IsFiniteSet({w \in Workers : f[w].at \in steps})
           /\ CountAt(f, steps) \in Nat
BY RuntimeAssumption, FS_Subset, FS_CardinalityType DEF CountAt

\* A worker that moves leaves one set of workers and enters another.
LEMMA CountAtMoves ==
    ASSUME NEW f, NEW g, NEW w \in Workers, NEW steps,
           \A v \in Workers \ {w} : g[v] = f[v]
    PROVE  CountAt(g, steps) + (IF f[w].at \in steps THEN 1 ELSE 0)
               = CountAt(f, steps) + (IF g[w].at \in steps THEN 1 ELSE 0)
<1> DEFINE S == {v \in Workers : f[v].at \in steps}
           T == {v \in Workers : g[v].at \in steps}
           R == S \ {w}
<1>0. IsFiniteSet(S)
  BY CountAtType
<1>1. IsFiniteSet(R) /\ Cardinality(R) \in Nat
  BY <1>0, FS_RemoveElement, FS_CardinalityType
<1>2. S = (IF f[w].at \in steps THEN R \cup {w} ELSE R)
  OBVIOUS
<1>3. T = (IF g[w].at \in steps THEN R \cup {w} ELSE R)
  OBVIOUS
<1>4. Cardinality(R \cup {w}) = Cardinality(R) + 1
  BY <1>1, FS_AddElement
<1>5. CountAt(f, steps) = Cardinality(S) /\ CountAt(g, steps) = Cardinality(T)
  BY DEF CountAt
<1> HIDE DEF S, T, R
<1> QED
  BY <1>1, <1>2, <1>3, <1>4, <1>5

Present == {"idle", "handle", "ack", "nak"}
Busy == {"handle", "ack", "nak"}

\* What the workers of one process have before them: WorkersLeft.
WorkLeft(f) == CountAt(f, Present) + CountAt(f, Busy) + CountAt(f, {"handle"})

LEMMA WorkersLeftIsWorkLeft ==
    ASSUME NEW p
    PROVE  /\ WorkersLeft(p) = WorkLeft(worker[p])
           /\ WorkersLeft(p)' = WorkLeft(worker'[p])
           /\ WorkLeft(worker[p]) \in Nat
           /\ WorkLeft(worker'[p]) \in Nat
<1>1. \A steps : /\ CountAt(worker[p], steps) \in Nat
                 /\ CountAt(worker'[p], steps) \in Nat
  BY CountAtType
<1>2. WorkLeft(worker[p]) \in Nat /\ WorkLeft(worker'[p]) \in Nat
  BY <1>1 DEF WorkLeft
<1> QED
  BY <1>2 DEF WorkersLeft, WorkersAt, WorkLeft, CountAt, Present, Busy

\* Only a worker that takes a message has more before it than it had, by two.
LEMMA WorkLeftMoves ==
    ASSUME NEW f, NEW g, NEW w \in Workers, \A v \in Workers \ {w} : g[v] = f[v]
    PROVE  /\ f[w].at = "idle" /\ g[w].at = "handle" => WorkLeft(g) = WorkLeft(f) + 2
           /\ \/ f[w].at = "idle" /\ g[w].at = "gone"
              \/ f[w].at = "handle" /\ g[w].at \in {"ack", "nak"}
              \/ f[w].at \in {"ack", "nak"} /\ g[w].at = "idle"
              => WorkLeft(g) = WorkLeft(f) - 1
<1>1. /\ CountAt(f, Present) \in Nat /\ CountAt(g, Present) \in Nat
      /\ CountAt(f, Busy) \in Nat /\ CountAt(g, Busy) \in Nat
      /\ CountAt(f, {"handle"}) \in Nat /\ CountAt(g, {"handle"}) \in Nat
  BY CountAtType
<1>2. CountAt(g, Present) + (IF f[w].at \in Present THEN 1 ELSE 0)
          = CountAt(f, Present) + (IF g[w].at \in Present THEN 1 ELSE 0)
  BY CountAtMoves
<1>3. CountAt(g, Busy) + (IF f[w].at \in Busy THEN 1 ELSE 0)
          = CountAt(f, Busy) + (IF g[w].at \in Busy THEN 1 ELSE 0)
  BY CountAtMoves
<1>4. CountAt(g, {"handle"}) + (IF f[w].at \in {"handle"} THEN 1 ELSE 0)
          = CountAt(f, {"handle"}) + (IF g[w].at \in {"handle"} THEN 1 ELSE 0)
  BY CountAtMoves
<1> QED
  BY <1>1, <1>2, <1>3, <1>4 DEF WorkLeft, Present, Busy

LEMMA BatchesAreFinite ==
    ASSUME NEW B \in SUBSET Deliveries
    PROVE  IsFiniteSet(B) /\ Cardinality(B) \in Nat
<1>1. IsFiniteSet(1..MaxDeliver)
  BY ConfigFacts, FS_Interval
<1>2. IsFiniteSet(Deliveries)
  BY <1>1, RuntimeAssumption, FS_Product DEF Deliveries
<1> QED
  BY <1>2, FS_Subset, FS_CardinalityType

\* A fetch returns one delivery for each message.
LEMMA FetchedIsNoLarger ==
    ASSUME NEW S \in SUBSET Messages
    PROVE  Cardinality(Fetched(S)) <= Cardinality(S)
<1> DEFINE f == [m \in S |-> <<m, delivered[m] + 1>>]
<1>1. f \in Surjection(S, Fetched(S))
  BY DEF Fetched, Surjection
<1>2. IsFiniteSet(S)
  BY RuntimeAssumption, FS_Subset
<1> QED
  BY <1>1, <1>2, FS_Surjection

LEMMA FetcherLeftType ==
    ASSUME PullTypeOK, NEW p \in Replicas
    PROVE  FetcherLeft(p) \in Nat
BY DEF PullTypeOK, FetcherSteps, FetcherLeft

\* What the fetcher, its batch and the channel hold for the goroutines to do.
FetchLeft(p) == FetcherLeft(p) + 4 * Cardinality(batch[p]) + 3 * Len(jobs[p])

LEMMA StepsLeftIsSum ==
    ASSUME PullTypeOK, PullTypeOK', NEW p \in Replicas
    PROVE  /\ StepsLeft(p) = FetchLeft(p) + WorkersLeft(p)
           /\ StepsLeft(p)' = FetchLeft(p)' + WorkersLeft(p)'
           /\ FetchLeft(p) \in Nat /\ FetchLeft(p)' \in Nat
           /\ WorkersLeft(p) \in Nat /\ WorkersLeft(p)' \in Nat
<1>1. FetcherLeft(p) \in Nat /\ FetcherLeft(p)' \in Nat
  BY DEF PullTypeOK, FetcherLeft, FetcherSteps
<1>2. Cardinality(batch[p]) \in Nat /\ Cardinality(batch'[p]) \in Nat
  BY BatchesAreFinite DEF PullTypeOK
<1>3. Len(jobs[p]) \in Nat /\ Len(jobs'[p]) \in Nat
  BY DEF PullTypeOK
<1>4. WorkersLeft(p) \in Nat /\ WorkersLeft(p)' \in Nat
  BY WorkersLeftIsWorkLeft
<1>5. FetchLeft(p) \in Nat /\ FetchLeft(p)' \in Nat
  <2>1. FetchLeft(p) \in Nat
    BY <1>1, <1>2, <1>3 DEF FetchLeft
  <2>2. FetchLeft(p)' \in Nat
    BY <1>1, <1>2, <1>3 DEF FetchLeft
  <2> QED
    BY <2>1, <2>2
<1>6. StepsLeft(p) = FetchLeft(p) + WorkersLeft(p)
  BY DEF StepsLeft, FetchLeft
<1>7. StepsLeft(p)' = FetchLeft(p)' + WorkersLeft(p)'
  BY DEF StepsLeft, FetchLeft
<1> QED
  BY <1>4, <1>5, <1>6, <1>7

\* A step of the fetcher leaves what is before the workers.
LEMMA FetcherRunsDown ==
    ASSUME PullTypeOK, PullTypeOK', NEW p \in Replicas, worker' = worker,
           FetchLeft(p)' < FetchLeft(p)
    PROVE  StepsLeft(p)' < StepsLeft(p)
<1>1. WorkersLeft(p)' = WorkersLeft(p)
  BY WorkersLeftIsWorkLeft
<1> QED
  BY <1>1, StepsLeftIsSum

LEMMA FetcherStep_RunsDown ==
    ASSUME IInv, IInv', NEW p \in Replicas, ctx[p] = "cancelled", FetcherStep(p)
    PROVE  StepsLeft(p)' < StepsLeft(p)
<1> DEFINE b == Cardinality(batch[p])
           c == Cardinality(batch'[p])
           n == Len(jobs[p])
           k == Len(jobs'[p])
<1>1. /\ PullTypeOK /\ PullTypeOK'
      /\ fetcher \in [Replicas -> FetcherSteps]
      /\ batch \in [Replicas -> SUBSET Deliveries]
      /\ jobs \in [Replicas -> Seq(Deliveries)]
      /\ n \in Nat /\ k \in Nat
  BY DEF IInv, PullTypeOK
<1>2. b \in Nat /\ c \in Nat
  BY BatchesAreFinite DEF IInv, PullTypeOK
<1>3. FetchLeft(p) = FetcherLeft(p) + 4 * b + 3 * n
  BY DEF FetchLeft
<1>4. FetchLeft(p)' = FetcherLeft(p)' + 4 * c + 3 * k
  BY DEF FetchLeft
<1>5. worker' = worker
  BY DEF FetcherStep, CheckPlan, Fetch, FetchFails, Dispatch, DispatchStops, Close
<1> SUFFICES FetchLeft(p)' < FetchLeft(p)
  BY <1>1, <1>5, FetcherRunsDown
<1> HIDE DEF b, c, n, k
<1>6. CASE CheckPlan(p)
  <2>1. /\ fetcher[p] = "check" /\ fetcher'[p] = "wait"
        /\ batch' = batch /\ jobs' = jobs
    BY <1>1, <1>6 DEF CheckPlan, FetcherGoes
  <2>2. FetcherLeft(p) = 2 /\ FetcherLeft(p)' = 1 /\ c = b /\ k = n
    BY <2>1 DEF FetcherLeft, b, c, n, k
  <2> QED
    BY <1>1, <1>2, <1>3, <1>4, <2>2
<1>7. CASE Fetch(p)
  <2>1. PICK S \in SUBSET Owed : /\ Cardinality(S) <= plan[p].batch
                                 /\ batch' = [batch EXCEPT ![p] = Fetched(S)]
    BY <1>7 DEF Fetch
  <2>2. fetcher[p] = "fetch" /\ fetcher'[p] = "dispatch" /\ jobs' = jobs
    BY <1>1, <1>7 DEF Fetch, FetcherGoes
  <2>3. S \in SUBSET Messages /\ batch'[p] = Fetched(S)
    BY <1>1, <2>1 DEF Owed
  <2>4. c <= Cardinality(S) /\ Cardinality(S) \in Nat
    BY <2>3, FetchedIsNoLarger, BacklogIsNat DEF c
  <2>5. plan[p].batch \in Nat
    BY DEF IInv, PullTypeOK
  <2>6. FetcherLeft(p) = 4 + 4 * plan[p].batch /\ FetcherLeft(p)' = 3 /\ k = n
    BY <2>2 DEF FetcherLeft, n, k
  <2>7. c <= plan[p].batch
    BY <1>2, <2>1, <2>4, <2>5
  <2> QED
    BY <1>1, <1>2, <1>3, <1>4, <2>5, <2>6, <2>7
<1>8. CASE FetchFails(p)
  <2>1. /\ fetcher[p] = "fetch" /\ fetcher'[p] = "check"
        /\ batch' = batch /\ jobs' = jobs
    BY <1>1, <1>8 DEF FetchFails, FetcherGoes
  <2>2. /\ FetcherLeft(p) = 4 + 4 * plan[p].batch /\ FetcherLeft(p)' = 2
        /\ c = b /\ k = n
    BY <2>1 DEF FetcherLeft, b, c, n, k
  <2>3. plan[p].batch \in Nat
    BY DEF IInv, PullTypeOK
  <2> QED
    BY <1>1, <1>2, <1>3, <1>4, <2>2, <2>3
<1>9. CASE Dispatch(p)
  <2>1. PICK d \in batch[p] :
              /\ jobs' = [jobs EXCEPT ![p] = Append(jobs[p], d)]
              /\ batch' = [batch EXCEPT ![p] = batch[p] \ {d}]
              /\ FetcherGoes(p, IF batch[p] = {d} THEN "check" ELSE "dispatch")
    BY <1>9 DEF Dispatch
  <2>2. c = b - 1
    <3>1. IsFiniteSet(batch[p])
      BY <1>1, BatchesAreFinite
    <3>2. Cardinality(batch[p] \ {d}) = Cardinality(batch[p]) - 1
      BY <2>1, <3>1, FS_RemoveElement
    <3> QED
      BY <1>1, <2>1, <3>2 DEF b, c
  <2>3. k = n + 1
    BY <1>1, <2>1 DEF n, k
  <2>4. fetcher[p] = "dispatch" /\ fetcher'[p] \in {"check", "dispatch"}
    BY <1>1, <1>9, <2>1 DEF Dispatch, FetcherGoes
  <2>5. FetcherLeft(p) = 3 /\ FetcherLeft(p)' \in {2, 3}
    BY <2>4 DEF FetcherLeft
  <2> QED
    BY <1>1, <1>2, <1>3, <1>4, <2>2, <2>3, <2>5
<1>10. CASE DispatchStops(p)
  <2>1. /\ fetcher[p] = "dispatch" /\ fetcher'[p] = "wait"
        /\ batch'[p] = {} /\ jobs' = jobs
    BY <1>1, <1>10 DEF DispatchStops, FetcherGoes
  <2>2. FetcherLeft(p) = 3 /\ FetcherLeft(p)' = 1 /\ c = 0 /\ k = n
    BY <2>1, FS_EmptySet DEF FetcherLeft, c, n, k
  <2> QED
    BY <1>1, <1>2, <1>3, <1>4, <2>2
<1>11. CASE Close(p)
  <2>1. /\ fetcher[p] = "wait" /\ fetcher'[p] = "closed"
        /\ batch' = batch /\ jobs'[p] = <<>>
    BY <1>1, <1>11 DEF Close, FetcherGoes
  <2>2. FetcherLeft(p) = 1 /\ FetcherLeft(p)' = 0 /\ c = b /\ k = 0
    BY <2>1 DEF FetcherLeft, b, c, k
  <2> QED
    BY <1>1, <1>2, <1>3, <1>4, <2>2
<1> QED
  BY <1>6, <1>7, <1>8, <1>9, <1>10, <1>11 DEF FetcherStep

LEMMA WorkerStep_RunsDown ==
    ASSUME IInv, IInv', NEW p \in Replicas, NEW w \in Workers, WorkerStep(p, w)
    PROVE  StepsLeft(p)' < StepsLeft(p)
<1> DEFINE f == worker[p]
           g == worker'[p]
<1>1. /\ PullTypeOK /\ PullTypeOK'
      /\ worker \in [Replicas -> [Workers -> WorkerStates]]
      /\ jobs \in [Replicas -> Seq(Deliveries)]
  BY DEF IInv, PullTypeOK, WorkerStates
<1>2. /\ FetchLeft(p) \in Nat /\ FetchLeft(p)' \in Nat
      /\ WorkLeft(f) \in Nat /\ WorkLeft(g) \in Nat
      /\ StepsLeft(p) = FetchLeft(p) + WorkLeft(f)
      /\ StepsLeft(p)' = FetchLeft(p)' + WorkLeft(g)
  BY <1>1, StepsLeftIsSum, WorkersLeftIsWorkLeft
<1>3. UNCHANGED <<plan, fetcher, batch>>
  BY DEF WorkerStep, Take, WorkerStops, HandlerSucceeds, HandlerFails, Ack, Nak
<1>4. ASSUME NEW step, NEW d, WorkerGoes(p, w, step, d)
      PROVE  g[w].at = step /\ \A v \in Workers \ {w} : g[v] = f[v]
  BY <1>1, <1>4 DEF WorkerGoes
<1>5. ASSUME UNCHANGED jobs
      PROVE  FetchLeft(p)' = FetchLeft(p)
  BY <1>3, <1>5 DEF FetchLeft, FetcherLeft
<1> HIDE DEF f, g
<1>6. CASE Take(p, w)
  <2>1. f[w].at = "idle" /\ g[w].at = "handle" /\ \A v \in Workers \ {w} : g[v] = f[v]
    BY <1>4, <1>6 DEF Take, WorkerAt, f
  <2>2. WorkLeft(g) = WorkLeft(f) + 2
    BY <2>1, WorkLeftMoves
  <2>3. Len(jobs'[p]) = Len(jobs[p]) - 1 /\ Len(jobs[p]) \in Nat \ {0}
    BY <1>1, <1>6 DEF Take
  <2>4. FetcherLeft(p)' = FetcherLeft(p) /\ batch' = batch
    BY <1>3 DEF FetcherLeft
  <2>5. FetcherLeft(p) \in Nat /\ Cardinality(batch[p]) \in Nat
    BY <1>1, FetcherLeftType, BatchesAreFinite DEF PullTypeOK
  <2>6. FetchLeft(p) = FetcherLeft(p) + 4 * Cardinality(batch[p]) + 3 * Len(jobs[p])
    BY DEF FetchLeft
  <2>7. FetchLeft(p)' = FetcherLeft(p) + 4 * Cardinality(batch[p])
                            + 3 * (Len(jobs[p]) - 1)
    BY <2>3, <2>4 DEF FetchLeft
  <2>8. FetchLeft(p)' = FetchLeft(p) - 3
    BY <2>3, <2>5, <2>6, <2>7
  <2> QED
    BY <1>2, <2>2, <2>8
<1>7. ASSUME UNCHANGED jobs, \A v \in Workers \ {w} : g[v] = f[v],
             \/ f[w].at = "idle" /\ g[w].at = "gone"
             \/ f[w].at = "handle" /\ g[w].at \in {"ack", "nak"}
             \/ f[w].at \in {"ack", "nak"} /\ g[w].at = "idle"
      PROVE  StepsLeft(p)' < StepsLeft(p)
  <2>1. WorkLeft(g) = WorkLeft(f) - 1
    BY <1>7, WorkLeftMoves
  <2> QED
    BY <1>2, <1>5, <1>7, <2>1
<1>8. CASE WorkerStops(p, w)
  BY <1>4, <1>7, <1>8 DEF WorkerStops, WorkerAt, f
<1>9. CASE HandlerSucceeds(p, w)
  BY <1>4, <1>7, <1>9 DEF HandlerSucceeds, WorkerAt, f
<1>10. CASE HandlerFails(p, w)
  BY <1>4, <1>7, <1>10 DEF HandlerFails, WorkerAt, f
<1>11. CASE Ack(p, w)
  BY <1>4, <1>7, <1>11 DEF Ack, WorkerAt, f
<1>12. CASE Nak(p, w)
  BY <1>4, <1>7, <1>12 DEF Nak, WorkerAt, f
<1> QED
  BY <1>6, <1>8, <1>9, <1>10, <1>11, <1>12 DEF WorkerStep

\* What does not belong to p: JetStream, the other replicas, and p not running.
Untouched(p) == UNCHANGED <<plan[p], fetcher[p], batch[p], jobs[p], worker[p]>>

LEMMA OthersLeaveIt ==
    ASSUME IInv, NEW p \in Replicas, NEW q \in Replicas, q # p,
           \/ MainStep(q)
           \/ \E w \in Workers : WorkerStep(q, w)
           \/ CreateFails(q)
           \/ Stop(q)
           \/ Crash(q)
    PROVE  Untouched(p)
<1> USE DEF IInv, PullTypeOK, Untouched
<1>1. CASE FetcherStep(q)
  BY <1>1 DEF FetcherStep, CheckPlan, Fetch, FetchFails, Dispatch, DispatchStops, Close,
              FetcherGoes
<1>2. CASE \E w \in Workers : WorkerStep(q, w)
  BY <1>2 DEF WorkerStep, Take, WorkerStops, HandlerSucceeds, HandlerFails, Ack, Nak,
              WorkerGoes
<1>3. ASSUME NEW c, NEW fetching, NEW working, Runtime(q, c, fetching, working)
      PROVE  Untouched(p)
  BY <1>3 DEF Runtime
<1>4. CASE RunPullConsumer(q) \/ Exit(q) \/ Crash(q)
  BY <1>3, <1>4 DEF RunPullConsumer, Start, Exit, Crash, Ends
<1>5. CASE Bootstrap(q) \/ CreateFails(q) \/ Stop(q)
  BY <1>5 DEF Bootstrap, CreateFails, Stop, processVars
<1> QED
  BY <1>1, <1>2, <1>4, <1>5 DEF MainStep

\* Whatever the goroutines of a cancelled consumer do brings its end nearer, and
\* nothing else touches it: a stop is over after StepsLeft(p) steps of p at most
\* (pull_consumer_runtime.go:94-176).
THEOREM StopsRunDown == PullSpec => StopRunsDown
<1> DEFINE RunsDown == \A p \in Replicas :
                           ctx[p] = "cancelled" /\ ctx'[p] = "cancelled" =>
                               StepsLeft(p)' < StepsLeft(p) \/ Untouched(p)
<1>1. ASSUME IInv, IInv', [PullNext]_pullVars
      PROVE  RunsDown
  <2> SUFFICES ASSUME NEW p \in Replicas, ctx[p] = "cancelled", ctx'[p] = "cancelled"
               PROVE  StepsLeft(p)' < StepsLeft(p) \/ Untouched(p)
    OBVIOUS
  <2>1. CASE FetcherStep(p)
    BY <1>1, <2>1, FetcherStep_RunsDown
  <2>2. ASSUME NEW w \in Workers, WorkerStep(p, w)
        PROVE  StepsLeft(p)' < StepsLeft(p)
    BY <1>1, <2>2, WorkerStep_RunsDown
  <2>3. CASE Bootstrap(p) \/ CreateFails(p) \/ Stop(p) \/ UNCHANGED pullVars
    BY <2>3 DEF Bootstrap, CreateFails, Stop, pullVars, processVars, Untouched
  <2>4. ~RunPullConsumer(p)
    BY DEF RunPullConsumer
  <2>5. ~Exit(p) /\ ~Crash(p)
    BY <1>1 DEF Exit, Crash, Ends, Runtime, IInv, PullTypeOK
  <2>6. ASSUME NEW m \in Messages, AckWaitElapses(m)
        PROVE  Untouched(p)
    BY <2>6 DEF AckWaitElapses, processVars, Untouched
  <2>7. ASSUME NEW q \in Replicas, q # p,
               \/ MainStep(q)
               \/ \E w \in Workers : WorkerStep(q, w)
               \/ CreateFails(q)
               \/ Stop(q)
               \/ Crash(q)
        PROVE  Untouched(p)
    BY <1>1, <2>7, OthersLeaveIt
  <2> QED
    BY <1>1, <2>1, <2>2, <2>3, <2>4, <2>5, <2>6, <2>7 DEF PullNext, MainStep
<1>2. RunsDown => [\A p \in Replicas :
                      ctx[p] = "cancelled" /\ ctx'[p] = "cancelled" =>
                          \/ StepsLeft(p)' < StepsLeft(p)
                          \/ UNCHANGED <<plan[p], fetcher[p], batch[p], jobs[p],
                                         worker[p]>>]_pullVars
  BY DEF Untouched
<1> QED
  BY <1>1, <1>2, IInv_Always, PTL DEF PullSpec, StopRunsDown

-----------------------------------------------------------------------------
\* How much a process holds, and so how long its stop takes at most.

\* The batches the plans of the fetcher ask for.
BatchSizes == {Config.batch_size}
                  \cup (IF Config.adaptive.enabled
                        THEN {Config.adaptive.batch_size[t] : t \in Tiers} ELSE {})

\* Every plan has one of these batches, and what was fetched is no larger than
\* the largest of them, b.
Fits(b) ==
    \A p \in Replicas : plan[p].batch \in BatchSizes /\ Cardinality(batch[p]) <= b

LEMMA PlansFit ==
    /\ BasePlan(Config).batch \in BatchSizes
    /\ \A pending : ResolvePullPlan(Config, pending).batch \in BatchSizes
<1>1. BasePlan(Config).batch \in BatchSizes
  BY DEF BasePlan, BatchSizes
<1>2. ASSUME NEW pending
      PROVE  ResolvePullPlan(Config, pending).batch \in BatchSizes
  <2>1. TierOf(Config.adaptive, pending) \in Tiers
    BY TierIsTier
  <2> QED
    BY <1>1, <2>1 DEF ResolvePullPlan, BatchSizes
<1> QED
  BY <1>1, <1>2

LEMMA Fits_Next ==
    ASSUME NEW b \in Nat, \A n \in BatchSizes : n <= b,
           IInv, IInv', Fits(b), [PullNext]_pullVars
    PROVE  Fits(b)'
<1>0. /\ plan \in [Replicas -> Plans]
      /\ batch \in [Replicas -> SUBSET Deliveries]
      /\ Cardinality({}) = 0
  BY FS_EmptySet DEF IInv, PullTypeOK, Plans
<1>1. ASSUME UNCHANGED <<plan, batch>> PROVE Fits(b)'
  BY <1>1 DEF Fits
<1>2. ASSUME NEW p \in Replicas, NEW c, NEW fetching, NEW working,
             Runtime(p, c, fetching, working)
      PROVE  Fits(b)'
  <2>1. /\ plan' = [plan EXCEPT ![p] = BasePlan(Config)]
        /\ batch' = [batch EXCEPT ![p] = {}]
    BY <1>2 DEF Runtime
  <2> QED
    BY <1>0, <2>1, PlansFit DEF Fits
<1>3. ASSUME NEW p \in Replicas, CheckPlan(p) PROVE Fits(b)'
  <2>1. /\ batch' = batch
        /\ \/ plan' = plan
           \/ \E pending : plan' = [plan EXCEPT ![p] = ResolvePullPlan(Config, pending)]
    BY <1>3 DEF CheckPlan
  <2> QED
    BY <1>0, <2>1, PlansFit DEF Fits
<1>4. ASSUME NEW p \in Replicas, Fetch(p) PROVE Fits(b)'
  <2>1. PICK S \in SUBSET Owed : /\ Cardinality(S) <= plan[p].batch
                                 /\ batch' = [batch EXCEPT ![p] = Fetched(S)]
                                 /\ plan' = plan
    BY <1>4 DEF Fetch
  <2>2. S \in SUBSET Messages
    BY DEF Owed
  <2>3. Cardinality(Fetched(S)) <= Cardinality(S) /\ Cardinality(S) \in Nat
    BY <2>2, FetchedIsNoLarger, BacklogIsNat
  <2>4. plan[p].batch \in Nat /\ plan[p].batch <= b
    BY <1>0 DEF Fits, Plans
  <2>5. Fetched(S) \in SUBSET Deliveries
    BY <1>0, <2>1 DEF IInv, PullTypeOK
  <2>6. Cardinality(Fetched(S)) \in Nat
    BY <2>5, BatchesAreFinite
  <2>7. Cardinality(Fetched(S)) <= b
    BY <2>1, <2>3, <2>4, <2>6
  <2> QED
    BY <1>0, <2>1, <2>7 DEF Fits
<1>5. ASSUME NEW p \in Replicas, Dispatch(p) PROVE Fits(b)'
  <2>1. PICK d \in batch[p] : /\ batch' = [batch EXCEPT ![p] = batch[p] \ {d}]
                              /\ plan' = plan
    BY <1>5 DEF Dispatch
  <2>2. IsFiniteSet(batch[p]) /\ Cardinality(batch[p]) \in Nat
    BY <1>0, BatchesAreFinite
  <2>3. Cardinality(batch[p] \ {d}) = Cardinality(batch[p]) - 1
    BY <2>1, <2>2, FS_RemoveElement
  <2>4. Cardinality(batch[p] \ {d}) <= b
    BY <2>2, <2>3 DEF Fits
  <2> QED
    BY <1>0, <2>1, <2>4 DEF Fits
<1>6. ASSUME NEW p \in Replicas, DispatchStops(p) PROVE Fits(b)'
  BY <1>0, <1>6 DEF DispatchStops, Fits
<1>7. ASSUME NEW p \in Replicas,
             FetchFails(p) \/ Close(p) \/ Bootstrap(p) \/ CreateFails(p) \/ Stop(p)
      PROVE  UNCHANGED <<plan, batch>>
  BY <1>7 DEF FetchFails, Close, Bootstrap, CreateFails, Stop, processVars
<1>8. ASSUME NEW p \in Replicas, NEW w \in Workers, WorkerStep(p, w)
      PROVE  UNCHANGED <<plan, batch>>
  BY <1>8 DEF WorkerStep, Take, WorkerStops, HandlerSucceeds, HandlerFails, Ack, Nak
<1>9. ASSUME NEW p \in Replicas, RunPullConsumer(p) \/ Exit(p) \/ Crash(p)
      PROVE  Fits(b)'
  BY <1>2, <1>9 DEF RunPullConsumer, Start, Exit, Crash, Ends
<1>10. ASSUME NEW m \in Messages, AckWaitElapses(m)
       PROVE  UNCHANGED <<plan, batch>>
  BY <1>10 DEF AckWaitElapses, processVars
<1>11. UNCHANGED pullVars => UNCHANGED <<plan, batch>>
  BY DEF pullVars, processVars
<1> QED
  BY <1>1, <1>3, <1>4, <1>5, <1>6, <1>7, <1>8, <1>9, <1>10, <1>11
  DEF PullNext, MainStep, FetcherStep

\* The deliveries a process has received and is not done with.
Holding(p) == Cardinality(batch[p]) + Len(jobs[p]) + CountAt(worker[p], Busy)

HoldingsFit(b) ==
    \A p \in Replicas :
        /\ Holding(p) <= b + QueueSize + Cardinality(Workers)
        /\ StepsLeft(p) <= 4 * b + 3 * QueueSize + 3 * Cardinality(Workers) + 4

LEMMA FittingHoldings ==
    ASSUME NEW b \in Nat, \A n \in BatchSizes : n <= b, IInv, Fits(b)
    PROVE  HoldingsFit(b)
<1> SUFFICES ASSUME NEW p \in Replicas
             PROVE  /\ Holding(p) <= b + QueueSize + Cardinality(Workers)
                    /\ StepsLeft(p) <= 4 * b + 3 * QueueSize + 3 * Cardinality(Workers) + 4
  BY DEF HoldingsFit
<1>1. /\ Cardinality(batch[p]) \in Nat /\ Cardinality(batch[p]) <= b
      /\ plan[p].batch \in Nat /\ plan[p].batch <= b
      /\ Len(jobs[p]) \in Nat /\ Len(jobs[p]) <= QueueSize /\ QueueSize \in Nat
  BY BatchesAreFinite, ConfigFacts DEF IInv, PullTypeOK, Fits
<1>2. ASSUME NEW steps
      PROVE  CountAt(worker[p], steps) \in Nat
             /\ CountAt(worker[p], steps) <= Cardinality(Workers)
  BY RuntimeAssumption, FS_Subset, FS_CardinalityType DEF CountAt
<1>3. Cardinality(Workers) \in Nat
  BY RuntimeAssumption, FS_CardinalityType
<1>4. Holding(p) <= b + QueueSize + Cardinality(Workers)
  BY <1>1, <1>2, <1>3 DEF Holding
<1>5. WorkersLeft(p) \in Nat /\ WorkersLeft(p) <= 3 * Cardinality(Workers)
  <2>1. WorkersLeft(p) = CountAt(worker[p], Present) + CountAt(worker[p], Busy)
                             + CountAt(worker[p], {"handle"})
    BY WorkersLeftIsWorkLeft DEF WorkLeft
  <2> QED
    BY <1>2, <1>3, <2>1
\* The batch is empty whenever the fetcher may still fetch one.
<1>6. FetcherLeft(p) \in Nat /\ FetcherLeft(p) + 4 * Cardinality(batch[p]) <= 4 * b + 4
  <2>1. fetcher[p] \in FetcherSteps
    BY DEF IInv, PullTypeOK
  <2>2. CASE fetcher[p] = "dispatch"
    <3>1. FetcherLeft(p) = 3
      BY <2>2 DEF FetcherLeft
    <3> QED
      BY <1>1, <3>1
  <2>3. CASE fetcher[p] # "dispatch"
    <3>1. Cardinality(batch[p]) = 0
      BY <2>3, FS_EmptySet DEF IInv, Control
    <3>2. FetcherLeft(p) \in {0, 1, 2, 4 + 4 * plan[p].batch}
      BY <2>1, <2>3 DEF FetcherLeft, FetcherSteps
    <3> QED
      BY <1>1, <3>1, <3>2
  <2> QED
    BY <2>2, <2>3
<1>7. StepsLeft(p) = FetcherLeft(p) + 4 * Cardinality(batch[p]) + 3 * Len(jobs[p])
                         + WorkersLeft(p)
  BY DEF StepsLeft
<1>8. StepsLeft(p) <= 4 * b + 3 * QueueSize + 3 * Cardinality(Workers) + 4
  <2>1. PICK f, c, n, w : /\ f = FetcherLeft(p) /\ c = Cardinality(batch[p])
                          /\ n = Len(jobs[p]) /\ w = WorkersLeft(p)
    OBVIOUS
  <2>2. PICK q, k : q = QueueSize /\ k = Cardinality(Workers)
    OBVIOUS
  <2>3. /\ f \in Nat /\ c \in Nat /\ n \in Nat /\ w \in Nat /\ q \in Nat /\ k \in Nat
        /\ n <= q /\ w <= 3 * k /\ f + 4 * c <= 4 * b + 4
    BY <1>1, <1>3, <1>5, <1>6, <2>1, <2>2
  <2>4. f + 4 * c + 3 * n + w <= 4 * b + 3 * q + 3 * k + 4
    BY <2>3
  <2> QED
    BY <1>7, <2>1, <2>2, <2>4
<1> QED
  BY <1>4, <1>8

\* A process never holds more deliveries than its largest batch, its channel and
\* its workers take, however JetStream redelivers and whatever the adaptive plan
\* asks for; so that a stop, wherever it hits, is over after
\* 4 * b + 3 * queue_size + 3 * workers + 4 steps of its goroutines at most
\* (pull_consumer_runtime.go:75-83, 94-176, broker.go:202-215).
THEOREM HoldingsAreBounded ==
    ASSUME NEW CONSTANT b \in Nat, \A n \in BatchSizes : n <= b
    PROVE  PullSpec => []HoldingsFit(b)
<1>1. PullInit => Fits(b)
  <2> SUFFICES ASSUME PullInit, NEW p \in Replicas
               PROVE  plan[p].batch \in BatchSizes /\ Cardinality(batch[p]) <= b
    BY DEF Fits
  <2>1. plan[p] = BasePlan(Config) /\ batch[p] = {}
    BY DEF PullInit
  <2> QED
    BY <2>1, FS_EmptySet, PlansFit
<1>2. IInv /\ IInv' /\ Fits(b) /\ [PullNext]_pullVars => Fits(b)'
  BY Fits_Next
<1>3. IInv /\ Fits(b) => HoldingsFit(b)
  BY FittingHoldings
<1> QED
  BY <1>1, <1>2, <1>3, IInv_Always, PTL DEF PullSpec
=============================================================================
