----------------------------- MODULE PullRuntime -----------------------------
(***************************************************************************)
(* The NATS pull consumer (nats/pull_consumer_runtime.go, RunPullConsumer  *)
(* of nats/broker.go) of one subject, on any number of replicas that share *)
(* one durable JetStream consumer: in each process a fetcher that puts what*)
(* it fetched into a bounded channel, and workers that run the handler and *)
(* acknowledge.  A delivery is <<message, how often it was delivered>>.    *)
(* JetStream is external: it delivers what is owed to whoever fetches, owes*)
(* a message again when it was refused or AckWait elapsed, which may happen*)
(* at any time, and gives it up after MaxDeliver deliveries.               *)
(* The adapters are retained for compatibility (config/nats.go:8).         *)
(***************************************************************************)
EXTENDS NatsBootstrap, PullPlan, FiniteSets

CONSTANTS
    Messages,    \* what is published on the subject
    Poison,      \* the messages whose handler always fails
    Workers,     \* the workers of a process
    Config,      \* the settings of the consumer
    NoDelivery   \* a worker without a message

VARIABLES
    status,      \* status[m]: what JetStream thinks of m
    delivered,   \* delivered[m]: how many times m was delivered
    ctx,         \* ctx[p]: whether the context of the consumer is cancelled
    plan,        \* plan[p]: batch size and wait of the next fetch
    fetcher,     \* fetcher[p]: where the fetcher of p is
    batch,       \* batch[p]: deliveries fetched and not yet dispatched
    jobs,        \* jobs[p]: the channel
    worker,      \* worker[p][w]: where worker w of p is, and with what
    tried,       \* history: deliveries whose handler returned
    handled,     \* history: messages a handler succeeded on
    dropped      \* history: deliveries a process received, or missed, in vain

streamVars == <<status, delivered>>
processVars == <<ctx, plan, fetcher, batch, jobs, worker>>
historyVars == <<tried, handled, dropped>>
pullVars == <<bootVars, streamVars, processVars, historyVars>>

MaxDeliver == Config.max_deliver
QueueSize == Config.queue_size
Deliveries == Messages \X (1..MaxDeliver)

Statuses == {"owed", "out", "acked", "givenup"}
Contexts == {"off", "live", "cancelled"}
FetcherSteps == {"check", "fetch", "dispatch", "wait", "closed"}
WorkerSteps == {"idle", "handle", "ack", "nak", "gone"}

\* With settings Validate refuses, RunPullConsumer returns its error.
ASSUME RuntimeAssumption ==
    /\ Config \in PullConsumerConfig
    /\ Valid(Config)
    /\ IsFiniteSet(Messages)
    /\ IsFiniteSet(Workers)
    /\ Config.workers = Cardinality(Workers)
    /\ Config.stream \in AllStreams
    /\ Poison \subseteq Messages
    /\ NoDelivery \notin Deliveries

-----------------------------------------------------------------------------
\* JetStream.

Owed == {m \in Messages : status[m] = "owed"}

\* The message is delivered once more, or was delivered often enough.
OweAgain(m) ==
    status' = IF status[m] # "out" THEN status
              ELSE [status EXCEPT ![m] = IF delivered[m] < MaxDeliver
                                         THEN "owed" ELSE "givenup"]

\* AckWait elapses, however long the delivery still waits or is worked on.
AckWaitElapses(m) ==
    /\ status[m] = "out"
    /\ OweAgain(m)
    /\ UNCHANGED <<bootVars, delivered, processVars, historyVars>>

DeliverAll(S) ==
    /\ status' = [m \in Messages |-> IF m \in S THEN "out" ELSE status[m]]
    /\ delivered' = [m \in Messages |-> IF m \in S THEN delivered[m] + 1
                                        ELSE delivered[m]]

\* What the fetch of the messages in S returns.
Fetched(S) == {<<m, delivered[m] + 1>> : m \in S}

-----------------------------------------------------------------------------
\* RunPullConsumer and Create.

AllWorkers(step) == [w \in Workers |-> [at |-> step, with |-> NoDelivery]]

\* The goroutines of p as they are when none holds a delivery.
Runtime(p, context, fetching, working) ==
    /\ ctx' = [ctx EXCEPT ![p] = context]
    /\ plan' = [plan EXCEPT ![p] = BasePlan(Config)]
    /\ fetcher' = [fetcher EXCEPT ![p] = fetching]
    /\ batch' = [batch EXCEPT ![p] = {}]
    /\ jobs' = [jobs EXCEPT ![p] = <<>>]
    /\ worker' = [worker EXCEPT ![p] = AllWorkers(working)]

Start(p) == Runtime(p, "live", "check", "idle")

\* AddConsumer or, for a durable that exists, UpdateConsumer; then the goroutines.
RunPullConsumer(p) ==
    /\ ctx[p] = "off"
    /\ boot[p].at = "ready"
    /\ Valid(Config)
    /\ Config.stream \in streams
    /\ Start(p)
    /\ UNCHANGED <<bootVars, streamVars, historyVars>>

\* One of the calls of Create fails: the process does not start.
CreateFails(p) ==
    /\ ctx[p] = "off"
    /\ boot[p].at = "ready"
    /\ Fault("nats")
    /\ boot' = [boot EXCEPT ![p] = [next |-> 1, at |-> "down"]]
    /\ UNCHANGED <<streams, streamVars, processVars, historyVars>>

-----------------------------------------------------------------------------
\* runFetcher.

FetcherGoes(p, step) == fetcher' = [fetcher EXCEPT ![p] = step]

\* Faulty: the fetcher looks at the context only while it dispatches.
CheckPlanAlways(p) ==
    /\ fetcher[p] = "check"
    /\ FetcherGoes(p, "fetch")
    /\ UNCHANGED <<bootVars, streamVars, ctx, plan, batch, jobs, worker, historyVars>>

\* shouldStop, then maybeUpdateAdaptivePlan: the check interval may not have
\* elapsed, and ConsumerInfo may fail; the backlog are messages never delivered.
CheckPlan(p) ==
    /\ fetcher[p] = "check"
    /\ IF ctx[p] = "cancelled"
       THEN FetcherGoes(p, "wait") /\ UNCHANGED plan
       ELSE /\ FetcherGoes(p, "fetch")
            /\ \E pending \in {Cardinality({m \in Messages : delivered[m] = 0})} :
                  plan' \in {plan, [plan EXCEPT ![p] =
                                        ResolvePullPlan(Config, pending)]}
    /\ UNCHANGED <<bootVars, streamVars, ctx, batch, jobs, worker, historyVars>>

\* Fetch does not look at the context: it returns also after a cancellation.
Fetch(p) ==
    /\ fetcher[p] = "fetch"
    /\ \E S \in SUBSET Owed :
          /\ S # {}
          /\ Cardinality(S) <= plan[p].batch
          /\ DeliverAll(S)
          /\ batch' = [batch EXCEPT ![p] = Fetched(S)]
    /\ FetcherGoes(p, "dispatch")
    /\ UNCHANGED <<bootVars, ctx, plan, jobs, worker, historyVars>>

\* Faulty: any error of Fetch ends the fetcher.
FetchFailsForGood(p) ==
    /\ fetcher[p] = "fetch"
    /\ Owed = {}
    /\ FetcherGoes(p, "wait")
    /\ UNCHANGED <<bootVars, streamVars, ctx, plan, batch, jobs, worker,
                   historyVars>>

\* Nothing is owed until the wait ends, or the fetch fails and what JetStream
\* delivered to it is lost.
FetchFails(p) ==
    /\ fetcher[p] = "fetch"
    /\ \/ Owed = {} /\ UNCHANGED <<faults, streamVars, dropped>>
       \/ /\ Fault("nats")
          /\ \E S \in SUBSET Owed :
                /\ Cardinality(S) <= plan[p].batch
                /\ DeliverAll(S)
                /\ dropped' = dropped \cup Fetched(S)
    /\ FetcherGoes(p, "check")
    /\ UNCHANGED <<streams, boot, ctx, plan, batch, jobs, worker, tried, handled>>

\* Faulty: the channel is made with one place too many.
DispatchPastQueue(p) ==
    /\ fetcher[p] = "dispatch"
    /\ Len(jobs[p]) <= QueueSize
    /\ \E d \in batch[p] :
          /\ jobs' = [jobs EXCEPT ![p] = Append(jobs[p], d)]
          /\ batch' = [batch EXCEPT ![p] = batch[p] \ {d}]
          /\ FetcherGoes(p, IF batch[p] = {d} THEN "check" ELSE "dispatch")
    /\ UNCHANGED <<bootVars, streamVars, ctx, plan, worker, historyVars>>

\* Faulty: the message is sent again in the next round.
DispatchAgain(p) ==
    /\ fetcher[p] = "dispatch"
    /\ Len(jobs[p]) < QueueSize
    /\ \E d \in batch[p] : jobs' = [jobs EXCEPT ![p] = Append(jobs[p], d)]
    /\ FetcherGoes(p, "check")
    /\ UNCHANGED <<bootVars, streamVars, ctx, plan, batch, worker, historyVars>>

\* dispatchFetchedMessages: one message into the channel if it has room...
Dispatch(p) ==
    /\ fetcher[p] = "dispatch"
    /\ Len(jobs[p]) < QueueSize
    /\ \E d \in batch[p] :
          /\ jobs' = [jobs EXCEPT ![p] = Append(jobs[p], d)]
          /\ batch' = [batch EXCEPT ![p] = batch[p] \ {d}]
          /\ FetcherGoes(p, IF batch[p] = {d} THEN "check" ELSE "dispatch")
    /\ UNCHANGED <<bootVars, streamVars, ctx, plan, worker, historyVars>>

\* Faulty: a plain send, which waits for room whatever happens to the context.
DispatchNeverStops(p) == FALSE

\* ...or none any more once the context is cancelled.
DispatchStops(p) ==
    /\ fetcher[p] = "dispatch"
    /\ ctx[p] = "cancelled"
    /\ dropped' = dropped \cup batch[p]
    /\ batch' = [batch EXCEPT ![p] = {}]
    /\ FetcherGoes(p, "wait")
    /\ UNCHANGED <<bootVars, streamVars, ctx, plan, jobs, worker, tried, handled>>

Queued(p) == {jobs[p][i] : i \in DOMAIN jobs[p]}

\* wg.Wait, then close(jobs): what is still in the channel is left behind.
Close(p) ==
    /\ fetcher[p] = "wait"
    /\ \A w \in Workers : worker[p][w].at = "gone"
    /\ dropped' = dropped \cup Queued(p)
    /\ jobs' = [jobs EXCEPT ![p] = <<>>]
    /\ FetcherGoes(p, "closed")
    /\ UNCHANGED <<bootVars, streamVars, ctx, plan, batch, worker, tried, handled>>

FetcherStep(p) == \/ CheckPlan(p)
                  \/ Fetch(p)
                  \/ FetchFails(p)
                  \/ Dispatch(p)
                  \/ DispatchStops(p)
                  \/ Close(p)

-----------------------------------------------------------------------------
\* runWorker.

WorkerAt(p, w, step) == ctx[p] # "off" /\ worker[p][w].at = step

WorkerGoes(p, w, step, d) ==
    worker' = [worker EXCEPT ![p][w] = [at |-> step, with |-> d]]

\* With a message waiting and the context cancelled, select takes either.
Take(p, w) ==
    /\ WorkerAt(p, w, "idle")
    /\ jobs[p] # <<>>
    /\ jobs' = [jobs EXCEPT ![p] = Tail(jobs[p])]
    /\ WorkerGoes(p, w, "handle", Head(jobs[p]))
    /\ UNCHANGED <<bootVars, streamVars, ctx, plan, fetcher, batch, historyVars>>

WorkerStops(p, w) ==
    /\ WorkerAt(p, w, "idle")
    /\ ctx[p] = "cancelled"
    /\ WorkerGoes(p, w, "gone", NoDelivery)
    /\ UNCHANGED <<bootVars, streamVars, ctx, plan, fetcher, batch, jobs,
                   historyVars>>

HandlerSucceeds(p, w) ==
    /\ WorkerAt(p, w, "handle")
    /\ worker[p][w].with[1] \notin Poison
    /\ tried' = tried \cup {worker[p][w].with}
    /\ handled' = handled \cup {worker[p][w].with[1]}
    /\ WorkerGoes(p, w, "ack", worker[p][w].with)
    /\ UNCHANGED <<bootVars, streamVars, ctx, plan, fetcher, batch, jobs, dropped>>

\* Faulty: the error is logged and the message acknowledged.
HandlerFailsAcked(p, w) ==
    /\ WorkerAt(p, w, "handle")
    /\ worker[p][w].with[1] \in Poison
    /\ tried' = tried \cup {worker[p][w].with}
    /\ WorkerGoes(p, w, "ack", worker[p][w].with)
    /\ UNCHANGED <<bootVars, streamVars, ctx, plan, fetcher, batch, jobs,
                   handled, dropped>>

\* The handler runs under the context of the consumer.
HandlerFails(p, w) ==
    /\ WorkerAt(p, w, "handle")
    /\ \/ worker[p][w].with[1] \in Poison /\ UNCHANGED faults
       \/ ctx[p] = "cancelled" /\ UNCHANGED faults
       \/ Fault("handler")
    /\ tried' = tried \cup {worker[p][w].with}
    /\ WorkerGoes(p, w, "nak", worker[p][w].with)
    /\ UNCHANGED <<streams, boot, streamVars, ctx, plan, fetcher, batch, jobs,
                   handled, dropped>>

Acked(m) == status' = IF status[m] = "givenup" THEN status
                      ELSE [status EXCEPT ![m] = "acked"]

\* An acknowledgement counts for the message, also that of an older delivery;
\* one that fails may have arrived.
Ack(p, w) ==
    /\ WorkerAt(p, w, "ack")
    /\ \/ Acked(worker[p][w].with[1]) /\ UNCHANGED faults
       \/ Fault("nats") /\ UNCHANGED status
    /\ WorkerGoes(p, w, "idle", NoDelivery)
    /\ UNCHANGED <<streams, boot, delivered, ctx, plan, fetcher, batch, jobs,
                   historyVars>>

\* A refusal counts for the last delivery only; its error is dropped.
Nak(p, w) ==
    /\ WorkerAt(p, w, "nak")
    /\ \E m \in {worker[p][w].with[1]} :
          \/ /\ worker[p][w].with[2] = delivered[m]
             /\ OweAgain(m)
             /\ UNCHANGED faults
          \/ worker[p][w].with[2] # delivered[m] /\ UNCHANGED <<status, faults>>
          \/ Fault("nats") /\ UNCHANGED status
    /\ WorkerGoes(p, w, "idle", NoDelivery)
    /\ UNCHANGED <<streams, boot, delivered, ctx, plan, fetcher, batch, jobs,
                   historyVars>>

WorkerStep(p, w) == \/ Take(p, w)
                    \/ WorkerStops(p, w)
                    \/ HandlerSucceeds(p, w)
                    \/ HandlerFails(p, w)
                    \/ Ack(p, w)
                    \/ Nak(p, w)

-----------------------------------------------------------------------------
\* The process.

\* The context given to RunPullConsumer is cancelled.
Stop(p) ==
    /\ ctx[p] = "live"
    /\ Fault("stop")
    /\ ctx' = [ctx EXCEPT ![p] = "cancelled"]
    /\ UNCHANGED <<streams, boot, streamVars, plan, fetcher, batch, jobs, worker,
                   historyVars>>

\* What a worker has taken and not yet handled.
InHand(p) == {worker[p][w].with : w \in {v \in Workers :
                                             worker[p][v].at = "handle"}}

Ends(p) ==
    /\ Runtime(p, "off", "closed", "gone")
    /\ boot' = [boot EXCEPT ![p] = [next |-> 1, at |-> "down"]]

Exit(p) ==
    /\ ctx[p] = "cancelled"
    /\ fetcher[p] = "closed"
    /\ Ends(p)
    /\ UNCHANGED <<streams, faults, streamVars, historyVars>>

Crash(p) ==
    /\ ctx[p] # "off"
    /\ Fault("crash")
    /\ Ends(p)
    /\ dropped' = dropped \cup batch[p] \cup Queued(p) \cup InHand(p)
    /\ UNCHANGED <<streams, streamVars, tried, handled>>

-----------------------------------------------------------------------------

PullInit ==
    /\ BootInit
    /\ status = [m \in Messages |-> "owed"]
    /\ delivered = [m \in Messages |-> 0]
    /\ ctx = [p \in Replicas |-> "off"]
    /\ plan = [p \in Replicas |-> BasePlan(Config)]
    /\ fetcher = [p \in Replicas |-> "closed"]
    /\ batch = [p \in Replicas |-> {}]
    /\ jobs = [p \in Replicas |-> <<>>]
    /\ worker = [p \in Replicas |-> AllWorkers("gone")]
    /\ tried = {} /\ handled = {} /\ dropped = {}

Bootstrap(p) ==
    /\ StartProcess(p) \/ EnsureStream(p)
    /\ UNCHANGED <<streamVars, processVars, historyVars>>

\* What a process does by itself, one after another: bootstrap, fetch, end.
MainStep(p) == \/ Bootstrap(p)
               \/ RunPullConsumer(p)
               \/ FetcherStep(p)
               \/ Exit(p)

PullNext ==
    \/ \E m \in Messages : AckWaitElapses(m)
    \/ \E p \in Replicas :
          \/ MainStep(p)
          \/ \E w \in Workers : WorkerStep(p, w)
          \/ CreateFails(p)
          \/ Stop(p)
          \/ Crash(p)

PullSpec == PullInit /\ [][PullNext]_pullVars

\* A process is started again and goes on, every goroutine runs, a handler
\* returns, and AckWait ends for every delivery.  No fault need ever happen.
Fairness ==
    /\ \A m \in Messages : WF_pullVars(AckWaitElapses(m))
    /\ \A p \in Replicas :
          /\ WF_pullVars(MainStep(p))
          /\ \A w \in Workers : WF_pullVars(WorkerStep(p, w))

FairPullSpec == PullSpec /\ Fairness

-----------------------------------------------------------------------------

\* Every variable has its type; a channel holds no more than QueueSize
\* (pull_consumer_runtime.go:78).
PullTypeOK ==
    /\ BootTypeOK
    /\ status \in [Messages -> Statuses]
    /\ delivered \in [Messages -> 0..MaxDeliver]
    /\ ctx \in [Replicas -> Contexts]
    /\ plan \in [Replicas -> [batch: Nat \ {0}, wait: Nat \ {0}]]
    /\ fetcher \in [Replicas -> FetcherSteps]
    /\ batch \in [Replicas -> SUBSET Deliveries]
    /\ jobs \in [Replicas -> Seq(Deliveries)]
    /\ \A p \in Replicas : Len(jobs[p]) <= QueueSize
    /\ worker \in [Replicas -> [Workers ->
                        [at: WorkerSteps, with: Deliveries \cup {NoDelivery}]]]
    /\ tried \in SUBSET Deliveries
    /\ handled \in SUBSET Messages
    /\ dropped \in SUBSET Deliveries

\* The places where delivery d waits in a process or came to rest.
Places(d) ==
    [batches |-> {p \in Replicas : d \in batch[p]},
     queues |-> {x \in Replicas \X (1..QueueSize) :
                     x[2] \in DOMAIN jobs[x[1]] /\ jobs[x[1]][x[2]] = d},
     hands |-> {x \in Replicas \X Workers :
                    worker[x[1]][x[2]] = [at |-> "handle", with |-> d]}]

HowOften(d) == Cardinality(Places(d).batches) + Cardinality(Places(d).queues)
                   + Cardinality(Places(d).hands)
                   + (IF d \in tried THEN 1 ELSE 0)
                   + (IF d \in dropped THEN 1 ELSE 0)

\* Between the fetcher, the channel and the workers no delivery is doubled and
\* none disappears, whatever is cancelled or crashes when
\* (pull_consumer_runtime.go:94-163, 234-244).
DeliveriesAreAccounted ==
    \A d \in Deliveries :
        HowOften(d) = IF d[2] <= delivered[d[1]] THEN 1 ELSE 0

\* A process passes EnsureStream only when all its streams exist, whoever else
\* creates them, so the durable of a live consumer has its stream
\* (bootstrap.go:70-107, pull_consumer_runtime.go:57-61).
EnsuredStreamsExist ==
    \A p \in Replicas :
        /\ boot[p].at = "ready" => AllStreams \subseteq streams
        /\ boot[p].at \in {"add", "update"} =>
              \A i \in 1..(boot[p].next - 1) : StreamNames[i] \in streams
        /\ ctx[p] # "off" => Config.stream \in streams

\* A cancelled consumer is never stuck: until it has ended one of its goroutines
\* can go on, also with a full channel and workers that left, whatever the other
\* replicas and JetStream do (pull_consumer_runtime.go:137-138, 236-240).
StopIsNeverStuck ==
    \A p \in Replicas :
        ctx[p] = "cancelled" =>
            ENABLED (MainStep(p) \/ \E w \in Workers : WorkerStep(p, w))

\* How many steps a cancelled consumer has before it at most: the fetcher waits,
\* is done with its batch, or may still fetch one; each message it holds is put
\* into the channel, taken, handled and acknowledged; each worker leaves.
FetcherLeft(p) ==
    CASE fetcher[p] = "closed" -> 0
      [] fetcher[p] = "wait" -> 1
      [] fetcher[p] = "check" -> 2
      [] fetcher[p] = "dispatch" -> 3
      [] fetcher[p] = "fetch" -> 4 + 4 * plan[p].batch

WorkersAt(p, steps) == {w \in Workers : worker[p][w].at \in steps}

WorkersLeft(p) == Cardinality(WorkersAt(p, {"idle", "handle", "ack", "nak"}))
                      + Cardinality(WorkersAt(p, {"handle", "ack", "nak"}))
                      + Cardinality(WorkersAt(p, {"handle"}))

StepsLeft(p) == FetcherLeft(p) + 4 * Cardinality(batch[p]) + 3 * Len(jobs[p])
                    + WorkersLeft(p)

\* A stop ends after a bounded number of steps: whatever a goroutine of a
\* cancelled consumer does brings the end nearer, and what JetStream, a failing
\* call or another replica does never puts it off
\* (pull_consumer_runtime.go:94-163, 165-176).
StopRunsDown ==
    [][\A p \in Replicas :
          ctx[p] = "cancelled" /\ ctx'[p] = "cancelled" =>
              \/ StepsLeft(p)' < StepsLeft(p)
              \/ UNCHANGED <<plan[p], fetcher[p], batch[p], jobs[p], worker[p]>>]_pullVars

\* The replicas together keep what a durable
\* consumer promises: no delivery is handled twice, and only a message a handler
\* succeeded on is acknowledged (pull_consumer_runtime.go:109-131).
DC == INSTANCE DurableConsumer WITH
          MaxDeliver <- MaxDeliver,
          settled <- [m \in Messages |->
                          IF status[m] = "out" THEN "owed" ELSE status[m]]
RefinesDurableConsumer == DC!Spec

\* No message is owed for ever: the fetcher survives what Fetch returns
\* (pull_consumer_runtime.go:147-162, 216-232).
EveryMessageSettles == \A m \in Messages : <>(status[m] \in {"acked", "givenup"})
=============================================================================
