# A TLA+ verification of user-service

`user-service` owns the profiles of users: a PostgreSQL table written by
commands, a Redis read model in front of it, gRPC queries, and Kafka consumers
for the registration saga, for recovery commands and for a Redis projection.
Any number of replicas run at once. The code is small and each function is
straightforward; what is hard is what happens *between* its steps. This
project models those steps and checks, and for the most important results
proves, what they guarantee together.

All paths below are relative to the repository; `service.go` is
`internal/application/service.go`, `broker.go` is
`internal/presentation/event_broker/kafka/broker.go`.

## 1. Inventory

| component | state it keeps | operations | module |
|---|---|---|---|
| write model, `internal/infra/write/postgres`, `migration/postgres` | `users`, `outbox_events` (filled by a trigger) | Create, GetByID, GetByUsername, ExistsByUsername, ActivateByID, DeactivateByID, DeleteByID | `UserStore` |
| read model, `internal/infra/read/redis` | `user:preview:<id>`, `user:detailed:<name>`, no expiry | Upsert, UpsertByUsername, DeleteByID, GetByID, GetByUsername, the mappers | `ReadModel` |
| application, `internal/application` | none; a call holds a copy of a user between two I/O steps | CreateUser, DeleteUser, ActivateUser, DeactivateUser, ExistsByUsername, GetUserPreviewByID, ...NoCache, GetDetailedUserByUsername | `UserService`, `ReadModelCoherence`; promise: `UserLifecycle` |
| Kafka pull consumer, `broker.go`, `fx/presentation.go` | `processed_events` claims, group offsets, retry topic, dead letters | RunPullConsumer, Publish, deadLetterMessage, the supervisors | `EventConsumer`; promise: `EventClaims` |
| saga and recovery handlers, `kafka/saga.go`, `recovery_subscriber.go`, `error_reason.go` | none; results published | handleCreate, handleDelete, handle | `CommandHandlers` |
| detailed-user projection, `kafka/detailed_user.go` | two topics | publisher, relay, subscriber | `DetailedProjection` |
| gRPC server, `internal/presentation/grpc` | none | one method per operation | the callers in `UserService` |
| file client, `internal/infra/file/grpc` | none | GetFileURL | `Resolve` in `UserService` |
| NATS pull consumer, `nats/pull_consumer_*.go`, `nats/broker.go` | channel of jobs, adaptive plan; in JetStream a durable consumer | Create, runFetcher, runWorker, Validate, ResolvePullPlan | `PullRuntime`, `PullPlan`; promise: `DurableConsumer` |
| NATS stream bootstrap, `pkg/messaging/nats/bootstrap.go` | in JetStream three streams | EnsureStream | `NatsBootstrap` |
| process wiring, `internal/fx` | FX hooks, contexts of the consumers, readers, backoff | start and stop hooks, supervisors, gRPC Start and Shutdown | `ServiceProcess` |
| NATS handlers, `nats/saga_registration_subscriber.go`, `nats/detailed_user.go` | none | as in Kafka | not modelled (section 7) |
| migrations, storage opening, configuration | - | - | not modelled (section 7) |

How they interact. A gRPC method or a Kafka handler calls one application
operation. A command sends exactly one autocommitted statement; the trigger
copies the changed row into the outbox in the same transaction; then the
command writes or drops the preview. A query reads Redis, on a miss PostgreSQL,
asks the file service for a URL, and writes what it found back to Redis; a
detailed query also publishes a request, which a relay forwards to a second
topic, from which a subscriber writes Redis again. The consumers run every
handler under a claim row, release it when the handler fails, and requeue or
dead-letter the message. FX runs the start hooks of a process in the order of
its constructors and the stop hooks in reverse. The NATS adapters do the
consumers' work over JetStream; they are "retained only as legacy adapter
compatibility" (`config/nats.go:8`) and nothing wires them.

What is hard:

* **Read-through against commands.** Nothing orders the Redis writes of two
  calls: a query that read the row before a command may cache it after.
* **Half-done commands.** The row is committed before Redis is touched. When
  Redis fails, the caller hears of an error for a change that happened, and a
  retry hears of a domain error (`user_id already taken`, `user not found`).
* **Claims.** A claim decides whether a redelivered message is handled at all.
  Whatever ends between the claim and its release loses the message; whatever
  releases too much handles it twice.
* **Commits over gaps.** A requeued message is not committed, a later one
  commits over it, and a restart rereads from the last commit.
* **Ordering.** The key of a message is a hash of its whole envelope
  (`broker.go:62`), so two messages about one user share no partition.
* **Stopping.** A signal may come at any time. Contexts are cancelled without
  waiting for the consumers, and the stores close next.
* **Two queues in a row.** The NATS fetcher takes messages from JetStream into a
  batch and a bounded channel while `AckWait` runs; each may be full, abandoned,
  or delivered again elsewhere.

`PROJECT.json` lists every hazard at its line, with the properties aimed at it
or the reason why there is none yet.

## 2. The modules

`UserStore` -> `ReadModel` -> `UserService` extend one another; on
`UserService` build `ReadModelCoherence` (a history variable), `CommandHandlers`
and `DetailedProjection` (compositions). `EventConsumer` and `ServiceProcess` stand
alone: the first is what several processes do with messages, the second is the life
of one process with the messages left out. `PullRuntime` extends `NatsBootstrap` and `PullPlan`.
`UserLifecycle`, `EventClaims` and `DurableConsumer` are the abstract specifications.

**UserStore.** `users[id]` is a row or `NoRow`; `outbox` is `outbox_events` in
commit order. One operator per statement of `query.go`, with the trigger's row
(`CaptureOutboxEvent`) as part of it. Names are opaque, with `NoName` for the
blank name the code does not refuse; columns no decision reads (first and last
name, about, timestamps) are left out. Users have an avatar only in rows
imported before this service: nothing here sets `avatar_id`.

**ReadModel.** The two keyspaces and each mapping function, including what it
loses: a preview read from Redis has no status, a detailed user read from Redis
always claims to be active. A URL is modelled by the file it belongs to.

**UserService.** `call[r]` is a slot for a call: which operation, where it
is, and the copy of the user it holds. Every access to PostgreSQL, Redis or the
broker is an action of its own; between two of them any step of any other slot
may come. The lookup of a URL is part of the step before it, since nothing but
that call sees it happen. `Faults` says which dependencies fail. A failing
PostgreSQL or Redis command may have been applied all the same (the answer is
lost, or the context expires); `"death"` lets a call end between any two
steps, which is a crash of the process as well as a cancelled context. Slots
play for gRPC calls and Kafka handlers of all replicas alike, as replicas share
nothing but the stores. `strings.TrimSpace` is the function `Trimmed` on names:
queries apply it, `CreateUser` does not. Not modelled: the PostgreSQL error for
an id that is no UUID (one more way to get `"error"`).

**ReadModelCoherence** adds `disturbed`: the users for whom a command was between
its statement and its Redis step while another call held a copy of the user, or
a command did not finish. It constrains nothing.

**EventConsumer.** `log`, `committed`, `pos`, `owner` are a topic and its group,
`reader[c]` is where the loop of process `c` is and with which message. There
is one action per call the loop makes, with its error branch beside it; `Leave`
is the deferred `r.Close`, `Join` the supervisor that calls Subscribe again. A
claimed message is skipped without a commit (`broker.go:104`), a requeued one is
left uncommitted (129), a dead-lettered one too (131, 165). A `Shutdown`
cancels the context: from then on every call of that loop is refused until it
returns. What is external (Kafka, the retry runner, `ClaimDB`, `Release`) does
what the loop relies on and no more: rebalances at any time, a runner that may
write a copy twice, a commit that may have got through although it failed.

**CommandHandlers.** A command of the saga or of recovery is handed to a slot of
`UserService`, its service call runs step by step among all others, and what
the handler answers follows from the reply. Of the consumer loop it has what the
handlers can tell. `copies[k]` are the copies of command `k` in its topic, each
named by the attempt its header counts (`broker.go:140-149`), `ahead[k]` those the
loop has still to read. A copy is handed out while the claim is `free`, and passed
over else. After a failure the claim is released (or `lost`, if that fails), and a
copy with the next attempt is put aside, or a dead letter is written after the last;
attempts belong to the copy, so the original that was not committed is read again
with attempt 1 and can be put aside once more (`ReadAgain`). The partitions behind
the topics, and what a commit of one message does to others, are in `EventConsumer`.

**DetailedProjection.** The two topics of the projection as sets: an event may
be delayed for ever, be handled again after an error, or be given up.

**ServiceProcess.** `hook` is the stop hook whose turn it is in `HookOrder`,
`stores` what is still open, `at[c]` where the goroutine of consumer `c` is, `readers[c]`
every reader the broker remembers for it, open or closed. The start hooks are one
action: each of them only starts a goroutine, and FX looks at signals
afterwards. The gRPC server is in five places: before `Listen`, before
`Serve`, accepting, returned, and `broken`: `Serve` gives up when its listener fails for good
(`server.go:67`), which the goroutine of the start hook turns into a panic
(`fx/presentation.go:163-165`) while connections that are open go on. A cancelled
loop may still be handed a message by `FetchMessage`, which chooses between the
context and what it has buffered (`broker.go:91`); it does not get past the claim
(`broker.go:100`). `GracefulStop` waits for the calls; the second close of
the listener then fails (`server.go:74`), which ends that hook with an error and
stops no other. `AfterReturn` is where the supervisors differ: recovery always waits and
doubles its delay up to 30 seconds (`fx/presentation.go:60-70`), the others wait
after an error only. Not modelled: a hook that fails at start (the process ends
before anything runs), and the retry runners, which end with the context.

**NatsBootstrap.** Every replica ensures three streams, one after another,
without a lock between replicas: `AddStream`, and if it fails `UpdateStream`. `boot[p]`
is the stream `p` works on and the call that is under way.

**PullRuntime.** A delivery is a pair of a message and the number of its delivery.
It moves from JetStream into `batch[p]`, from there one by one into
the channel `jobs[p]`, from there to a worker, and is then acknowledged or
refused. Each of these moves is an action, as is each branch of the `select`s: a
cancelled dispatch, a worker that takes one more message although its context is
cancelled. `Fetch` ignores the context, as the code does. JetStream is external:
`AckWait` may elapse for any message that is out, an acknowledgement counts also
when it is late, a refusal only for the last delivery. `NatsFaults` are calls that
fail (and may have been carried out), handlers that fail, stops and crashes. The
history variables `tried`, `handled` and `dropped` are where deliveries come to rest.

**PullPlan.** `Valid` is `Validate`, `ResolvePullPlan` the plan for a backlog: pure
operators on integers, used by `PullRuntime` and proved about by themselves.

**DurableConsumer.** A message is delivered at most `MaxDeliver` times, each
delivery is handled at most once, only a message a handler succeeded on is acknowledged,
and only one delivered `MaxDeliver` times is given up.

Definitions marked `Faulty` are plausible bugs in the definition that follows
them. No specification uses them: they are there to show that each property
notices such a bug (`mutants` in `PROJECT.json`).

## 3. What the runs check

Runs that pass:

| run | instance | shows |
|---|---|---|
| `coherence` | 2 slots, 2 users, commands and preview queries, all faults but the file service, 2 commands | `StaleOnlyIfDisturbed`, `CopiesAgree`, `ReadModelDerived`, `PreviewHasURL`; `OutboxReplaysTable`: a consumer that replays the outbox gets the table, and each event follows from the ones before it; `RefinesLifecycle`; `TypeOK` |
| `consumer_claims` | 2 consumers, 1 partition, 3 events (one always fails, one cannot be unwrapped), every kind of fault, 3 of them | `TypeOK`, `OneHandlerAtATime`, `RefinesEventClaims` |
| `consumer_recovers` | 1 consumer, 2 partitions, 2 events, Kafka and handler faults, rebalances, duplicates, 3 of them | `NothingIsLost`, `NoOrphanedClaim`, and under fairness `EventuallyHandled` |
| `handlers_truth` | a registration, a rival for its name, its compensation; 2 handlers, all faults, one attempt per copy, one copy read again | `HandlersTypeOK`, `SuccessIsTrue` (the command changed the table, and the outbox reports it), `FailureIsTrue`, `ReasonsAreTrue` (the reason of a failure is true of the user), `DomainErrorsAreAnswered`, `KeepsEventClaims` |
| `handlers_progress` | a registration, its replay by recovery, a replay without id, a gRPC caller; Redis and the broker fail, 2 attempts per copy, 2 copies read again | `OnlyDeadLettersDetain` under fairness: no command is left without an answer, unless a dead letter that is read again keeps its topic |
| `projection` | 2 slots, 2 users who own one name in turn, all faults, 2 commands | `ProjectionTypeOK`, `ProjectionDerived` (with `ReadModelDerived`), `RequestsAreWarm` |
| `service_process` | 2 calls, the creation and the recovery consumer, Kafka errors, a taken port, a listener that breaks, a signal at any moment | `CallsFindStoresOpen`, `OnlyCancelledOutliveStores`, `ReadersAreBounded`, `PanicsBeforeServing`, `ServiceTypeOK`, and under fairness `ConsumersComeBack` |
| `pull_runtime` | 2 replicas with 1 worker each, 2 messages (one always fails), batches of 2, a channel of 1, 2 deliveries, every kind of fault, 1 of them | `DeliveriesAreAccounted`, `EnsuredStreamsExist`, `StopIsNeverStuck`, `StopRunsDown` (each step of a stop brings its end nearer), `RefinesDurableConsumer`, `PullTypeOK`, and under fairness `EveryMessageSettles` |

Runs that end in a violation, each of a statement the repository makes:

| run | statement | what happens |
|---|---|---|
| `service_stale_preview` | deactivation "removes the read model" (`application_test.go:250`) | a query loads the active row, the deactivation drops the preview, the query caches what it loaded: active for ever, with no failure at all |
| `service_stale_detailed` | deletion "deletes the write model and read model" (`application_test.go:152`) | the detailed entry stays; nothing ever calls `DeleteByUsername` |
| `service_padded_name` | ExistsByUsername "answers whether user-service already owns the supplied username" (`server.go:82`) | the name is stored as it came and looked for trimmed |
| `consumer_shutdown` | the saga subscriber "consumes registration commands and publishes user-operation results" (`saga.go:22`) | a graceful stop during a handler makes Release and Enqueue fail under the cancelled context; the claim stays, and the redelivered command is skipped |

### Bounds

`MaxWrites` bounds the commands of a behaviour (in `CommandHandlers` commands
are bounded by `Commanded` instead, and `MaxRestarts` bounds how often copies are read again), `MaxFaults` the faults,
`MaxLog` the messages of a partition, `MaxRetries` the retry topic,
`MaxAttempts` is 1 or 2 where the library's policy has a larger number. Queries
are not bounded. Two slots are enough for every race of the service: a race is
between one command's two steps and one other call; two commands let a user be
removed and created again, or changed twice, under a query. Two users suffice to compete for
a name, and to show that one user's calls leave another's preview alone. Three
faults are more than any finding above takes. In the runs with
`FairSpec` the bounds on the topic and the retry queue are above what the
faults can produce, so that no bound stops a loop; with a copy that
is read again, `handlers_truth` sees each handler run to its end, fail, and run again
after anything its rivals did meanwhile. Copies put aside for a second attempt are in
`handlers_progress`; the theorems have any number of attempts and copies. In
`handlers_progress` a copy read again is never one the property needs: fairness asks only for the
copies that are there, so `MaxRestarts` keeps no command from its end. Symmetry is used for slots,
handlers and consumers, only in runs without liveness.

In `service_process` there is one consumer of each kind of supervisor, as the
kinds share nothing but the hooks. `MaxReaders` = 7 lets the recovery
consumer return often enough for its delay to reach the cap and be doubled once
more there; only a live consumer is held by the bound, so it never hides what a
stop does. `pull_runtime` has a batch larger than the
channel, so the fetcher meets a full channel; two deliveries of one
message can be at work at once, on one replica or on two, through `AckWait`, which is no
fault and not bounded. With `MaxFaults` = 1 the run takes two minutes, with 2 it
does not end in reasonable time; what two faults do together is covered by the
proofs, except for `StopIsNeverStuck` and `EveryMessageSettles`. The adaptive plan is switched off in this run:
with two messages all plans fetch alike, and what the plans can be is proved in
`PullRuntimeProofs`.

`CHECK_DEADLOCK FALSE` is set because the bounds end a behaviour: with all
commands issued and all messages consumed nothing is left to do, and a process
that has exited stays so. In `pull_runtime` deadlock is checked: a fetcher never ends
by itself.

### Fairness

`Fairness` of `EventConsumer` is weak fairness of each process's loop, of the
group's assignment of partitions and of the retry runner: the supervisors call
Subscribe again whenever it returns (`saga.go:68-90`, `fx/presentation.go:43-80`),
`FetchMessage` returns when there is a message, and Kafka assigns partitions
while a member is up. Nothing is fair to a fault. `HandlersFairness` is weak
fairness of each handler's steps, as a call to a dependency returns because each has
a timeout or a context, and of handing out each copy, but only while the copy is not
`Detained`: a dead letter of its topic is not committed (`broker.go:131`), is
read again after each return, and nothing guarantees that the loop gets past it. A copy
of a command whose claim is kept detains nobody, as it is passed over.

`PullRuntime` assumes that `AckWait` elapses for each message that is out (a timer of
JetStream), that each process goes on with what it does by itself (it is restarted after a
crash or a stop, bootstraps and fetches: `Fetch` has a maximum wait), and that each
worker does (a handler returns). `FairServiceSpec` assumes that the process
starts and that each supervisor's goroutine runs. `ConsumersComeBack` asks for no
message to arrive: it ends when the loop is back at `FetchMessage`. Stops, crashes,
signals and errors are never fair.

## 4. What is proved

TLAPS checks these for every set of users, names, avatars, calls, consumers,
partitions, replicas, workers and messages, every set of faults, and every bound. The only
assumptions are the named ASSUMEs of the modules: the special values are
distinct from the data, the imported table satisfies its own constraints,
`TrimSpace` is idempotent and keeps the blank name blank, the settings of
the NATS consumer pass `Validate`, and its messages and workers are finitely
many. Some theorems assume more, each what it cannot do without:

* `PreviewsHaveURLs`, `HandlersKeepURLs`, `ProjectionKeepsURLs` and
  `DetailedUsersHaveURLs`: the file service does not fail;
* `ReliableGroupFreesClaims` (`ReliableGroup`): no process of the group stops or
  crashes, and the database answers. A graceful stop does leave a claim behind:
  `consumer_shutdown`;
* `ShelteredGroupLosesNothing` (`ShelteredGroup`): that, and if Kafka may fail, the group
  has one consumer. Of two, one may commit over a message that the other has
  given back and then fails to put aside (section 5);
* `UnclaimedEventsAreKept` (`SteadyGroup`): the group has one consumer, and anything may
  fail; or it has any number, its processes live, and Kafka answers;
* `HealthyGroupLosesNothing` (`HealthyGroup`): processes live, and the database and
  Kafka answer. Handlers may fail, and partitions move;
* `SoundEventsAreSpared`: no handler fails of itself, and no process is stopped
  gracefully, which cancels handlers. Everything else may fail or crash;
* `PanicsAreHarmless`: the listener of the gRPC server does not break while it accepts;
* `HoldingsAreBounded`: `b` is at least as large as each batch size of the configuration;
* `OnlyFaultsWasteDeliveries` (`OnlyHandlersFail`): of the faults of the NATS
  runtime only failing handlers, as often as they like.

| module | theorem | says |
|---|---|---|
| `UserServiceProofs` | `TypeCorrect` | `[]TypeOK` |
| | `ServiceIsStatements` | the service implements the write model, `StoreSpec` |
| | `OutboxIsFaithful` | `[]OutboxReplaysTable` |
| | `NamesStayUnique` | `[]TableConsistent` |
| | `NamesChangeHandsByRemoval` | `[]NamesAreFreedFirst`: in the outbox a name passes to another user only after the removal of the first |
| | `ImplementsLifecycle` | the service implements `UserLifecycle` |
| | `ReadModelIsDerived` | `[]ReadModelDerived` |
| | `PreviewsHaveURLs` | `[]PreviewHasURL`, if the file service answers |
| | `CallsComeToAnEnd` | `CallsRunDown`: a call makes five requests of its dependencies at most, the file service included, and nothing makes it start over |
| `ReadModelCoherenceProofs` | `HistoryIsService` | the history variable does not interfere: `HistorySpec => Spec` |
| | `OnlyDisturbedAreStale` | `[](StaleOnlyIfDisturbed /\ CopiesAgree)` |
| | `CopiesAreOfOneVersion` | `[]CopiesAgree` |
| `EventConsumerProofs` | `TypeCorrect` | `[]TypeOK` |
| | `HandlersAreExclusive` | `[]OneHandlerAtATime` |
| | `ImplementsEventClaims` | the consumers implement `EventClaims` |
| | `EventsAreAppliedOnce` | an event is applied once at most, and stays claimed from then on |
| | `ShelteredGroupLosesNothing` | `[]NothingIsLost`, for a `ShelteredGroup` |
| | `ReliableGroupFreesClaims` | `[]NoOrphanedClaim`, for a `ReliableGroup` |
| | `UnclaimedEventsAreKept` | `[]UnclaimedIsKept`: a lost event has left its claim, for a `SteadyGroup` |
| | `HealthyGroupLosesNothing` | `[]NothingAtAllIsLost`: no event is lost, readable or not, and no claim left behind, for a `HealthyGroup` |
| | `DeadLettersAreExhausted` | `[]DeadLettersWereTried`: a dead letter is unreadable, rejected, or the last of `MaxAttempts` copies in the topic |
| | `SoundEventsAreSpared` | `[]SoundEventsSpared`: no sound event is retried or dead-lettered, if no handler fails or is cancelled |
| `CommandHandlersProofs` | `HandlersTypeCorrect` | `[]HandlersTypeOK` |
| | `HandlersAreStatements` | commands, handlers and callers together implement `StoreSpec` |
| | `HandlersKeepTable` | `[]TableConsistent`, `[]OutboxReplaysTable`, `[]NamesAreFreedFirst`, `RefinesLifecycle` |
| | `HandlersKeepReadModel` | `[]ReadModelDerived` |
| | `HandlersKeepURLs` | `[]PreviewHasURL`, if the file service answers |
| | `HandlersKeepClaims` | `KeepsEventClaims` |
| | `SuccessesAreTrue` | `[]SuccessIsTrue` |
| | `FailuresAreTrue` | `[]FailureIsTrue` |
| | `ReasonsTrue` | `[]ReasonsAreTrue` |
| | `DomainErrorsAnswered` | `[]DomainErrorsAreAnswered` |
| `DetailedProjectionProofs` | `ProjectionTypeCorrect` | `[]ProjectionTypeOK` |
| | `ProjectionIsStatements` | service and topics together implement `StoreSpec` |
| | `ProjectionKeepsTable` | `[]TableConsistent`, `[]OutboxReplaysTable`, `[]NamesAreFreedFirst`, `RefinesLifecycle` |
| | `ProjectionKeepsURLs` | `[]PreviewHasURL`, if the file service answers |
| | `DetailedUsersHaveURLs` | `[]DetailedHasURL`: so have detailed entries, requests, events and answers, if the file service answers |
| | `EventsShowTheirUser` | `[]ProjectionDerived` |
| | `RequestsFindEntries` | `[]RequestsAreWarm` |
| `ServiceProcessProofs` | `TypeCorrect` | `[]ServiceTypeOK` |
| | `CallsKeepTheirStores` | `[]CallsFindStoresOpen` |
| | `StoresOutliveConsumers` | `[]OnlyCancelledOutliveStores` |
| | `OneReaderOpen` | `[]ReadersAreBounded` |
| | `PanicsComeFirst` | `[]PanicsBeforeServing` |
| | `PanicsAreHarmless` | a process that panics never accepted a call, if the listener does not break |
| | `CancelledConsumersEnd` | a cancelled consumer ends after four of its steps at most, the fetch of one more message among them |
| | `StopsAreComplete` | `[]StopIsComplete`: after the last hook all stores are closed, no call runs, all consumers are cancelled, and only a late reader is open |
| `PullRuntimeProofs` | `PlansAreUsable` | a validated configuration gives every backlog a positive batch and wait |
| | `TiersFollowBacklog` | a larger backlog gets no lower tier, and each tier is reached |
| | `TypeCorrect` | `[]PullTypeOK` |
| | `StreamsExist` | `[]EnsuredStreamsExist` |
| | `StopsRunDown` | `StopRunsDown`: each step of a stop brings its end nearer |
| | `HoldingsAreBounded` | `[]HoldingsFit(b)`: a replica holds at most `b` + queue + workers deliveries, and a stop takes at most 4`b` + 3 queue + 3 workers + 4 steps |
| `PullAccountingProofs` | `DeliveriesAccounted` | `[]DeliveriesAreAccounted` |
| | `ImplementsDurableConsumer` | the replicas implement `DurableConsumer` |
| | `MessagesAreSettledForGood` | what is acknowledged was handled, what is given up had all its deliveries, and neither is delivered again |
| | `OnlyFaultsWasteDeliveries` | every delivery of a message given up reached a handler or waits for one, if only handlers fail |

The arguments:

* *Table and outbox.* `OnlyStatements`: a step of the service either leaves the
  store alone or is one statement of `UserStore`. So the service implements `StoreSpec`,
  and so do the two compositions (`HandlersAreStatements`, `ProjectionIsStatements`).
  Unique names, the replay of the outbox and the lifecycle are proved once, of the
  statements alone (`StoreIsConsistent`, `StoreIsReplayed`, `StoreIsLifecycle`),
  and hold in all three systems. So is `NamesAreFreedFirst` (`StoreFreesNames`), which speaks of
  the log only and needs a link to the table (`HeldOrFreed`): whoever had a name
  in the log has it in the table, or was removed since.
* *Read model.* `ReadModelDerived` is not inductive: a query copies the row, so
  one needs that the row itself is among the committed contents
  (`RowIsVersion`), and that contents are only ever added (`VersionsGrow`).
* *Coherence.* For each undisturbed user at once: every copy on its way to Redis
  agrees with the row, no such copy overlaps a command that still has to reach
  Redis, and the preview agrees or such a command is pending (`Undisturbed`);
  also every copy is written under the id of its call (`CopiesKeyed`).
* *Claims.* `OneHandlerAtATime` is about handlers, but the claim must also
  protect the time between a handler's failure and the release. The inductive
  `ClaimDiscipline` therefore speaks of `handle` and `release` together: a
  working loop has its event claimed, unapplied, and to itself; and an
  unclaimed event was never applied.
* *What an implementation inherits.* The promise of `EventClaims` (an event is applied once, and
  for good) is proved of `EventClaims` and carried over by `ImplementsEventClaims`;
  `HandlersKeepClaims` shows that `CommandHandlers` relies on no more than that
  specification allows, so the two modules meet in it. `MessagesAreSettledForGood` is
  carried over from `DurableConsumer` in the same way.
* *Claims left behind.* `ClaimsAreUsed`: in a `ReliableGroup` what is claimed is settled, or its
  loop sees the claim through (`SeesThrough`): it handles the event, releases it, or
  puts aside a message it cannot unwrap. The last is claimed for ever if that fails,
  hence the exception for garbled messages when Kafka may fail.
* *Losses.* A message is at the `Front` when it is not committed, its partition's
  owner is not past it unless it holds it, and nobody holds a later one to commit: it
  is fetched, or fetched again if its holder stops. An event is `Kept` when it is settled, in the
  retry topic or at the front somewhere; it is `Bound` when it left a claim under
  which nobody works, or when a group that sees its work through has it in hand.
  `LossInv`: every published event is kept or bound. It is inductive for any
  `SteadyGroup`: a lone consumer loses what it holds only with the claim it
  took, as a message without a claim is read again; in a larger group another
  may commit past it, but then the holder's requeue or dead letter succeeds. Without a
  claim nothing is bound by the first of the two cases: that is `UnclaimedEventsAreKept`. With
  `ReliableGroupFreesClaims`, which leaves no such claim, it gives
  `ShelteredGroupLosesNothing` and `HealthyGroupLosesNothing`.
* *Attempts.* `CountInv`: with each copy of an event all copies of fewer attempts are in
  the topic, for one in the retry topic all before it, and a loop goes to the dead letters only
  with a message that is `Final`. For the sound events `SpareInv` says that no loop
  gets as far as the release of one.
* *Running down.* `RequestsLeft` bounds the requests a call still makes of its dependencies. It is
  no number in the code; it bounds what the guards admit: each step pays for the
  requests it makes, two where the URL of an avatar is asked for as well, and no step of another adds any. Of the
  commands nothing like it holds: each time the original is read again, its attempts start anew.
* *Commands.* What a success reports is in the outbox because a call that has a
  reply to give has passed its statement (`RInv`). `Slots`: each slot in use belongs to one running command, and each running
  command has one. `Progress` ties the step a call is at to whether its statement was
  carried out. With both, `Truth(k)` is inductive: a command no
  dependency failed is carried out at most once, is handed out again only if it did nothing,
  and has one answer. For the reasons (`EInv`), what the table showed when the statement failed
  must still be known when the reason is published: that the id or the name was taken is in the
  committed contents, which only grow, and that a user is gone is in the outbox, which has an event for every
  removal (`RemovalsAreReported`).
* *Projection.* An event is applied by whatever entry is in Redis then, so
  it must be known that the entry is there and stays: a detailed query works on
  a trimmed name and publishes after it wrote the entry (`NamedCall`), and no step
  deletes a detailed entry (`EntriesStay`). The rest is `ReadModelIsDerived`.
* *URLs.* A preview gets its URL in `Resolve`, between two steps of a call, so the
  invariant `HasURL` speaks of the copies that calls hold as well as of Redis.
  `DetailedHasURL` takes in the requests and events too: an event is written over
  whatever entry Redis has by then, so none under way may lack the URL.
* *Process.* The position in `HookOrder` says what has been done: `HooksDone` gives, for
  each hook that had its turn, what holds since: the server is
  refusing with no call left, the contexts are cancelled. `ConsumerInv` says of each consumer that all its readers but the
  last are closed, the last too unless the loop is in it, and that the one reader
  it may open late is opened from a check that came before. `CancelledWindDown` then has
  four cases: handling, claiming, fetching, opening. `Closed` adds what the hooks
  closed and nothing opens again, for `StopsAreComplete`.
* *Deliveries.* The invariant in terms of cardinalities is not one to reason with. `Account`
  states the same with quantifiers: a delivery that was made is in some place or at
  rest, and no two places hold the same one (`Exclusive`, within a replica,
  and `Shared`, between them). `IInv` adds the control state: a fetcher has a batch only
  while it dispatches, a worker a delivery only while it handles or
  answers one, and a closed process holds none. The theorem then counts. The refinement needs `Account`
  too: that a worker handles a delivery that was not tried yet is exactly that it
  is nowhere else; and that an acknowledged message was handled is part of `IInv`.
* *End of a stop.* `StepsLeft` counts what a cancelled NATS consumer may still do: a term
  for the fetcher, which may fetch once more, one for each message in its batch and in
  the channel, and one for each worker. Each step of the consumer takes from one term at least what it
  adds to another, and no other process touches them. `Fits` bounds the terms: a plan asks for
  one of the configured batches, and `Fetch` returns no more than was asked for.
* *Wasted deliveries.* Without stops and crashes no context is cancelled, so a delivery
  leaves batch and channel for a worker only, and a worker for a handler.

Only model-checked: `EventuallyHandled`, `OnlyDeadLettersDetain`, `EveryMessageSettles` and
`ConsumersComeBack`, as liveness under fairness is out of TLAPS's reach, and
`StopIsNeverStuck`, as it is about ENABLED. With the last, `StopsRunDown` says that a
stop ends if its goroutines run; `CancelledConsumersEnd` says as much of the Kafka
consumers, whose calls all return.

## 5. What the results mean

* Redis never mixes two users or two versions and never shows what PostgreSQL
  did not commit for that very user. It may show an *old* version, but only
  of a user for whom calls overlapped or a command was cut short.
* Published results of the saga are true as long as no dependency failed in
  the command itself. After such a failure "failed" may be published for a
  change that happened: `FailureIsTrue` excuses exactly the commands in `broken`. Even then the
  reason is true (`ReasonsAreTrue`), although it may be the doing of the command itself: a creation
  handled twice is told that its id is taken.
* An event is applied at most once, always. That it is applied at least once
  needs more: no crash, no graceful stop and no lost database answer between
  claim and release, no event in front of it that is dead-lettered, and, if
  several consumers share the topic, no failure of Kafka. With two consumers
  `NothingIsLost` then fails: a partition moves
  while its old owner holds a message under its claim; the new owner skips the
  message, handles and commits a later one; the old owner releases the claim
  and fails to requeue; the message is below the commit and nowhere else. While
  Kafka answers, no number of consumers loses anything (`ShelteredGroupLosesNothing`).
  Where something is lost, it has left a row in `processed_events` (`UnclaimedEventsAreKept`): for
  a lone consumer under every fault, crashes included, and for a group whose processes live and
  which Kafka answers. Comparing those rows with the effects of the events finds
  every loss there.
* A dead letter cannot be read, was refused for good, or had all its attempts; a crash or
  a rebalance is no attempt.
* A process stops in an order that never takes a store from an accepted call, and
  never lets a live consumer take a message without its stores. A handler whose consumer was cancelled
  may well find the stores closed: the hooks do not wait for it.
* A delivery of the NATS runtime is handled by one worker or
  dropped by one process, and a message is acknowledged only if it was handled; it may be
  handled more than once, as the claims of Kafka have no counterpart there.

What the models show and no document of the repository contradicts:

* A refused or failing command is dead-lettered without a commit
  (`broker.go:131`). The loop ends, its supervisor calls it again, and the
  message is read again, for ever; the messages behind it are not reached. `EventuallyHandled` holds in
  `consumer_recovers` because no event fails always there, and `OnlyDeadLettersDetain` excepts
  the commands that share a topic with such a message.
* `Shutdown` closes a listener that `GracefulStop` has closed (`server.go:74`), so the
  hook of the server always reports an error. A signal between the start hooks
  and `Serve` makes `Serve` fail, and the error is a panic in the middle of the other hooks (`fx/presentation.go:164`). A listener
  that fails for good while the server accepts makes `Serve` return the error as well (`server.go:67`), and the
  process panics under the calls and consumers that run; it is the only panic that does.
* Every return of a consumer leaves one more reader in the broker's list and one more
  retry runner, until the process ends.
* The channel of the NATS runtime is dropped when it stops; each message in it has used
  up a delivery. After `MaxDeliver` such stops it is given up although no handler saw it.

## 6. Plan

Done in this order: `UserStore`, `ReadModel`, `UserService` with their proofs;
`ReadModelCoherence`; `EventConsumer` and `EventClaims`; `CommandHandlers`;
`DetailedProjection`; `PullPlan`, `NatsBootstrap`, `DurableConsumer` and
`PullRuntime`; `ServiceProcess`. Next:

1. `OutboxOrder`: overlapping transactions with `NOW()` at their start; whether a
   reader that orders by `occurred_at` can see two events of one user reversed. The
   relay that reads the table is outside the repository.

## 7. Not modelled

* *Migrations and storage opening*: start-up I/O through golang-migrate and `database/sql`; the
  tables, constraints and the trigger they create are in `UserStore`.
* *Configuration and logging*: no state changes after start; the settings a
  behaviour depends on are constants of the modules.
* *NATS handlers, `Publish`, `Flush` and the core-NATS subscription*: the handlers
  repeat the Kafka ones, which `CommandHandlers` models, are wired nowhere, and the
  rest keeps no state.
* *gRPC status codes and protobuf messages*: stateless mappings of replies.
* *`DeleteByUsername`* of the read model: nothing calls it.
* *The circuit breaker and the retry policy* of the libraries: the breaker is one more way in which a
  Redis command fails, the policy is `MaxAttempts`.
