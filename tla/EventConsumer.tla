---------------------------- MODULE EventConsumer ----------------------------
(***************************************************************************)
(* RunPullConsumer of internal/presentation/event_broker/kafka: the fetch  *)
(* loops of one consumer group over one topic, the claims they take in     *)
(* processed_events, the retry queue, the dead-letter topic and the loops  *)
(* that start a consumer again after it returned.  Kafka, the retry runner *)
(* and PostgreSQL are modelled by what the loop relies on.  A consumer is  *)
(* one RunPullConsumer call after another in one process.                  *)
(***************************************************************************)
EXTENDS Integers, Sequences

CONSTANTS
    Consumers,      \* the processes of the group
    Partitions,     \* of the topic
    Events,         \* what upstream publishes
    Kind,           \* Kind[e]: what the code makes of the event, see Kinds
    Nobody,         \* the owner of an unassigned partition
    MaxAttempts,    \* resilience.DefaultRetryPolicy.MaxAttempts
    Faults,         \* which faults happen
    MaxFaults,      \* bound on the faults of a behaviour
    MaxLog,         \* bound on the messages of a partition
    MaxRetries      \* bound on the messages waiting in the retry topic

VARIABLES
    log,            \* log[p]: the messages of partition p
    committed,      \* committed[p]: messages the group has committed
    pos,            \* pos[p]: messages the owner of p has fetched
    owner,          \* owner[p]: the consumer p is assigned to
    reader,         \* reader[c]: where the loop of c is, and with which message
    cancelled,      \* consumers whose context was cancelled
    claims,         \* rows of processed_events
    retry,          \* the retry topic
    dlq,            \* the dead-letter topic: copies of messages
    done,           \* done[e]: how many times the handler succeeded on e
    faults          \* faults so far

kafkaVars == <<log, committed, pos, owner, retry, dlq>>
vars == <<log, committed, pos, owner, reader, cancelled, claims, retry, dlq,
          done, faults>>

\* "sound": the handler succeeds unless something it needs fails;
\* "failing": it always fails; "rejected": it fails with resilience.Permanent;
\* "garbled": commonevents.Unwrap refuses the envelope.
Kinds == {"sound", "failing", "rejected", "garbled"}

FaultKinds == {"kafka", "db", "handler", "crash", "shutdown", "duplicate",
               "rebalance"}

Message == [event: Events, attempt: 1..MaxAttempts]
Steps == {"down", "fetch", "claim", "handle", "release", "requeue",
          "deadletter", "commit"}

ASSUME ConsumerAssumption ==
    /\ Kind \in [Events -> Kinds]
    /\ Nobody \notin Consumers
    /\ MaxAttempts \in Nat \ {0}
    /\ Faults \subseteq FaultKinds
    /\ MaxFaults \in Nat
    /\ MaxLog \in Nat
    /\ MaxRetries \in Nat

-----------------------------------------------------------------------------

At(c, pc) == reader[c].pc = pc
Up == {c \in Consumers : ~At(c, "down")}

\* The message consumer c works on.
Held(c) == log[reader[c].part][reader[c].offset]
EventOf(c) == Held(c).event

Go(c, pc) == reader' = [reader EXCEPT ![c] =
    [pc |-> pc, part |-> reader[c].part, offset |-> reader[c].offset]]

Fault(kind) ==
    /\ kind \in Faults
    /\ faults < MaxFaults
    /\ faults' = faults + 1

\* A call to a dependency under a cancelled context is refused at once; under
\* a live one it may report a failure although it was carried out.
CallRefused(c) == c \in cancelled /\ UNCHANGED faults
CallBreaks(c, dependency) == c \notin cancelled /\ Fault(dependency)
CallFails(c, dependency) == CallRefused(c) \/ CallBreaks(c, dependency)
CallSucceeds(c) == c \notin cancelled /\ UNCHANGED faults

\* RunPullConsumer returns, or its process dies: the group takes its partitions
\* away, and a cancelled context ends with the process.
Leave(c) ==
    /\ Go(c, "down")
    /\ owner' = [p \in Partitions |-> IF owner[p] = c THEN Nobody ELSE owner[p]]
    /\ cancelled' = cancelled \ {c}

AppendTo(p, e, n) ==
    /\ Len(log[p]) < MaxLog
    /\ log' = [log EXCEPT ![p] = Append(@, [event |-> e, attempt |-> n])]

Published(e) == \E p \in Partitions :
                    \E i \in DOMAIN log[p] : log[p][i].event = e

-----------------------------------------------------------------------------
\* Kafka and the services upstream.

Publish(e, p) ==
    /\ AppendTo(p, e, 1)
    /\ IF Published(e) THEN Fault("duplicate") ELSE UNCHANGED faults
    /\ UNCHANGED <<committed, pos, owner, reader, cancelled, claims, retry, dlq,
                   done>>

\* A new generation of the group: every reader goes on from the commits.
Rebalance ==
    /\ \E assignment \in [Partitions -> Up] : owner' = assignment
    /\ pos' = committed
    /\ IF \E p \in Partitions : owner[p] = Nobody THEN UNCHANGED faults
                                                  ELSE Fault("rebalance")
    /\ UNCHANGED <<log, committed, reader, cancelled, claims, retry, dlq, done>>

\* KafkaRetryQueueConfig.Run moves a due copy back to the topic.
RetryDue(p) ==
    /\ retry # <<>>
    /\ AppendTo(p, Head(retry).event, Head(retry).attempt)
    /\ \/ retry' = Tail(retry) /\ UNCHANGED faults
       \/ Fault("duplicate") /\ UNCHANGED retry
    /\ UNCHANGED <<committed, pos, owner, reader, cancelled, claims, dlq, done>>

-----------------------------------------------------------------------------
\* The loop.

Join(c) ==
    /\ At(c, "down")
    /\ Go(c, "fetch")
    /\ UNCHANGED <<kafkaVars, cancelled, claims, done, faults>>

Fetch(c) ==
    /\ At(c, "fetch")
    /\ \E p \in Partitions :
          /\ owner[p] = c
          /\ pos[p] < Len(log[p])
          /\ pos' = [pos EXCEPT ![p] = pos[p] + 1]
          /\ reader' = [reader EXCEPT ![c] =
                            [pc |-> "claim", part |-> p, offset |-> pos[p] + 1]]
    /\ UNCHANGED <<log, committed, owner, retry, dlq, cancelled, claims, done,
                   faults>>

FetchFails(c) ==
    /\ At(c, "fetch")
    /\ CallFails(c, "kafka")
    /\ Leave(c)
    /\ UNCHANGED <<log, committed, pos, retry, dlq, claims, done>>

\* Faulty: whatever ClaimDB answers, the handler runs.
ClaimIgnored(c) ==
    /\ At(c, "claim")
    /\ CallSucceeds(c)
    /\ claims' = claims \cup {EventOf(c)}
    /\ Go(c, "handle")
    /\ UNCHANGED <<kafkaVars, cancelled, done>>

\* A claimed event is passed over without a commit; a garbled one goes to the
\* dead letters under the claim it took.
Claim(c) ==
    /\ At(c, "claim")
    /\ CallSucceeds(c)
    /\ \/ /\ EventOf(c) \notin claims
          /\ claims' = claims \cup {EventOf(c)}
          /\ Go(c, IF Kind[EventOf(c)] = "garbled" THEN "deadletter"
                                                   ELSE "handle")
       \/ /\ EventOf(c) \in claims
          /\ Go(c, "fetch")
          /\ UNCHANGED claims
    /\ UNCHANGED <<kafkaVars, cancelled, done>>

ClaimFails(c) ==
    /\ At(c, "claim")
    /\ \/ CallFails(c, "db") /\ UNCHANGED claims
       \/ CallBreaks(c, "db") /\ claims' = claims \cup {EventOf(c)}
    /\ Leave(c)
    /\ UNCHANGED <<log, committed, pos, retry, dlq, done>>

HandlerSucceeds(c) ==
    /\ At(c, "handle")
    /\ Kind[EventOf(c)] = "sound"
    /\ done' = [done EXCEPT ![EventOf(c)] = done[EventOf(c)] + 1]
    /\ Go(c, "commit")
    /\ UNCHANGED <<kafkaVars, cancelled, claims, faults>>

\* Faulty: a failure is acknowledged.
HandlerFailureCommitted(c) ==
    /\ At(c, "handle")
    /\ IF Kind[EventOf(c)] = "sound" THEN CallFails(c, "handler")
                                     ELSE UNCHANGED faults
    /\ Go(c, "commit")
    /\ UNCHANGED <<kafkaVars, cancelled, claims, done>>

HandlerFails(c) ==
    /\ At(c, "handle")
    /\ IF Kind[EventOf(c)] = "sound" THEN CallFails(c, "handler")
                                     ELSE UNCHANGED faults
    /\ Go(c, "release")
    /\ UNCHANGED <<kafkaVars, cancelled, claims, done>>

\* Faulty: the claim is kept; or one attempt too many is granted.
ReleaseForgotten(c) ==
    /\ At(c, "release")
    /\ CallSucceeds(c)
    /\ Go(c, IF Kind[EventOf(c)] # "rejected" /\ Held(c).attempt < MaxAttempts
             THEN "requeue" ELSE "deadletter")
    /\ UNCHANGED <<kafkaVars, cancelled, claims, done>>
ReleaseOffByOne(c) ==
    /\ At(c, "release")
    /\ CallSucceeds(c)
    /\ claims' = claims \ {EventOf(c)}
    /\ Go(c, IF Kind[EventOf(c)] # "rejected" /\ Held(c).attempt <= MaxAttempts
             THEN "requeue" ELSE "deadletter")
    /\ UNCHANGED <<kafkaVars, cancelled, done>>

\* The error of idempotency.Release is dropped.
Release(c) ==
    /\ At(c, "release")
    /\ \/ /\ CallSucceeds(c) \/ CallBreaks(c, "db")
          /\ claims' = claims \ {EventOf(c)}
       \/ CallFails(c, "db") /\ UNCHANGED claims
    /\ Go(c, IF Kind[EventOf(c)] # "rejected" /\ Held(c).attempt < MaxAttempts
             THEN "requeue" ELSE "deadletter")
    /\ UNCHANGED <<kafkaVars, cancelled, done>>

\* A retry message is enqueued, and the message itself left uncommitted.
Enqueue(c) ==
    retry' = Append(retry, [event |-> EventOf(c), attempt |-> Held(c).attempt + 1])

Requeue(c) ==
    /\ At(c, "requeue")
    /\ Len(retry) < MaxRetries
    /\ CallSucceeds(c)
    /\ Enqueue(c)
    /\ Go(c, "fetch")
    /\ UNCHANGED <<log, committed, pos, owner, dlq, cancelled, claims, done>>

\* Faulty: the loop goes on after a message it could not put aside.
RequeueFailureIgnored(c) ==
    /\ At(c, "requeue")
    /\ CallFails(c, "kafka")
    /\ Go(c, "fetch")
    /\ UNCHANGED <<kafkaVars, cancelled, claims, done>>

RequeueFails(c) ==
    /\ At(c, "requeue")
    /\ Len(retry) < MaxRetries
    /\ \/ CallFails(c, "kafka") /\ UNCHANGED retry
       \/ CallBreaks(c, "kafka") /\ Enqueue(c)
    /\ Leave(c)
    /\ UNCHANGED <<log, committed, pos, dlq, claims, done>>

\* deadLetterMessage: the loop returns in either case, and commits in neither.
DeadLetter(c) ==
    /\ At(c, "deadletter")
    /\ \/ /\ CallSucceeds(c) \/ CallBreaks(c, "kafka")
          /\ dlq' = dlq \cup {Held(c)}
       \/ CallFails(c, "kafka") /\ UNCHANGED dlq
    /\ Leave(c)
    /\ UNCHANGED <<log, committed, pos, retry, claims, done>>

\* CommitMessages stores the offset it is given, also one that is lower, and
\* also for a partition that was assigned away meanwhile; it may have queued the
\* request before it looks at the context.
CommitMessage(c) ==
    committed' = [committed EXCEPT ![reader[c].part] = reader[c].offset]

\* Faulty: the claim is cleared away together with the commit.
CommitAndRelease(c) ==
    /\ At(c, "commit")
    /\ CallSucceeds(c)
    /\ CommitMessage(c)
    /\ claims' = claims \ {EventOf(c)}
    /\ Go(c, "fetch")
    /\ UNCHANGED <<log, pos, owner, retry, dlq, cancelled, done>>

Commit(c) ==
    /\ At(c, "commit")
    /\ CallSucceeds(c)
    /\ CommitMessage(c)
    /\ Go(c, "fetch")
    /\ UNCHANGED <<log, pos, owner, retry, dlq, cancelled, claims, done>>

CommitFails(c) ==
    /\ At(c, "commit")
    /\ CallFails(c, "kafka")
    /\ CommitMessage(c) \/ UNCHANGED committed
    /\ Leave(c)
    /\ UNCHANGED <<log, pos, retry, dlq, claims, done>>

\* OnStop cancels the context of the loop; the process dies.
Shutdown(c) ==
    /\ ~At(c, "down")
    /\ c \notin cancelled
    /\ Fault("shutdown")
    /\ cancelled' = cancelled \cup {c}
    /\ UNCHANGED <<kafkaVars, reader, claims, done>>

Crash(c) ==
    /\ ~At(c, "down")
    /\ Fault("crash")
    /\ Leave(c)
    /\ UNCHANGED <<log, committed, pos, retry, dlq, claims, done>>

-----------------------------------------------------------------------------

Init ==
    /\ log = [p \in Partitions |-> <<>>]
    /\ committed = [p \in Partitions |-> 0]
    /\ pos = [p \in Partitions |-> 0]
    /\ owner = [p \in Partitions |-> Nobody]
    /\ \E p \in Partitions : reader = [c \in Consumers |->
                               [pc |-> "down", part |-> p, offset |-> 0]]
    /\ cancelled = {}
    /\ claims = {}
    /\ retry = <<>>
    /\ dlq = {}
    /\ done = [e \in Events |-> 0]
    /\ faults = 0

\* The steps the loop of c takes on its own.
Loop(c) ==
    \/ Join(c)
    \/ Fetch(c)
    \/ FetchFails(c)
    \/ Claim(c)
    \/ ClaimFails(c)
    \/ HandlerSucceeds(c)
    \/ HandlerFails(c)
    \/ Release(c)
    \/ Requeue(c)
    \/ RequeueFails(c)
    \/ DeadLetter(c)
    \/ Commit(c)
    \/ CommitFails(c)

Next ==
    \/ \E e \in Events, p \in Partitions : Publish(e, p)
    \/ Rebalance
    \/ \E p \in Partitions : RetryDue(p)
    \/ \E c \in Consumers : Loop(c) \/ Shutdown(c) \/ Crash(c)

\* The supervisors of fx and of the saga subscriber start a loop again as long
\* as the process lives; Kafka assigns every partition; the retry runner runs.
Fairness ==
    /\ \A c \in Consumers : WF_vars(Loop(c))
    /\ WF_vars(Rebalance)
    /\ WF_vars(\E p \in Partitions : RetryDue(p))

Spec == Init /\ [][Next]_vars
FairSpec == Spec /\ Fairness
-----------------------------------------------------------------------------

HoldsMessage(c) == reader[c].pc \notin {"down", "fetch"}

\* What a reader is at, and that the message it holds is there.
ReaderOK(c) ==
    /\ reader[c] \in [pc: Steps, part: Partitions, offset: Nat]
    /\ HoldsMessage(c) => reader[c].offset \in DOMAIN log[reader[c].part]
    /\ At(c, "requeue") => Held(c).attempt < MaxAttempts

KafkaTypeOK ==
    /\ log \in [Partitions -> Seq(Message)]
    /\ committed \in [Partitions -> Nat]
    /\ pos \in [Partitions -> Nat]
    /\ owner \in [Partitions -> Consumers \cup {Nobody}]
    /\ retry \in Seq(Message)
    /\ dlq \subseteq Message

TypeOK ==
    /\ KafkaTypeOK
    /\ DOMAIN reader = Consumers
    /\ \A c \in Consumers : ReaderOK(c)
    /\ cancelled \subseteq Consumers
    /\ claims \subseteq Events
    /\ done \in [Events -> Nat]
    /\ faults \in Nat

\* However often an event is delivered, to whichever consumers, after whatever
\* rebalances, crashes and restarts: two handlers never work on it at a time,
\* nor on one that was handled before (broker.go 97-107, 116-120).
OneHandlerAtATime ==
    \A c \in Consumers : At(c, "handle") =>
        /\ done[EventOf(c)] = 0
        /\ \A d \in Consumers \ {c} :
              At(d, "handle") => EventOf(d) # EventOf(c)

\* Why: a handler that runs, or ran and failed, is alone on its event under the
\* event's claim, and only claimed events were handled.
Working(c) == reader[c].pc \in {"handle", "release"}
ClaimDiscipline ==
    /\ \A c \in Consumers : Working(c) =>
          EventOf(c) \in claims /\ done[EventOf(c)] = 0
    /\ \A c, d \in Consumers :
          Working(c) /\ Working(d) /\ EventOf(c) = EventOf(d) => c = d
    /\ \A e \in Events : e \notin claims => done[e] = 0

Claimed == INSTANCE EventClaims WITH claimed <- claims, applied <- done

\* The loops keep the discipline of EventClaims, and so a handler succeeds on
\* an event at most once.
RefinesEventClaims == Claimed!Spec

\* The event is where it will be found again, or done with.
Waiting(e) ==
    \/ \E i \in DOMAIN retry : retry[i].event = e
    \/ \E p \in Partitions : \E i \in DOMAIN log[p] :
          i > committed[p] /\ log[p][i].event = e
Settled(e) == done[e] > 0 \/ \E m \in dlq : m.event = e
WorkedOn(e) == \E c \in Consumers : HoldsMessage(c) /\ EventOf(c) = e

\* One consumer loses nothing whose envelope it can read, although it passes
\* messages over without a commit, commits over them, and Kafka and handlers
\* fail in between: such an event is always handled, dead-lettered, in the
\* retry topic or not yet committed (broker.go 104-105, 121-136).
NothingIsLost ==
    \A e \in Events :
        Published(e) /\ Kind[e] # "garbled" =>
            Waiting(e) \/ Settled(e) \/ WorkedOn(e)

\* An event that is neither settled nor worked on can still be claimed: no claim
\* outlives the work it was taken for (broker.go 117-120).
NoOrphanedClaim ==
    \A e \in Events :
        e \in claims /\ Kind[e] # "garbled" => Settled(e) \/ WorkedOn(e)

\* presentation.go:43 "the durable user recovery consumer", saga.go:22 "consumes
\* registration commands and publishes user-operation results": a command that
\* was published, and that the handler does not refuse, is handled sometime.
EventuallyHandled ==
    \A e \in Events :
        Kind[e] = "sound" => (Published(e) ~> done[e] > 0)
=============================================================================
