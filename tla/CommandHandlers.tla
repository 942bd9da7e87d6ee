--------------------------- MODULE CommandHandlers ---------------------------
(***************************************************************************)
(* The Kafka handlers that turn a command into a call of UserService and a *)
(* result: handleCreate and handleDelete of saga.go, which answer a failed *)
(* call too, and handle of recovery_subscriber.go, which fails with it.    *)
(* Of RunPullConsumer it has what the handlers can tell: a command is in   *)
(* its topic as copies, each with the attempt its header counts; a copy is *)
(* handled when the claim lets it through, read again while uncommitted,   *)
(* put aside under the next attempt after a failure, and dead-lettered     *)
(* after the last.  Copies of one command with one attempt are one here.   *)
(* The gRPC calls of UserService use the remaining slots.                  *)
(***************************************************************************)
EXTENDS UserService

CONSTANTS
    Commanded,      \* the commands of a behaviour
    Order,          \* Order[k]: what command k asks for
    NoCommand,      \* a slot without a command
    Handlers,       \* the slots the consumer loops use
    MaxAttempts,    \* resilience.DefaultRetryPolicy.MaxAttempts
    MaxRestarts     \* bound on how often copies are read again

VARIABLES
    task,           \* task[r]: the command whose handler uses slot r
    phase,          \* phase[k]: whether k is claimed, and what by
    attempts,       \* attempts[k]: attempt of the copy in the handler, or 0
    copies,         \* copies[k]: the attempts of the copies in the topic
    ahead,          \* ahead[k]: of those, the ones still to be read
    dead,           \* the commands with a dead letter
    restarts,       \* how often copies were read again
    results,        \* results published
    effects,        \* history: statements committed on behalf of k
    broken          \* history: commands a dependency failed in an attempt of

topicVars == <<copies, ahead, dead, restarts>>
handlerVars == <<task, phase, attempts, topicVars, results, effects, broken>>
allVars == <<vars, handlerVars>>

Topics == {"SagaCreateUserTopic", "SagaDeleteUserTopic", "RecoveryTopic"}

\* "lost": the claim of a handler that died, or that could not be released.
Phases == {"free", "running", "answered", "lost"}

ASSUME HandlerAssumption ==
    /\ Order \in [Commanded -> [topic: Topics, op: Commands,
                                id: UserIDs \cup {NoID}, name: Names]]
    /\ \A k \in Commanded :
          /\ Order[k].topic = "SagaCreateUserTopic" => Order[k].op = "CreateUser"
          /\ Order[k].topic = "SagaDeleteUserTopic" => Order[k].op = "DeleteUser"
    /\ NoCommand \notin Commanded
    /\ Handlers \subseteq Requests
    /\ MaxAttempts \in Nat \ {0}
    /\ MaxRestarts \in Nat

-----------------------------------------------------------------------------

IsRecovery(k) == Order[k].topic = "RecoveryTopic"

\* The recovery handler refuses a creation without an id for good.
RefusedForGood(k) ==
    IsRecovery(k) /\ Order[k].op = "CreateUser" /\ Order[k].id = NoID

-----------------------------------------------------------------------------
\* The topic.

\* Faulty: the claim of a command that was answered lets it through again.
ClaimableAgain(k) == phase[k] \in {"free", "answered"}

\* ClaimDB lets a handler have the command.
Claimable(k) == phase[k] = "free"

Read(k, n) == ahead' = [ahead EXCEPT ![k] = ahead[k] \ {n}]

\* The loop reads a copy and takes the claim, and the handler calls the service.
Deliver(k, n, r) ==
    /\ n \in ahead[k]
    /\ Claimable(k)
    /\ ~RefusedForGood(k)
    /\ task[r] = NoCommand
    /\ Read(k, n)
    /\ phase' = [phase EXCEPT ![k] = "running"]
    /\ attempts' = [attempts EXCEPT ![k] = n]
    /\ task' = [task EXCEPT ![r] = k]
    /\ StartCommand(r, Order[k].op, Order[k].id, Order[k].name)
    /\ UNCHANGED <<copies, dead, restarts, results, effects, broken>>

\* A claimed command is passed over, without a commit.
PassOver(k, n) ==
    /\ n \in ahead[k]
    /\ ~Claimable(k)
    /\ Read(k, n)
    /\ UNCHANGED <<vars, task, phase, attempts, copies, dead, restarts, results,
                   effects, broken>>

\* A copy that was not committed is read again, with its own attempt, when the
\* loop returned or the partition moved, or as another copy of that attempt.
ReadAgain(k, n) ==
    /\ n \in copies[k] \ ahead[k]
    /\ restarts < MaxRestarts
    /\ restarts' = restarts + 1
    /\ ahead' = [ahead EXCEPT ![k] = ahead[k] \cup {n}]
    /\ UNCHANGED <<vars, task, phase, attempts, copies, dead, results, effects,
                   broken>>

\* Release, whose error is dropped.
Release(k) ==
    \E next \in {"free"} \cup (IF Broken("db") THEN {"lost"} ELSE {}) :
        phase' = [phase EXCEPT ![k] = next]

\* Faulty: a copy with the attempt after the last is put aside; or none is.
PutAsideOffByOne(k, n) ==
    \/ /\ n <= MaxAttempts
       /\ copies' = [copies EXCEPT ![k] = copies[k] \cup {n + 1}]
       /\ ahead' = [ahead EXCEPT ![k] = ahead[k] \cup {n + 1}]
       /\ UNCHANGED <<dead, restarts>>
    \/ /\ n > MaxAttempts
       /\ dead' = dead \cup {k}
       /\ UNCHANGED <<copies, ahead, restarts>>
PutAsideNowhere(k, n) ==
    /\ dead' = IF n < MaxAttempts THEN dead ELSE dead \cup {k}
    /\ UNCHANGED <<copies, ahead, restarts>>

\* After a failure: a copy for the next attempt by way of the retry queue, or the
\* dead letter; or the loop returns before that is written, and reads this copy
\* again.
PutAside(k, n) ==
    \/ /\ n < MaxAttempts
       /\ copies' = [copies EXCEPT ![k] = copies[k] \cup {n + 1}]
       /\ ahead' = [ahead EXCEPT ![k] = ahead[k] \cup {n + 1}]
       /\ UNCHANGED <<dead, restarts>>
    \/ /\ n = MaxAttempts
       /\ dead' = dead \cup {k}
       /\ UNCHANGED <<copies, ahead, restarts>>
    \/ /\ Broken("broker") \/ Broken("death")
       /\ restarts < MaxRestarts
       /\ restarts' = restarts + 1
       /\ ahead' = [ahead EXCEPT ![k] = ahead[k] \cup {n}]
       /\ UNCHANGED <<copies, dead>>

\* The handler refuses the command for good: a dead letter.  When that is not
\* written, the copy is read again and nothing has changed.
DeliverRefused(k, n) ==
    /\ n \in ahead[k]
    /\ Claimable(k)
    /\ RefusedForGood(k)
    /\ Read(k, n)
    /\ Release(k)
    /\ dead' = dead \cup {k}
    /\ UNCHANGED <<vars, task, attempts, copies, restarts, results, effects, broken>>

\* ClaimDB reports an error for the claim it took, or the process dies with it:
\* the copy is read again and passed over.
ClaimBreaks(k) ==
    /\ ahead[k] # {}
    /\ Claimable(k)
    /\ Broken("db") \/ Broken("death")
    /\ phase' = [phase EXCEPT ![k] = "lost"]
    /\ UNCHANGED <<vars, task, attempts, topicVars, results, effects, broken>>

-----------------------------------------------------------------------------
\* The handlers.

\* A step of the call, and what history has to remember of it.
HandlerStep(r) ==
    /\ task[r] # NoCommand
    /\ CommandStep(r) \/ Die(r)
    /\ effects' = [effects EXCEPT ![task[r]] = @ + Len(outbox') - Len(outbox)]
    /\ broken' = IF call'[r].reply = "error" THEN broken \cup {task[r]}
                                              ELSE broken
    /\ UNCHANGED <<task, phase, attempts, topicVars, results>>

\* The call of the service returned.
Returned(r) == task[r] # NoCommand /\ At(r, "rest")

\* createUserFailureReason and deleteUserFailureReason.
Reason(k, reply) ==
    CASE reply = "invalid" -> "invalid user_id"
      [] reply \in {"user_id already taken", "username already taken",
                    "user not found"} -> reply
      [] OTHER -> IF Order[k].op = "CreateUser" THEN "failed to create user"
                                                ELSE "failed to delete user"

\* Faulty: deleting a user who is not there counts as done.
ResultOfIdempotent(k, reply) ==
    IF reply \in {"ok", "user not found"}
    THEN [command |-> k, status |-> "success", reason |-> ""]
    ELSE [command |-> k, status |-> "failed", reason |-> Reason(k, reply)]

ResultOf(k, reply) ==
    IF reply = "ok" THEN [command |-> k, status |-> "success", reason |-> ""]
    ELSE [command |-> k, status |-> "failed", reason |-> Reason(k, reply)]

\* The slot is free again.
Leave(r, k) ==
    /\ task' = [task EXCEPT ![r] = NoCommand]
    /\ attempts' = [attempts EXCEPT ![k] = 0]
    /\ UNCHANGED <<vars, effects>>

\* The handler returned nil, or died: the claim stays.
Finish(r, k, next) ==
    /\ phase' = [phase EXCEPT ![k] = next]
    /\ Leave(r, k)
    /\ UNCHANGED topicVars

\* The handler returned an error.
Fail(r, k) ==
    /\ Release(k)
    /\ PutAside(k, attempts[k])
    /\ Leave(r, k)

\* Faulty: the saga handlers fail with the call as the recovery handler does.
AnsweredIfOk(k, reply) == reply = "ok"

\* The saga handlers publish the outcome whatever it is, the recovery handler
\* that of a call that succeeded.
Answered(k, reply) == ~IsRecovery(k) \/ reply = "ok"

\* Faulty: the claim is released after a success as well.
PublishResultAndRelease(r) ==
    /\ Returned(r)
    /\ call[r].reply # "died"
    /\ \E k \in {task[r]} :
          /\ Answered(k, call[r].reply)
          /\ results' = results \cup {ResultOf(k, call[r].reply)}
          /\ Finish(r, k, "free")
    /\ UNCHANGED broken

\* The result is published and the message committed; when the commit fails, the
\* copy can be read again like any other.
PublishResult(r) ==
    /\ Returned(r)
    /\ call[r].reply # "died"
    /\ \E k \in {task[r]} :
          /\ Answered(k, call[r].reply)
          /\ results' = results \cup {ResultOf(k, call[r].reply)}
          /\ Finish(r, k, "answered")
    /\ UNCHANGED broken

PublishFails(r) ==
    /\ Returned(r)
    /\ call[r].reply # "died"
    /\ Broken("broker")
    /\ \E k \in {task[r]} :
          /\ Answered(k, call[r].reply)
          /\ \/ results' = results \cup {ResultOf(k, call[r].reply)}
             \/ UNCHANGED results
          /\ broken' = broken \cup {k}
          /\ Fail(r, k)

RecoveryFails(r) ==
    /\ Returned(r)
    /\ call[r].reply # "died"
    /\ \E k \in {task[r]} : ~Answered(k, call[r].reply) /\ Fail(r, k)
    /\ UNCHANGED <<results, broken>>

\* The process died in the call, or dies before it publishes: the claim stays.
HandlerDies(r) ==
    /\ Returned(r)
    /\ call[r].reply = "died" \/ Broken("death")
    /\ \E k \in {task[r]} : Finish(r, k, "lost")
    /\ UNCHANGED <<results, broken>>

Respond(r) == \/ PublishResult(r)
              \/ PublishFails(r)
              \/ RecoveryFails(r)
              \/ HandlerDies(r)

\* gRPC.
Serve(r) ==
    /\ r \notin Handlers
    /\ Calls(r) \/ CommandStep(r) \/ QueryStep(r) \/ Die(r)
    /\ UNCHANGED handlerVars

HandlersInit ==
    /\ Init
    /\ task = [r \in Requests |-> NoCommand]
    /\ phase = [k \in Commanded |-> "free"]
    /\ attempts = [k \in Commanded |-> 0]
    /\ copies = [k \in Commanded |-> {1}]
    /\ ahead = [k \in Commanded |-> {1}]
    /\ dead = {}
    /\ restarts = 0
    /\ results = {}
    /\ effects = [k \in Commanded |-> 0]
    /\ broken = {}

Topic(k, n) == \/ PassOver(k, n)
               \/ ReadAgain(k, n)
               \/ DeliverRefused(k, n)

HandlersNext ==
    \/ \E k \in Commanded, n \in 1..MaxAttempts :
          Topic(k, n) \/ \E r \in Handlers : Deliver(k, n, r)
    \/ \E k \in Commanded : ClaimBreaks(k)
    \/ \E r \in Handlers : HandlerStep(r) \/ Respond(r)
    \/ \E r \in Requests : Serve(r)

\* A dead letter is not committed, and after each of them the loop returns and
\* reads it again: what comes after it in the topic may have to wait for ever.
Detained(k) ==
    \E j \in dead : phase[j] = "free" /\ Order[j].topic = Order[k].topic

\* Every call of a dependency returns, with a timeout if with nothing else; the
\* loops go on, and come to every copy no dead letter keeps them from.
HandlersFairness ==
    /\ \A r \in Handlers : WF_allVars(HandlerStep(r) \/ Respond(r))
    /\ \A k \in Commanded, n \in 1..MaxAttempts :
          /\ WF_allVars(~Detained(k) /\ \E r \in Handlers : Deliver(k, n, r))
          /\ WF_allVars(~Detained(k) /\ DeliverRefused(k, n))

HandlersSpec == HandlersInit /\ [][HandlersNext]_allVars
FairHandlersSpec == HandlersSpec /\ HandlersFairness
-----------------------------------------------------------------------------

Reasons == {"", "invalid user_id", "user_id already taken",
            "username already taken", "user not found",
            "failed to create user", "failed to delete user"}
Result == [command: Commanded, status: {"success", "failed"}, reason: Reasons]

HandlersTypeOK ==
    /\ TypeOK
    /\ task \in [Requests -> Commanded \cup {NoCommand}]
    /\ phase \in [Commanded -> Phases]
    /\ attempts \in [Commanded -> 0..MaxAttempts]
    /\ copies \in [Commanded -> SUBSET (1..MaxAttempts)]
    /\ ahead \in [Commanded -> SUBSET (1..MaxAttempts)]
    /\ dead \subseteq Commanded
    /\ restarts \in 0..MaxRestarts
    /\ results \subseteq Result
    /\ effects \in [Commanded -> Nat]
    /\ broken \subseteq Commanded
    /\ \A k \in Commanded :
          /\ ahead[k] \subseteq copies[k]
          /\ phase[k] = "running" =>
                /\ attempts[k] \in copies[k]
                /\ Cardinality({r \in Requests : task[r] = k}) = 1
          /\ phase[k] # "running" =>
                attempts[k] = 0 /\ \A r \in Requests : task[r] # k

\* The event e of the outbox reports what an order asks for.
Reports(e, order) ==
    /\ e.aggregate_id = order.id
    /\ CASE order.op = "CreateUser" ->
               e.operation = "created" /\ e.payload.username = order.name
         [] order.op = "ActivateUser" ->
               e.operation = "updated" /\ e.payload.status = StatusActive
         [] order.op = "DeactivateUser" ->
               e.operation = "updated" /\ e.payload.status = StatusRegistrationFailed
         [] order.op = "DeleteUser" -> e.operation = "deactivated"

Reported(k) == \E i \in DOMAIN outbox : Reports(outbox[i], Order[k])

\* A command answered with success did change the table, it itself and not
\* another command on the same user, and the outbox reports the change it asked
\* for (saga.go 92-120, recovery_subscriber.go 87).
SuccessIsTrue ==
    \A result \in results : result.status = "success" =>
        effects[result.command] > 0 /\ Reported(result.command)

\* Only a command that met a failing dependency is ever answered with "failed"
\* although it changed the table, answered in two ways, or carried out twice:
\* what other commands and callers do at the same time never has that effect,
\* nor do the errors of the domain (saga.go 98-102, 116-119).
FailureIsTrue ==
    \A k \in Commanded \ broken :
        /\ effects[k] <= 1
        /\ \A x, y \in results : x.command = k /\ y.command = k => x = y
        /\ \A x \in results :
              x.command = k /\ x.status = "failed" => effects[k] = 0

\* A command of the saga is put aside for another attempt, or dead-lettered, only
\* after a dependency failed it: an outcome of the domain is answered at once,
\* however commands and calls interleave (saga.go 98-102, 116-119).
DomainErrorsAreAnswered ==
    \A k \in Commanded :
        ~IsRecovery(k) /\ (copies[k] # {1} \/ k \in dead) => k \in broken

\* The reason a failure is published with is true of the user, whoever won the
\* race for the id or the name and however often the command was handled: the id
\* was taken, another user had the name, the user was removed or never created
\* (repository.go 62-71, error_reason.go 15-38).
ReasonIsTrue(reason, order) ==
    CASE reason = "user_id already taken" -> Versions(order.id) # {}
      [] reason = "username already taken" ->
            \E id \in UserIDs \ {order.id} :
                \E row \in Versions(id) : row.username = order.name
      [] reason = "user not found" ->
            \/ Imported[order.id] = NoRow
            \/ \E i \in EventsAbout(order.id) : outbox[i].operation = "deactivated"
      [] reason = "invalid user_id" -> order.id = NoID
      [] OTHER -> TRUE
ReasonsAreTrue ==
    \A result \in results : ReasonIsTrue(result.reason, Order[result.command])

Claimed == INSTANCE EventClaims WITH
    Events <- Commanded,
    claimed <- {k \in Commanded : phase[k] \in {"running", "answered", "lost"}},
    applied <- [k \in Commanded |-> IF phase[k] = "answered" THEN 1 ELSE 0]

\* The handlers rely on no delivery but one EventClaims allows, which is what the
\* consumer loops are shown to keep: the two models fit together (broker.go 39).
KeepsEventClaims == Claimed!Spec

\* Every command is answered, or its claim is lost with a handler or an error of
\* PostgreSQL, unless a dead letter keeps its topic: none is left behind because
\* its handler failed, a dependency was late or another command came between, and
\* a dead letter that is read again and answered keeps the topic no more
\* (broker.go 89-136).
OnlyDeadLettersDetain ==
    \A k \in Commanded :
        phase[k] = "free" ~> phase[k] \in {"answered", "lost"} \/ Detained(k)
=============================================================================
