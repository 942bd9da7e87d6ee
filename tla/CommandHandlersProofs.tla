------------------------ MODULE CommandHandlersProofs -------------------------
(***************************************************************************)
(* The theorems about CommandHandlers, for every set of commands, handlers *)
(* and faults, and every number of attempts: what is published of a command*)
(* is true, except after a dependency failed in it.                        *)
(* The first part is about one step of a call; the second about the topic  *)
(* and the slots handlers use; the third about what the outbox reports of a*)
(* command and the reasons of its failures; the theorems come last.        *)
(***************************************************************************)
EXTENDS CommandHandlers, UserServiceProofs, FiniteSetTheorems

USE DEF storeVars, cacheVars

DomainReplies == {"user_id already taken", "username already taken",
                  "user not found"}

\* Every slot in use belongs to one running command, and every running command
\* has one.
Slots ==
    /\ \A r \in Requests : task[r] # NoCommand =>
          /\ r \in Handlers
          /\ phase[task[r]] = "running"
          /\ call[r].pc \in {"rest", "store", "project", "purge"}
    /\ \A r, q \in Requests : task[r] # NoCommand /\ task[r] = task[q] => r = q
    /\ \A k \in Commanded :
          phase[k] = "running" => \E r \in Requests : task[r] = k

\* What a call has done for its command.
Did(c, effect) ==
    c.pc \in {"project", "purge"} \/ (c.pc = "rest" /\ c.reply = "ok") => effect > 0

\* What a call that met no failing dependency has not done.
DidNot(c, effect) ==
    c.pc = "store" \/ (c.pc = "rest" /\ c.reply \notin {"ok", "died"}) => effect = 0

Progress ==
    \A r \in Requests : task[r] # NoCommand =>
        /\ Did(call[r], effects[task[r]])
        /\ task[r] \notin broken => DidNot(call[r], effects[task[r]])

\* A command no dependency failed is carried out at most once, is free for another
\* handler only while it did nothing, and is answered once, at its end.
Truth(k) ==
    k \notin broken =>
        /\ effects[k] <= 1
        /\ phase[k] = "free" => effects[k] = 0
        /\ phase[k] # "answered" => \A x \in results : x.command # k
        /\ \A x, y \in results : x.command = k /\ y.command = k => x = y
        /\ \A x \in results : x.command = k /\ x.status = "failed" => effects[k] = 0
        /\ ~IsRecovery(k) => copies[k] = {1} /\ k \notin dead

\* The copies of the topic, and the one a handler works on.
TopicTypes ==
    /\ copies \in [Commanded -> SUBSET (1..MaxAttempts)]
    /\ ahead \in [Commanded -> SUBSET (1..MaxAttempts)]
    /\ dead \subseteq Commanded
    /\ restarts \in 0..MaxRestarts
    /\ \A k \in Commanded : ahead[k] \subseteq copies[k]

HTypes ==
    /\ TypeOK
    /\ TopicTypes
    /\ task \in [Requests -> Commanded \cup {NoCommand}]
    /\ phase \in [Commanded -> Phases]
    /\ attempts \in [Commanded -> 0..MaxAttempts]
    /\ \A k \in Commanded :
          IF phase[k] = "running" THEN attempts[k] \in copies[k] ELSE attempts[k] = 0
    /\ results \subseteq Result
    /\ effects \in [Commanded -> Nat]
    /\ broken \subseteq Commanded

\* A command answered with success changed the table.
SuccessesWrote ==
    \A result \in results :
        result.status = "success" => effects[result.command] > 0

HInv ==
    /\ HTypes
    /\ Slots
    /\ Progress
    /\ SuccessesWrote
    /\ \A k \in Commanded : Truth(k)

-----------------------------------------------------------------------------
\* One step of a call.

LEMMA StartTyped ==
    ASSUME TypeOK, NEW r \in Requests, NEW op \in Commands,
           NEW id \in UserIDs \cup {NoID}, NEW name \in Names,
           StartCommand(r, op, id, name)
    PROVE  /\ TypeOK'
           /\ \A q \in Requests \ {r} : call'[q] = call[q]
           /\ \/ call'[r].pc = "store"
              \/ call'[r].pc = "rest" /\ call'[r].reply = "invalid"
<1> DEFINE c(pc, reply) == [op |-> op, pc |-> pc, id |-> id, name |-> name,
                            user |-> NoUser, reply |-> reply]
<1>1. PICK pc, reply :
        /\ call' = [call EXCEPT ![r] = c(pc, reply)]
        /\ \/ pc = "store" /\ reply = "none" /\ id # NoID
           \/ pc = "rest" /\ reply = "invalid"
        /\ UNCHANGED <<storeVars, cacheVars, requested>>
  BY DEF StartCommand, Refuse, Begin
<1>2. c(pc, reply) \in Call /\ WellFormed(c(pc, reply))
  BY <1>1 DEF Call, WellFormed, Operations, Steps, Replies
<1>3. CallsOK'
  BY <1>1, <1>2, ReplaceCall DEF TypeOK
<1>4. TypeOK'
  BY <1>1, <1>3 DEF TypeOK, StoreTypeOK, CacheTypeOK
<1>5. /\ call'[r] = c(pc, reply)
      /\ \A q \in Requests \ {r} : call'[q] = call[q]
  BY <1>1 DEF TypeOK, CallsOK
<1>6. call'[r].pc = pc /\ call'[r].reply = reply
  BY <1>5
<1> QED
  BY <1>1, <1>4, <1>5, <1>6

\* Where a step takes the call of r, with how many statements.
Goes(r, pc, reply, statements) ==
    /\ call'[r].pc = pc
    /\ call'[r].reply = reply
    /\ Len(outbox') = Len(outbox) + statements

LEMMA ProceedGoes ==
    ASSUME TypeOK, NEW r \in Requests, NEW pc, NEW reply, NEW user,
           Proceed(r, pc, reply, user)
    PROVE  call'[r].pc = pc /\ call'[r].reply = reply
<1> DEFINE c == [op |-> call[r].op, pc |-> pc, id |-> call[r].id,
                 name |-> call[r].name, user |-> user, reply |-> reply]
<1>1. call'[r] = c
  BY DEF Proceed, TypeOK, CallsOK
<1> QED
  BY <1>1

LEMMA StatementCounts ==
    ASSUME TypeOK, StoreNext
    PROVE  Len(outbox') = Len(outbox) + 1
<1>1. PICK e \in OutboxEvent : outbox' = Append(outbox, e)
  BY StatementShape DEF TypeOK, StatementOn
<1>2. outbox \in Seq(OutboxEvent)
  BY DEF TypeOK, StoreTypeOK
<1> QED
  BY <1>1, <1>2

LEMMA StepOutcome ==
    ASSUME TypeOK, NEW r \in Requests, CommandStep(r) \/ Die(r)
    PROVE  \/ /\ call[r].pc = "store"
              /\ \E pc \in {"project", "purge"} : Goes(r, pc, "none", 1)
           \/ /\ call[r].pc = "store"
              /\ \E reply \in DomainReplies : Goes(r, "rest", reply, 0)
           \/ /\ call[r].pc = "store"
              /\ \E n \in {0, 1} : Goes(r, "rest", "error", n)
           \/ /\ call[r].pc \in {"project", "purge"}
              /\ \E reply \in {"ok", "error"} : Goes(r, "rest", reply, 0)
           \/ Goes(r, "rest", "died", 0)
<1>0. Len(outbox) \in Nat
  BY DEF TypeOK, StoreTypeOK
<1>1. call[r] \in Call /\ WellFormed(call[r])
  BY DEF TypeOK, CallsOK
<1>2. At(r, "store") => call[r].id \in UserIDs /\ call[r].name \in Names
  BY <1>1 DEF WellFormed, At, Call
<1>3. ASSUME UNCHANGED storeVars
      PROVE  Len(outbox') = Len(outbox) + 0
  BY <1>0, <1>3
<1>4. CASE InsertRow(r)
  <2>1. CASE \E user : /\ CreateUserQuery(call[r].id, call[r].name)
                       /\ Continue(r, "project", user)
    <3>1. StoreNext
      BY <1>2, <1>4, <2>1 DEF InsertRow, StoreNext
    <3> QED
      BY <1>4, <2>1, <3>1, StatementCounts, ProceedGoes
      DEF InsertRow, At, Continue, Goes
  <2>2. CASE \E reply \in DomainReplies : /\ Answer(r, reply, NoUser)
                                          /\ UNCHANGED storeVars
    BY <1>3, <1>4, <2>2, ProceedGoes DEF InsertRow, At, Answer, Goes
  <2> QED
    BY <1>4, <2>1, <2>2 DEF InsertRow, DomainReplies
<1>5. CASE ActivateRow(r) \/ DeactivateRow(r) \/ DeleteRow(r)
  <2>1. StoreNext
    BY <1>2, <1>5 DEF ActivateRow, DeactivateRow, DeleteRow, StoreNext
  <2>2. PICK pc, user : pc \in {"project", "purge"} /\ Continue(r, pc, user)
    BY <1>5 DEF ActivateRow, DeactivateRow, DeleteRow
  <2>3. call[r].pc = "store"
    BY <1>5 DEF ActivateRow, DeactivateRow, DeleteRow, At
  <2> QED
    BY <2>1, <2>2, <2>3, StatementCounts, ProceedGoes DEF Continue, Goes
<1>6. CASE NoRowMatches(r)
  BY <1>3, <1>6, ProceedGoes DEF NoRowMatches, At, Answer, Goes, DomainReplies
<1>7. CASE StoreFails(r)
  <2>1. StoreNext \/ UNCHANGED storeVars
    BY <1>2, <1>7 DEF StoreFails, Effect, StoreNext
  <2>2. call'[r].pc = "rest" /\ call'[r].reply = "error"
    BY <1>7, ProceedGoes DEF StoreFails, Answer
  <2>3. \E n \in {0, 1} : Len(outbox') = Len(outbox) + n
    BY <1>3, <2>1, StatementCounts
  <2> QED
    BY <1>7, <2>2, <2>3 DEF StoreFails, At, Goes
<1>8. CASE Project(r) \/ Purge(r)
  <2>1. PICK reply, user : reply \in {"ok", "error"} /\ Answer(r, reply, user)
    BY <1>8 DEF Project, Purge
  <2>2. call[r].pc \in {"project", "purge"} /\ UNCHANGED storeVars
    BY <1>8 DEF Project, Purge, At
  <2> QED
    BY <1>3, <2>1, <2>2, ProceedGoes DEF Answer, Goes
<1>9. CASE Die(r)
  BY <1>3, <1>9, ProceedGoes DEF Die, Answer, Goes
<1> QED
  BY <1>4, <1>5, <1>6, <1>7, <1>8, <1>9 DEF CommandStep

-----------------------------------------------------------------------------
\* The steps of the handlers.

LEMMA OrderTyped ==
    ASSUME NEW k \in Commanded
    PROVE  /\ Order[k].op \in Commands
           /\ Order[k].id \in UserIDs \cup {NoID}
           /\ Order[k].name \in Names
BY HandlerAssumption

LEMMA DeliverKeeps ==
    ASSUME HInv, NEW r \in Handlers, NEW k \in Commanded, NEW n \in 1..MaxAttempts,
           Deliver(k, n, r)
    PROVE  HInv'
<1> USE DEF HInv
<1>0. r \in Requests /\ NoCommand \notin Commanded
  BY HandlerAssumption
<1>1. /\ phase[k] = "free"
      /\ n \in ahead[k] /\ n \in copies[k]
      /\ task[r] = NoCommand
      /\ phase' = [phase EXCEPT ![k] = "running"]
      /\ attempts' = [attempts EXCEPT ![k] = n]
      /\ task' = [task EXCEPT ![r] = k]
      /\ ahead' = [ahead EXCEPT ![k] = ahead[k] \ {n}]
      /\ StartCommand(r, Order[k].op, Order[k].id, Order[k].name)
      /\ UNCHANGED <<copies, dead, restarts, results, effects, broken>>
  BY DEF Deliver, Claimable, Read, HTypes, TopicTypes
<1>2. \A q \in Requests : task[q] # NoCommand => task[q] # k
  BY <1>1 DEF Slots
<1>3. /\ TypeOK'
      /\ \A q \in Requests \ {r} : call'[q] = call[q]
      /\ \/ call'[r].pc = "store"
         \/ call'[r].pc = "rest" /\ call'[r].reply = "invalid"
  BY <1>0, <1>1, OrderTyped, StartTyped DEF HTypes
<1>4. TopicTypes'
  BY <1>1 DEF HTypes, TopicTypes
<1>5. HTypes'
  <2>1. \A j \in Commanded : IF phase'[j] = "running" THEN attempts'[j] \in copies'[j]
                                                      ELSE attempts'[j] = 0
    BY <1>1 DEF HTypes
  <2>2. n \in 0..MaxAttempts
    BY HandlerAssumption
  <2> QED
    BY <1>0, <1>1, <1>3, <1>4, <2>1, <2>2 DEF HTypes, Phases
<1>6. Slots'
  BY <1>0, <1>1, <1>2, <1>3 DEF Slots, HTypes
<1>7. Progress'
  <2>1. ASSUME NEW q \in Requests \ {r}, task'[q] # NoCommand
        PROVE  /\ Did(call[q], effects[task[q]])'
               /\ task[q] \notin broken => DidNot(call[q], effects[task[q]])'
               /\ task'[q] = task[q]
    BY <1>0, <1>1, <1>3, <2>1 DEF Progress, HTypes, Did, DidNot
  <2>2. Did(call[r], effects[k])' /\ task'[r] = k
    BY <1>0, <1>1, <1>3 DEF Did, HTypes
  <2>3. k \notin broken => DidNot(call[r], effects[k])'
    BY <1>1, <1>3 DEF DidNot, Truth
  <2> QED
    BY <1>1, <2>1, <2>2, <2>3 DEF Progress
<1>8. SuccessesWrote'
  BY <1>1 DEF SuccessesWrote
<1>9. ASSUME NEW j \in Commanded
      PROVE  Truth(j)'
  BY <1>0, <1>1 DEF Truth, HTypes
<1> QED
  BY <1>5, <1>6, <1>7, <1>8, <1>9

\* The steps of the topic alone: no handler runs, and a command that is free stays so,
\* or its claim is lost.
LEMMA TopicStepKeeps ==
    ASSUME HInv, TopicTypes', UNCHANGED <<vars, task, attempts, results, effects, broken>>,
           phase' \in [Commanded -> Phases],
           \A j \in Commanded :
              /\ phase'[j] = phase[j] \/ (phase[j] = "free" /\ phase'[j] = "lost")
              /\ ~IsRecovery(j) => copies'[j] = copies[j] /\ (j \in dead' <=> j \in dead)
              /\ copies[j] \subseteq copies'[j]
    PROVE  HInv'
<1> USE DEF HInv
<1>1. TypeOK'
  BY StutterTyped DEF HTypes
<1>2. HTypes'
  <2>1. \A j \in Commanded : IF phase'[j] = "running" THEN attempts'[j] \in copies'[j]
                                                      ELSE attempts'[j] = 0
    BY DEF HTypes
  <2> QED
    BY <1>1, <2>1 DEF HTypes
<1>3. Slots'
  <2>1. \A j \in Commanded : phase'[j] = "running" <=> phase[j] = "running"
    BY DEF HTypes
  <2> QED
    BY <2>1, HandlerAssumption DEF Slots, HTypes, vars
<1>4. Progress' /\ SuccessesWrote'
  BY DEF Progress, SuccessesWrote, HTypes, vars
<1>5. ASSUME NEW j \in Commanded
      PROVE  Truth(j)'
  BY DEF Truth, HTypes, IsRecovery
<1> QED
  BY <1>2, <1>3, <1>4, <1>5

LEMMA TopicKeeps ==
    ASSUME HInv, NEW k \in Commanded, NEW n \in 1..MaxAttempts,
           Topic(k, n) \/ ClaimBreaks(k)
    PROVE  HInv'
<1>0. /\ TopicTypes /\ phase \in [Commanded -> Phases]
      /\ MaxRestarts \in Nat
  BY HandlerAssumption DEF HInv, HTypes
<1>1. CASE PassOver(k, n)
  <2>1. /\ ahead' = [ahead EXCEPT ![k] = ahead[k] \ {n}]
        /\ UNCHANGED <<vars, task, phase, attempts, copies, dead, restarts, results,
                       effects, broken>>
    BY <1>1 DEF PassOver, Read
  <2>2. TopicTypes'
    BY <1>0, <2>1 DEF TopicTypes
  <2> QED
    BY <1>0, <2>1, <2>2, TopicStepKeeps
<1>2. CASE ReadAgain(k, n)
  <2>1. /\ n \in copies[k]
        /\ restarts < MaxRestarts /\ restarts' = restarts + 1
        /\ ahead' = [ahead EXCEPT ![k] = ahead[k] \cup {n}]
        /\ UNCHANGED <<vars, task, phase, attempts, copies, dead, results, effects, broken>>
    BY <1>2 DEF ReadAgain
  <2>2. TopicTypes'
    BY <1>0, <2>1 DEF TopicTypes
  <2> QED
    BY <1>0, <2>1, <2>2, TopicStepKeeps
<1>3. CASE DeliverRefused(k, n)
  <2>1. /\ ahead' = [ahead EXCEPT ![k] = ahead[k] \ {n}]
        /\ phase[k] = "free" /\ IsRecovery(k)
        /\ \E next \in {"free", "lost"} : phase' = [phase EXCEPT ![k] = next]
        /\ dead' = dead \cup {k}
        /\ UNCHANGED <<vars, task, attempts, copies, restarts, results, effects, broken>>
    BY <1>3 DEF DeliverRefused, Read, Claimable, RefusedForGood, Release
  <2>2. TopicTypes'
    BY <1>0, <2>1 DEF TopicTypes
  <2>3. /\ phase' \in [Commanded -> Phases]
        /\ \A j \in Commanded :
              phase'[j] = phase[j] \/ (phase[j] = "free" /\ phase'[j] = "lost")
    BY <1>0, <2>1 DEF Phases
  <2> QED
    BY <1>0, <2>1, <2>2, <2>3, TopicStepKeeps
<1>4. CASE ClaimBreaks(k)
  <2>1. /\ phase[k] = "free"
        /\ phase' = [phase EXCEPT ![k] = "lost"]
        /\ UNCHANGED <<vars, task, attempts, topicVars, results, effects, broken>>
    BY <1>4 DEF ClaimBreaks, Claimable
  <2>2. TopicTypes' /\ UNCHANGED <<copies, dead>>
    BY <1>0, <2>1 DEF TopicTypes, topicVars
  <2>3. /\ phase' \in [Commanded -> Phases]
        /\ \A j \in Commanded :
              phase'[j] = phase[j] \/ (phase[j] = "free" /\ phase'[j] = "lost")
    BY <1>0, <2>1 DEF Phases
  <2> QED
    BY <1>0, <2>1, <2>2, <2>3, TopicStepKeeps
<1> QED
  BY <1>1, <1>2, <1>3, <1>4 DEF Topic

\* It touches no call, and answers nothing.
LEMMA TopicTouchesNothing ==
    ASSUME NEW k, NEW n, Topic(k, n) \/ ClaimBreaks(k)
    PROVE  UNCHANGED <<vars, task, results>>
BY DEF Topic, PassOver, ReadAgain, DeliverRefused, ClaimBreaks

\* Nor does a handler that is done.
LEMMA RespondTouchesNoCall ==
    ASSUME NEW r, Respond(r)
    PROVE  UNCHANGED vars
BY DEF Respond, PublishResult, PublishFails, RecoveryFails, HandlerDies, Finish, Fail,
       Leave

LEMMA HandlerStepKeeps ==
    ASSUME HInv, NEW r \in Handlers, HandlerStep(r)
    PROVE  HInv'
<1> USE DEF HInv
<1>0. PICK k \in Commanded : r \in Requests /\ k = task[r] /\ k # NoCommand
  BY HandlerAssumption DEF HTypes, HandlerStep
<1>1. /\ CommandStep(r) \/ Die(r)
      /\ effects' = [effects EXCEPT ![k] = effects[k] + Len(outbox') - Len(outbox)]
      /\ broken' = IF call'[r].reply = "error" THEN broken \cup {k} ELSE broken
      /\ UNCHANGED <<task, phase, attempts, topicVars, results>>
  BY <1>0 DEF HandlerStep
<1>2. TypeOK' /\ \A q \in Requests \ {r} : call'[q] = call[q]
  BY <1>0, <1>1, CommandStepTyped, DieTyped, OthersStay DEF HTypes
<1>3. PICK pc \in {"rest", "project", "purge"}, reply \in Replies, n \in {0, 1} :
        /\ Goes(r, pc, reply, n)
        /\ \/ pc = "rest" /\ reply = "died" /\ n = 0
           \/ /\ call[r].pc = "store"
              /\ \/ pc \in {"project", "purge"} /\ n = 1
                 \/ pc = "rest" /\ reply \in DomainReplies /\ n = 0
                 \/ pc = "rest" /\ reply = "error"
           \/ /\ call[r].pc \in {"project", "purge"}
              /\ pc = "rest" /\ reply \in {"ok", "error"} /\ n = 0
  <2>1. TypeOK /\ r \in Requests
    BY <1>0 DEF HTypes
  <2>2. CASE \E pc \in {"project", "purge"} : Goes(r, pc, "none", 1) /\ call[r].pc = "store"
    BY <2>2 DEF Replies
  <2>3. CASE \E reply \in DomainReplies : Goes(r, "rest", reply, 0) /\ call[r].pc = "store"
    BY <2>3 DEF Replies, DomainReplies
  <2>4. CASE \E n \in {0, 1} : Goes(r, "rest", "error", n) /\ call[r].pc = "store"
    BY <2>4 DEF Replies
  <2>5. CASE /\ \E reply \in {"ok", "error"} : Goes(r, "rest", reply, 0)
             /\ call[r].pc \in {"project", "purge"}
    BY <2>5 DEF Replies
  <2>6. CASE Goes(r, "rest", "died", 0)
    BY <2>6 DEF Replies
  <2> QED
    BY <1>1, <2>1, <2>2, <2>3, <2>4, <2>5, <2>6, StepOutcome
<1>4. /\ effects[k] \in Nat
      /\ effects'[k] = effects[k] + n
      /\ \A j \in Commanded \ {k} : effects'[j] = effects[j]
      /\ effects' \in [Commanded -> Nat]
  <2>1. Len(outbox) \in Nat
    BY DEF HTypes, TypeOK, StoreTypeOK
  <2> QED
    BY <1>0, <1>1, <1>3, <2>1 DEF HTypes, Goes
<1>5. HTypes'
  BY <1>0, <1>1, <1>2, <1>4 DEF HTypes, TopicTypes, topicVars
<1>6. Slots'
  BY <1>0, <1>1, <1>2, <1>3 DEF Slots, Goes
<1>7. Progress'
  <2>1. ASSUME NEW q \in Requests \ {r}, task[q] # NoCommand
        PROVE  /\ Did(call[q], effects[task[q]])'
               /\ task[q] \notin broken => DidNot(call[q], effects[task[q]])'
    <3>1. task[q] # k /\ task[q] \in Commanded
      BY <1>0, <2>1 DEF Slots, HTypes
    <3> QED
      BY <1>1, <1>2, <1>4, <2>1, <3>1 DEF Progress, Did, DidNot
  <2>2. /\ Did(call[r], effects[k])
        /\ k \notin broken => DidNot(call[r], effects[k])
    BY <1>0 DEF Progress
  <2>3. call'[r].pc = pc /\ call'[r].reply = reply
    BY <1>3 DEF Goes
  <2>4. n \in Nat /\ effects'[k] >= effects[k] /\ (n = 1 => effects'[k] > 0)
    BY <1>3, <1>4
  <2>5. Did(call'[r], effects'[k])
    <3>1. CASE call[r].pc \in {"project", "purge"}
      BY <1>4, <2>2, <2>3, <2>4, <3>1 DEF Did
    <3>2. CASE call[r].pc \notin {"project", "purge"}
      BY <1>3, <2>3, <2>4, <3>2 DEF Did, DomainReplies
    <3> QED
      BY <3>1, <3>2
  <2>6. k \notin broken' => DidNot(call'[r], effects'[k])
    <3>1. pc # "store" /\ (k \notin broken' => k \notin broken /\ reply # "error")
      BY <1>1, <2>3
    <3>2. CASE reply \in {"ok", "died"}
      BY <2>3, <3>1, <3>2 DEF DidNot
    <3>3. CASE call[r].pc = "store" /\ pc # "rest"
      BY <2>3, <3>1, <3>3 DEF DidNot
    <3>4. CASE call[r].pc = "store" /\ n = 0
      BY <1>4, <2>2, <3>1, <3>4 DEF DidNot
    <3> QED
      BY <1>3, <3>1, <3>2, <3>3, <3>4
  <2> QED
    BY <1>0, <1>1, <2>1, <2>5, <2>6 DEF Progress
<1>8. SuccessesWrote'
  <2>1. \A j \in Commanded : effects[j] > 0 => effects'[j] > 0
    BY <1>4
  <2> QED
    BY <1>1, <2>1 DEF SuccessesWrote, HTypes, Result
<1>9. Truth(k)'
  <2>1. phase[k] = "running"
    BY <1>0 DEF Slots
  <2>2. ASSUME k \notin broken'
        PROVE  k \notin broken /\ effects'[k] <= 1
    BY <1>0, <1>1, <1>3, <1>4, <2>2 DEF Progress, DidNot, Goes, Truth
  <2> QED
    BY <1>0, <1>1, <2>1, <2>2 DEF Truth, topicVars
<1>10. ASSUME NEW j \in Commanded \ {k}
       PROVE  Truth(j)'
  BY <1>1, <1>4 DEF Truth, topicVars
<1> QED
  BY <1>5, <1>6, <1>7, <1>8, <1>9, <1>10

\* The handler of k lets go of its slot; what it may have published is in results',
\* it may be remembered as broken, and a copy of it may have been put aside.
LEMMA LeaveKeeps ==
    ASSUME HInv, NEW r \in Handlers, NEW k \in Commanded, k = task[r],
           NEW next \in Phases \ {"running"},
           phase' = [phase EXCEPT ![k] = next], Leave(r, k),
           broken' \in {broken, broken \cup {k}},
           \A j \in Commanded : copies[j] \subseteq copies'[j]
    PROVE  /\ TypeOK' /\ Slots' /\ Progress'
           /\ task' \in [Requests -> Commanded \cup {NoCommand}]
           /\ phase' \in [Commanded -> Phases]
           /\ attempts' \in [Commanded -> 0..MaxAttempts]
           /\ \A j \in Commanded :
                 IF phase'[j] = "running" THEN attempts'[j] \in copies'[j]
                                          ELSE attempts'[j] = 0
           /\ broken' \subseteq Commanded
<1> USE DEF HInv
<1>0. r \in Requests /\ NoCommand \notin Commanded
  BY HandlerAssumption
<1>1. /\ task' = [task EXCEPT ![r] = NoCommand]
      /\ attempts' = [attempts EXCEPT ![k] = 0]
      /\ UNCHANGED <<vars, effects>>
  BY DEF Leave
<1>2. TypeOK'
  BY <1>1, StutterTyped DEF HTypes
<1>3. /\ task' \in [Requests -> Commanded \cup {NoCommand}]
      /\ phase' \in [Commanded -> Phases]
      /\ attempts' \in [Commanded -> 0..MaxAttempts]
      /\ \A j \in Commanded :
            IF phase'[j] = "running" THEN attempts'[j] \in copies'[j]
                                     ELSE attempts'[j] = 0
      /\ broken' \subseteq Commanded
  BY <1>0, <1>1, HandlerAssumption DEF HTypes
<1>4. /\ task'[r] = NoCommand
      /\ \A q \in Requests \ {r} :
            task'[q] = task[q] /\ (task[q] # NoCommand => task[q] # k)
  BY <1>0, <1>1 DEF Slots, HTypes
<1>5. Slots'
  BY <1>0, <1>1, <1>4 DEF Slots, HTypes, vars
<1>6. Progress'
  BY <1>0, <1>1, <1>4 DEF Progress, HTypes, vars
<1> QED
  BY <1>2, <1>3, <1>5, <1>6

\* What is put aside is a copy for the next attempt, a dead letter, or this copy.
LEMMA PutAsideTyped ==
    ASSUME TopicTypes, NEW k \in Commanded, NEW n \in copies[k], PutAside(k, n)
    PROVE  /\ TopicTypes'
           /\ \A j \in Commanded : copies[j] \subseteq copies'[j]
           /\ \A j \in Commanded \ {k} :
                 copies'[j] = copies[j] /\ (j \in dead' <=> j \in dead)
<1>0. n \in 1..MaxAttempts /\ MaxAttempts \in Nat /\ MaxRestarts \in Nat
  BY HandlerAssumption DEF TopicTypes
<1>1. CASE /\ n < MaxAttempts
           /\ copies' = [copies EXCEPT ![k] = copies[k] \cup {n + 1}]
           /\ ahead' = [ahead EXCEPT ![k] = ahead[k] \cup {n + 1}]
           /\ UNCHANGED <<dead, restarts>>
  <2>1. n + 1 \in 1..MaxAttempts
    BY <1>0, <1>1
  <2> QED
    BY <1>1, <2>1 DEF TopicTypes
<1>2. CASE dead' = dead \cup {k} /\ UNCHANGED <<copies, ahead, restarts>>
  BY <1>2 DEF TopicTypes
<1>3. CASE /\ restarts < MaxRestarts
           /\ restarts' = restarts + 1
           /\ ahead' = [ahead EXCEPT ![k] = ahead[k] \cup {n}]
           /\ UNCHANGED <<copies, dead>>
  BY <1>0, <1>3 DEF TopicTypes
<1> QED
  BY <1>1, <1>2, <1>3 DEF PutAside

LEMMA ResultTyped ==
    ASSUME NEW k \in Commanded, NEW reply \in Replies
    PROVE  /\ ResultOf(k, reply) \in Result
           /\ ResultOf(k, reply).command = k
           /\ ResultOf(k, reply).status = IF reply = "ok" THEN "success" ELSE "failed"
<1>1. Reason(k, reply) \in Reasons
  BY DEF Replies, Reason, Reasons
<1> QED
  BY <1>1 DEF ResultOf, Result, Reasons

LEMMA RespondKeeps ==
    ASSUME HInv, NEW r \in Handlers, Respond(r)
    PROVE  HInv'
<1> USE DEF HInv
<1>0. /\ task[r] # NoCommand
      /\ call[r].pc = "rest"
  BY DEF Respond, PublishResult, PublishFails, RecoveryFails, HandlerDies, Returned, At
<1>1. PICK k \in Commanded : k = task[r] /\ r \in Requests
  BY <1>0, HandlerAssumption DEF HTypes
<1>2. /\ phase[k] = "running"
      /\ call[r].reply \in Replies
      /\ attempts[k] \in copies[k]
      /\ call[r].reply = "ok" => effects[k] > 0
      /\ k \notin broken /\ call[r].reply \notin {"ok", "died"} => effects[k] = 0
  BY <1>0, <1>1, HandlerAssumption
  DEF Slots, Progress, Did, DidNot, HTypes, TypeOK, CallsOK, Call
<1> DEFINE answer == ResultOf(k, call[r].reply)
<1>3. /\ answer \in Result
      /\ answer.command = k
      /\ answer.status = IF call[r].reply = "ok" THEN "success" ELSE "failed"
  BY <1>2, ResultTyped
<1>4. PICK next \in Phases \ {"running"} :
        /\ phase' = [phase EXCEPT ![k] = next]
        /\ Leave(r, k)
        /\ \/ UNCHANGED topicVars
           \/ PutAside(k, attempts[k]) /\ (IsRecovery(k) \/ broken' = broken \cup {k})
        /\ \/ /\ next = "answered"
              /\ call[r].reply # "died"
              /\ results' = results \cup {answer}
              /\ broken' = broken
           \/ /\ results' \in {results, results \cup {answer}}
              /\ broken' = broken \cup {k}
           \/ /\ IsRecovery(k) /\ next \in {"free", "lost"}
              /\ call[r].reply \notin {"ok", "died"}
              /\ UNCHANGED <<results, broken>>
           \/ /\ next = "lost"
              /\ UNCHANGED <<results, broken>>
  <2>1. CASE PublishResult(r)
    BY <1>1, <2>1 DEF PublishResult, Finish, Phases
  <2>2. ASSUME Fail(r, k)
        PROVE  \E next \in {"free", "lost"} :
                  /\ phase' = [phase EXCEPT ![k] = next]
                  /\ Leave(r, k) /\ PutAside(k, attempts[k])
    BY <2>2 DEF Fail, Release
  <2>3. CASE PublishFails(r)
    <3>1. /\ Fail(r, k) /\ broken' = broken \cup {k}
          /\ results' \in {results, results \cup {answer}}
      BY <1>1, <2>3 DEF PublishFails
    <3> HIDE DEF answer
    <3> QED
      BY <2>2, <3>1 DEF Phases
  <2>4. CASE RecoveryFails(r)
    <3>1. /\ Fail(r, k) /\ UNCHANGED <<results, broken>>
          /\ IsRecovery(k) /\ call[r].reply \notin {"ok", "died"}
      BY <1>1, <2>4 DEF RecoveryFails, Answered
    <3> HIDE DEF answer
    <3> QED
      BY <2>2, <3>1 DEF Phases
  <2>5. CASE HandlerDies(r)
    BY <1>1, <2>5 DEF HandlerDies, Finish, Phases
  <2> QED
    BY <2>1, <2>3, <2>4, <2>5 DEF Respond
<1>5. broken' \in {broken, broken \cup {k}} /\ results' \in {results, results \cup {answer}}
  BY <1>4
<1>6. /\ TopicTypes'
      /\ \A j \in Commanded : copies[j] \subseteq copies'[j]
      /\ \A j \in Commanded : j # k \/ ~(IsRecovery(k) \/ k \in broken') =>
            copies'[j] = copies[j] /\ (j \in dead' <=> j \in dead)
  <2>0. TopicTypes
    BY DEF HTypes
  <2>1. CASE UNCHANGED topicVars
    BY <2>0, <2>1 DEF TopicTypes, topicVars
  <2>2. CASE PutAside(k, attempts[k]) /\ (IsRecovery(k) \/ broken' = broken \cup {k})
    BY <1>2, <2>0, <2>2, PutAsideTyped
  <2> QED
    BY <1>4, <2>1, <2>2
<1>7. /\ TypeOK' /\ Slots' /\ Progress'
      /\ task' \in [Requests -> Commanded \cup {NoCommand}]
      /\ phase' \in [Commanded -> Phases]
      /\ attempts' \in [Commanded -> 0..MaxAttempts]
      /\ \A j \in Commanded :
            IF phase'[j] = "running" THEN attempts'[j] \in copies'[j]
                                     ELSE attempts'[j] = 0
      /\ broken' \subseteq Commanded
      /\ UNCHANGED effects
  BY <1>1, <1>4, <1>5, <1>6, LeaveKeeps DEF Leave
<1> HIDE DEF answer
<1>8. HTypes'
  BY <1>3, <1>5, <1>6, <1>7 DEF HTypes
<1>9. SuccessesWrote'
  <2>1. results' = results \cup {answer} =>
            (answer.status = "success" => effects[answer.command] > 0)
    BY <1>2, <1>3
  <2> QED
    BY <1>5, <1>7, <2>1 DEF SuccessesWrote
<1>10. ASSUME NEW j \in Commanded \ {k}
       PROVE  Truth(j)'
  <2>1. phase'[j] = phase[j]
    BY <1>4 DEF HTypes
  <2>2. \A x \in results' : x.command = j => x \in results
    BY <1>3, <1>5
  <2>3. j \notin broken' => j \notin broken
    BY <1>5
  <2> QED
    BY <1>5, <1>6, <1>7, <2>1, <2>2, <2>3 DEF Truth, IsRecovery
<1>11. Truth(k)'
  <2> SUFFICES ASSUME k \notin broken'
               PROVE  Truth(k)'
    BY DEF Truth
  <2>1. k \notin broken /\ phase'[k] = next
    BY <1>4, <1>5 DEF HTypes
  <2>2. /\ \A x \in results : x.command # k
        /\ effects[k] <= 1
        /\ ~IsRecovery(k) => copies'[k] = {1} /\ k \notin dead'
    BY <1>2, <1>6, <2>1 DEF Truth
  <2>3. CASE next = "answered" /\ call[r].reply # "died" /\ results' = results \cup {answer}
    BY <1>2, <1>3, <1>7, <2>1, <2>2, <2>3 DEF Truth, IsRecovery
  <2>4. CASE /\ results' = results
             /\ next = "lost" \/ (next = "free" /\ call[r].reply \notin {"ok", "died"})
    <3>1. next = "free" => effects[k] = 0
      BY <1>2, <2>1, <2>4
    <3>2. \A x \in results' : x.command # k
      BY <2>2, <2>4
    <3> QED
      BY <1>7, <2>1, <2>2, <2>4, <3>1, <3>2 DEF Truth, IsRecovery
  <2> QED
    BY <1>4, <2>1, <2>3, <2>4
<1> QED
  BY <1>7, <1>8, <1>9, <1>10, <1>11

LEMMA ServeKeeps ==
    ASSUME HInv, NEW r \in Requests, Serve(r)
    PROVE  HInv'
<1> USE DEF HInv
<1>1. /\ r \notin Handlers
      /\ Calls(r) \/ CommandStep(r) \/ QueryStep(r) \/ Die(r)
      /\ UNCHANGED handlerVars
  BY DEF Serve
<1>2. TypeOK' /\ \A q \in Requests \ {r} : call'[q] = call[q]
  BY <1>1, CallsTyped, CommandStepTyped, QueryStepTyped, DieTyped, OthersStay
  DEF HTypes
<1>3. \A q \in Requests : task[q] # NoCommand => call'[q] = call[q]
  BY <1>1, <1>2 DEF Slots
<1>4. HTypes'
  BY <1>1, <1>2 DEF HTypes, TopicTypes, handlerVars, topicVars
<1>5. Slots' /\ Progress'
  BY <1>1, <1>3 DEF Slots, Progress, handlerVars
<1>6. SuccessesWrote' /\ \A k \in Commanded : Truth(k)'
  BY <1>1 DEF SuccessesWrote, Truth, handlerVars, topicVars
<1> QED
  BY <1>4, <1>5, <1>6

LEMMA HInv_Always == HandlersSpec => []HInv
<1>1. HandlersInit => HInv
  <2> SUFFICES ASSUME HandlersInit PROVE HInv
    OBVIOUS
  <2> USE HandlerAssumption DEF HandlersInit
  <2>1. HTypes
    BY InitTyped DEF HTypes, TopicTypes, Phases
  <2>2. Slots /\ Progress /\ SuccessesWrote
    BY DEF Slots, Progress, SuccessesWrote
  <2>3. \A k \in Commanded : Truth(k)
    BY DEF Truth
  <2> QED
    BY <2>1, <2>2, <2>3 DEF HInv
<1>2. HInv /\ [HandlersNext]_allVars => HInv'
  <2>1. ASSUME HInv, UNCHANGED allVars
        PROVE  HInv'
    <3>1. TypeOK'
      BY <2>1, StutterTyped DEF HInv, HTypes, allVars
    <3>2. HTypes'
      BY <2>1, <3>1 DEF HInv, HTypes, TopicTypes, allVars, handlerVars, topicVars
    <3>3. Slots' /\ Progress'
      BY <2>1 DEF HInv, Slots, Progress, allVars, handlerVars, vars
    <3>4. SuccessesWrote' /\ \A k \in Commanded : Truth(k)'
      BY <2>1 DEF HInv, SuccessesWrote, Truth, allVars, handlerVars, topicVars
    <3> QED
      BY <3>2, <3>3, <3>4 DEF HInv
  <2>2. 1 \in 1..MaxAttempts
    BY HandlerAssumption
  <2> QED
    BY <2>1, <2>2, DeliverKeeps, TopicKeeps, HandlerStepKeeps, RespondKeeps, ServeKeeps
    DEF HandlersNext
<1> QED
  BY <1>1, <1>2, PTL DEF HandlersSpec

-----------------------------------------------------------------------------
\* What the outbox reports of a command.

\* The call works on what the order asks for.
Carries(c, order) == c.op = order.op /\ c.id = order.id /\ c.name = order.name

RInv ==
    /\ \A r \in Requests : task[r] # NoCommand =>
          /\ Carries(call[r], Order[task[r]])
          /\ call[r].pc \in {"project", "purge"}
               \/ (call[r].pc = "rest" /\ call[r].reply = "ok")
             => Reported(task[r])
    /\ \A result \in results :
          result.status = "success" => Reported(result.command)

\* Nothing takes an event out of the outbox.
LEMMA ReportsStay ==
    ASSUME TypeOK, StoreNext \/ UNCHANGED storeVars, NEW k, Reported(k)
    PROVE  Reported(k)'
<1>1. CASE UNCHANGED storeVars
  BY <1>1 DEF Reported
<1>2. CASE StoreNext
  <2>1. PICK e : outbox' = Append(outbox, e)
    BY <1>2, StatementShape DEF TypeOK, StatementOn
  <2>2. /\ DOMAIN outbox \subseteq DOMAIN outbox'
        /\ \A i \in DOMAIN outbox : outbox'[i] = outbox[i]
    BY <2>1 DEF TypeOK, StoreTypeOK
  <2> QED
    BY <2>2 DEF Reported
<1> QED
  BY <1>1, <1>2

\* A step of a command keeps what the call works on, and its statement puts the
\* event it asks for into the outbox.
LEMMA StepReports ==
    ASSUME TypeOK, NEW r \in Requests, NEW k \in Commanded,
           Carries(call[r], Order[k]), CommandStep(r) \/ Die(r)
    PROVE  /\ Carries(call[r], Order[k])'
           /\ call[r].pc = "store" /\ call'[r].pc # "rest" => Reported(k)'
<1>1. PICK pc, reply, user : Proceed(r, pc, reply, user)
  BY DEF CommandStep, InsertRow, ActivateRow, DeactivateRow, DeleteRow,
         NoRowMatches, StoreFails, Project, Purge, Die, Answer, Continue
<1>2. /\ call'[r].op = call[r].op /\ call'[r].id = call[r].id
      /\ call'[r].name = call[r].name
  <2>1. call'[r] = [op |-> call[r].op, pc |-> pc, id |-> call[r].id,
                    name |-> call[r].name, user |-> user, reply |-> reply]
    BY <1>1 DEF Proceed, TypeOK, CallsOK
  <2> QED
    BY <2>1
<1>3. ASSUME NEW e, outbox' = Append(outbox, e), Reports(e, Order[k])
      PROVE  Reported(k)'
  <2>1. PICK i : i = Len(outbox) + 1
    OBVIOUS
  <2>2. i \in DOMAIN outbox' /\ outbox'[i] = e
    BY <1>3, <2>1 DEF TypeOK, StoreTypeOK
  <2> QED
    BY <1>3, <2>2 DEF Reported
<1>4. ASSUME InsertRow(r), ~(call'[r].pc = "rest")
      PROVE  Reported(k)'
  <2>1. /\ call[r].op = "CreateUser"
        /\ CreateUserQuery(call[r].id, call[r].name)
    BY <1>4, ProceedGoes DEF InsertRow, Answer
  <2>2. outbox' = Append(outbox, [aggregate_id |-> call[r].id, operation |-> "created",
                                  payload |-> NewRow(call[r].id, call[r].name)])
    BY <2>1 DEF CreateUserQuery, WriteRow, CaptureOutboxEvent
  <2> QED
    BY <1>3, <2>1, <2>2 DEF Reports, Carries, NewRow
<1>5. ASSUME ActivateRow(r)
      PROVE  Reported(k)'
  <2>1. outbox' = Append(outbox, [aggregate_id |-> call[r].id, operation |-> "updated",
                                  payload |-> ActiveRow(users[call[r].id])])
    BY <1>5 DEF ActivateRow, ActivateUserByID, WriteRow, CaptureOutboxEvent
  <2> QED
    BY <1>3, <1>5, <2>1 DEF ActivateRow, Reports, Carries, ActiveRow, Settled
<1>6. ASSUME DeactivateRow(r)
      PROVE  Reported(k)'
  <2>1. outbox' = Append(outbox, [aggregate_id |-> call[r].id, operation |-> "updated",
                                  payload |-> FailedRow(users[call[r].id])])
    BY <1>6 DEF DeactivateRow, DeactivateUserByID, WriteRow, CaptureOutboxEvent
  <2> QED
    BY <1>3, <1>6, <2>1 DEF DeactivateRow, Reports, Carries, FailedRow, Settled
<1>7. ASSUME DeleteRow(r)
      PROVE  Reported(k)'
  <2>1. outbox' = Append(outbox, [aggregate_id |-> call[r].id,
                                  operation |-> "deactivated",
                                  payload |-> users[call[r].id]])
    BY <1>7 DEF DeleteRow, DeleteUserByID, CaptureOutboxEvent
  <2> QED
    BY <1>3, <1>7, <2>1 DEF DeleteRow, Reports, Carries
<1>8. ASSUME NoRowMatches(r) \/ StoreFails(r) \/ Die(r)
      PROVE  call'[r].pc = "rest"
  BY <1>8, ProceedGoes DEF NoRowMatches, StoreFails, Die, Answer
<1>9. Project(r) \/ Purge(r) => call[r].pc # "store"
  BY DEF Project, Purge, At
<1> QED
  BY <1>2, <1>4, <1>5, <1>6, <1>7, <1>8, <1>9 DEF CommandStep, Carries

\* What a step has to show, once nothing is taken out of the outbox.
LEMMA ReportsKept ==
    ASSUME HInv, RInv, StoreNext \/ UNCHANGED storeVars,
           \A q \in Requests : task'[q] # NoCommand =>
               \/ task'[q] = task[q] /\ call'[q] = call[q]
               \/ \E k \in Commanded :
                     /\ task'[q] = k
                     /\ Carries(call'[q], Order[k])
                     /\ call'[q].pc \in {"project", "purge"}
                          \/ (call'[q].pc = "rest" /\ call'[q].reply = "ok")
                        => Reported(k)',
           \A result \in results' : result.status = "success" =>
               result \in results \/ Reported(result.command)
    PROVE  RInv'
<1>1. TypeOK
  BY DEF HInv, HTypes
<1>2. ASSUME NEW k, Reported(k)
      PROVE  Reported(k)'
  BY <1>1, <1>2, ReportsStay
<1> QED
  BY <1>2 DEF RInv

LEMMA RInv_Always == HandlersSpec => []RInv
<1>1. HandlersInit => RInv
  BY DEF HandlersInit, RInv
<1>2. HInv /\ RInv /\ [HandlersNext]_allVars => RInv'
  <2> SUFFICES ASSUME HInv, RInv, [HandlersNext]_allVars
               PROVE  RInv'
    OBVIOUS
  <2>0. TypeOK /\ task \in [Requests -> Commanded \cup {NoCommand}] /\ results \subseteq Result
    BY DEF HInv, HTypes
  <2>1. CASE UNCHANGED allVars
    BY <2>1, ReportsKept DEF allVars, handlerVars, vars
  <2>2. ASSUME NEW r \in Handlers, NEW k \in Commanded, NEW n, Deliver(k, n, r)
        PROVE  RInv'
    <3>0. /\ r \in Requests /\ Order[k].id \in UserIDs \cup {NoID} /\ UNCHANGED results
          /\ StartCommand(r, Order[k].op, Order[k].id, Order[k].name)
          /\ task' = [task EXCEPT ![r] = k]
      BY <2>2, HandlerAssumption DEF Deliver
    <3>1. PICK pc, reply :
            /\ call' = [call EXCEPT ![r] =
                  [op |-> Order[k].op, pc |-> pc, id |-> Order[k].id,
                   name |-> Order[k].name, user |-> NoUser, reply |-> reply]]
            /\ pc \in {"store", "rest"} /\ reply # "ok"
            /\ UNCHANGED storeVars
      BY <3>0 DEF StartCommand, Begin, Refuse
    <3>2. /\ Carries(call'[r], Order[k])
          /\ call'[r].pc = pc /\ call'[r].reply = reply
          /\ task'[r] = k
          /\ \A q \in Requests \ {r} : call'[q] = call[q] /\ task'[q] = task[q]
      BY <2>0, <3>0, <3>1 DEF TypeOK, CallsOK, Carries
    <3> QED
      BY <3>0, <3>1, <3>2, ReportsKept
  <2>3. ASSUME NEW r \in Handlers, HandlerStep(r)
        PROVE  RInv'
    <3>0. r \in Requests
      BY HandlerAssumption
    <3>1. PICK k \in Commanded : k = task[r] /\ k # NoCommand
      BY <2>0, <2>3, <3>0, HandlerAssumption DEF HandlerStep
    <3>2. /\ CommandStep(r) \/ Die(r)
          /\ UNCHANGED <<task, results>>
          /\ Carries(call[r], Order[k])
      BY <2>3, <3>0, <3>1 DEF HandlerStep, RInv
    <3>3. StoreNext \/ UNCHANGED storeVars
      BY <2>0, <3>0, <3>2, CommandIsStatement DEF Die
    <3>4. \A q \in Requests \ {r} : call'[q] = call[q]
      BY <2>0, <3>0, <3>2, OthersStay
    <3>5. Carries(call'[r], Order[k])
      BY <2>0, <3>0, <3>2, StepReports
    <3>6. ASSUME \/ call'[r].pc \in {"project", "purge"}
                 \/ call'[r].pc = "rest" /\ call'[r].reply = "ok"
          PROVE  Reported(k)'
      <4>1. \/ call[r].pc = "store" /\ call'[r].pc # "rest"
            \/ call[r].pc \in {"project", "purge"}
        BY <2>0, <3>0, <3>2, <3>6, StepOutcome DEF Goes, DomainReplies
      <4>2. CASE call[r].pc = "store" /\ call'[r].pc # "rest"
        BY <2>0, <3>0, <3>2, <4>2, StepReports
      <4>3. CASE call[r].pc \in {"project", "purge"}
        BY <2>0, <3>0, <3>1, <3>3, <4>3, ReportsStay DEF RInv
      <4> QED
        BY <4>1, <4>2, <4>3
    <3> QED
      BY <3>0, <3>1, <3>2, <3>3, <3>4, <3>5, <3>6, ReportsKept
  <2>4. ASSUME NEW r \in Handlers, Respond(r)
        PROVE  RInv'
    <3>0. r \in Requests
      BY HandlerAssumption
    <3>1. PICK k \in Commanded : k = task[r] /\ k # NoCommand
      BY <2>0, <2>4, <3>0, HandlerAssumption
      DEF Respond, PublishResult, PublishFails, RecoveryFails, HandlerDies, Returned
    <3>2. /\ call[r].pc = "rest"
          /\ UNCHANGED vars
          /\ task' = [task EXCEPT ![r] = NoCommand]
          /\ results' \in {results, results \cup {ResultOf(k, call[r].reply)}}
      BY <2>4, <3>1
      DEF Respond, PublishResult, PublishFails, RecoveryFails, HandlerDies, Finish,
          Fail, Leave, Returned, At
    <3>3. /\ ResultOf(k, call[r].reply).command = k
          /\ ResultOf(k, call[r].reply).status = "success" => call[r].reply = "ok"
      BY DEF ResultOf
    <3>4. call[r].reply = "ok" => Reported(k)
      BY <3>0, <3>1, <3>2 DEF RInv
    <3>5. \A q \in Requests : task'[q] # NoCommand => task'[q] = task[q]
      BY <2>0, <3>2
    <3> QED
      BY <3>2, <3>3, <3>4, <3>5, ReportsKept DEF vars
  <2>5. ASSUME NEW r \in Requests, Serve(r)
        PROVE  RInv'
    <3>1. [Next]_vars /\ UNCHANGED <<task, results>>
      BY <2>5 DEF Serve, Next, handlerVars
    <3>2. \A q \in Requests : task[q] # NoCommand => q # r
      BY <2>5 DEF Serve, HInv, Slots
    <3>3. \A q \in Requests \ {r} : call'[q] = call[q]
      BY <2>0, <2>5, OthersStay DEF Serve
    <3> QED
      BY <2>0, <3>1, <3>2, <3>3, OnlyStatements, ReportsKept
  <2>6. ASSUME NEW k, NEW n, Topic(k, n) \/ ClaimBreaks(k)
        PROVE  RInv'
    <3>1. UNCHANGED <<vars, task, results>>
      BY <2>6, TopicTouchesNothing
    <3> QED
      BY <3>1, ReportsKept DEF vars
  <2> QED
    BY <2>1, <2>2, <2>3, <2>4, <2>5, <2>6 DEF HandlersNext
<1> QED
  BY <1>1, <1>2, HInv_Always, PTL DEF HandlersSpec

-----------------------------------------------------------------------------
\* The reasons of failures.

\* A user the table has not was never imported, or its removal was reported.
Accounted(id) ==
    \/ Stored(id)
    \/ Imported[id] = NoRow
    \/ \E i \in EventsAbout(id) : outbox[i].operation = "deactivated"
RemovalsAreReported == \A id \in UserIDs : Accounted(id)

LEMMA EventsStay ==
    ASSUME StoreTypeOK, StoreNext \/ UNCHANGED storeVars, NEW id
    PROVE  \A i \in EventsAbout(id) :
               i \in EventsAbout(id)' /\ outbox'[i] = outbox[i]
<1>1. CASE StoreNext
  <2>1. PICK e : outbox' = Append(outbox, e)
    BY <1>1, StatementShape DEF StatementOn
  <2> QED
    BY <2>1 DEF EventsAbout, StoreTypeOK
<1> QED
  BY <1>1 DEF EventsAbout

LEMMA RemovalsStayReported ==
    ASSUME StoreTypeOK, RemovalsAreReported, StoreNext \/ UNCHANGED storeVars
    PROVE  RemovalsAreReported'
<1> SUFFICES ASSUME NEW id \in UserIDs PROVE Accounted(id)'
  BY DEF RemovalsAreReported
<1>1. Accounted(id)
  BY DEF RemovalsAreReported
<1>2. ASSUME users'[id] = users[id] PROVE Accounted(id)'
  BY <1>1, <1>2, EventsStay DEF Accounted, Stored
<1>3. CASE UNCHANGED storeVars
  BY <1>2, <1>3
<1>4. CASE StoreNext
  <2>1. PICK about \in UserIDs, e \in OutboxEvent : StatementOn(about, e)
    BY <1>4, StatementShape
  <2>2. CASE about # id
    BY <1>2, <2>1, <2>2 DEF StatementOn, StoreTypeOK
  <2>3. CASE about = id /\ e.operation = "deactivated"
    <3>1. Len(outbox) + 1 \in DOMAIN outbox' /\ outbox'[Len(outbox) + 1] = e
      BY <2>1 DEF StatementOn, StoreTypeOK
    <3> QED
      BY <2>1, <2>3, <3>1 DEF StatementOn, Accounted, EventsAbout
  <2>4. CASE about = id /\ e.operation # "deactivated"
    BY <2>1, <2>4, StoreAssumption
    DEF StatementOn, RowAfter, Accounted, Stored, StoreTypeOK, OutboxEvent
  <2> QED
    BY <2>2, <2>3, <2>4
<1> QED
  BY <1>3, <1>4

\* Nothing that happens later makes a true reason false.
LEMMA ReasonsStayTrue ==
    ASSUME StoreTypeOK, StoreNext \/ UNCHANGED storeVars, NEW k \in Commanded,
           NEW reason, ReasonIsTrue(reason, Order[k]),
           reason \in {"user_id already taken", "user not found"} =>
               Order[k].id \in UserIDs
    PROVE  ReasonIsTrue(reason, Order[k])'
<1>1. CASE reason = "user_id already taken"
  BY <1>1, VersionsGrow DEF ReasonIsTrue
<1>2. CASE reason = "username already taken"
  BY <1>2, VersionsGrow DEF ReasonIsTrue
<1>3. CASE reason = "user not found"
  BY <1>3, EventsStay DEF ReasonIsTrue
<1> QED
  BY <1>1, <1>2, <1>3 DEF ReasonIsTrue

\* What the handler of k may publish of a reply.
Grounded(k, reason) ==
    /\ ReasonIsTrue(reason, Order[k])
    /\ reason \in {"user_id already taken", "user not found"} => Order[k].id \in UserIDs

Excuse(k, r) == call[r].pc = "rest" => Grounded(k, Reason(k, call[r].reply))

EInv ==
    /\ RowIsVersion
    /\ RemovalsAreReported
    /\ \A r \in Requests : task[r] # NoCommand => Excuse(task[r], r)
    /\ \A result \in results : Grounded(result.command, result.reason)

\* A step that ends a call ends it with a reason that is true.
LEMMA StepGrounds ==
    ASSUME TypeOK, RowIsVersion, RemovalsAreReported,
           NEW r \in Requests, NEW k \in Commanded, Carries(call[r], Order[k]),
           CommandStep(r) \/ Die(r)
    PROVE  Excuse(k, r)'
<1>0. StoreTypeOK /\ WellFormed(call[r]) /\ call[r] \in Call
  BY DEF TypeOK, CallsOK
<1>1. At(r, "store") => call[r].id \in UserIDs
  BY <1>0 DEF WellFormed, At
<1>2. ASSUME call'[r].reply \notin DomainReplies \cup {"invalid"}
      PROVE  Excuse(k, r)'
  BY <1>2 DEF Excuse, Grounded, Reason, ReasonIsTrue, DomainReplies
<1>3. ASSUME At(r, "store"), UNCHANGED storeVars, NEW reply \in DomainReplies,
             call'[r].reply = reply, ReasonIsTrue(reply, Order[k])
      PROVE  Excuse(k, r)'
  <2>1. Reason(k, reply) = reply /\ Order[k].id \in UserIDs
    BY <1>1, <1>3 DEF Reason, DomainReplies, Carries
  <2>2. ReasonIsTrue(reply, Order[k])'
    BY <1>0, <1>3, <2>1, ReasonsStayTrue
  <2> QED
    BY <1>3, <2>1, <2>2 DEF Excuse, Grounded, Reason
<1>4. ASSUME InsertRow(r)
      PROVE  Excuse(k, r)'
  <2>0. At(r, "store") /\ call[r].id \in UserIDs /\ call[r].id = Order[k].id
        /\ call[r].name = Order[k].name
    BY <1>1, <1>4 DEF InsertRow, Carries
  <2>1. CASE \E user : Continue(r, "project", user)
    BY <2>1, ProceedGoes DEF Continue, Excuse
  <2>2. CASE /\ Stored(call[r].id) /\ UNCHANGED storeVars
             /\ Answer(r, "user_id already taken", NoUser)
    <3>1. call'[r].reply = "user_id already taken"
      BY <2>2, ProceedGoes DEF Answer
    <3>2. ReasonIsTrue("user_id already taken", Order[k])
      BY <2>0, <2>2 DEF RowIsVersion, ReasonIsTrue
    <3> QED
      BY <1>3, <2>0, <2>2, <3>1, <3>2 DEF DomainReplies
  <2>3. CASE /\ ~Stored(call[r].id) /\ Taken(call[r].name) /\ UNCHANGED storeVars
             /\ Answer(r, "username already taken", NoUser)
    <3>1. call'[r].reply = "username already taken"
      BY <2>3, ProceedGoes DEF Answer
    <3>2. PICK other \in UserIDs : Owns(other, call[r].name)
      BY <2>3 DEF Taken
    <3>3. /\ other \in UserIDs \ {Order[k].id}
          /\ users[other] \in Versions(other)
          /\ users[other].username = Order[k].name
      BY <2>0, <2>3, <3>2 DEF Owns, RowIsVersion
    <3>4. ReasonIsTrue("username already taken", Order[k])
      BY <3>3 DEF ReasonIsTrue
    <3> QED
      BY <1>3, <2>0, <2>3, <3>1, <3>4 DEF DomainReplies
  <2> QED
    BY <1>4, <2>1, <2>2, <2>3 DEF InsertRow
<1>5. ASSUME NoRowMatches(r)
      PROVE  Excuse(k, r)'
  <2>1. call'[r].reply = "user not found"
    BY <1>5, ProceedGoes DEF NoRowMatches, Answer
  <2>2. ReasonIsTrue("user not found", Order[k])
    BY <1>1, <1>5 DEF NoRowMatches, RemovalsAreReported, Accounted, ReasonIsTrue, Carries
  <2> QED
    BY <1>3, <1>5, <2>1, <2>2 DEF NoRowMatches, DomainReplies
<1>6. ASSUME ActivateRow(r) \/ DeactivateRow(r) \/ DeleteRow(r)
      PROVE  call'[r].pc # "rest"
  BY <1>6, ProceedGoes DEF ActivateRow, DeactivateRow, DeleteRow, Continue
<1>7. ASSUME StoreFails(r) \/ Project(r) \/ Purge(r) \/ Die(r)
      PROVE  call'[r].reply \notin DomainReplies \cup {"invalid"}
  <2>1. \E reply \in {"ok", "error", "died"} : \E user : Answer(r, reply, user)
    BY <1>7 DEF StoreFails, Project, Purge, Die
  <2> QED
    BY <2>1, ProceedGoes DEF Answer, DomainReplies
<1> QED
  BY <1>2, <1>4, <1>5, <1>6, <1>7 DEF CommandStep, Excuse

\* What a step has to show of the reasons.
LEMMA ReasonsKept ==
    ASSUME HInv, EInv, results' \subseteq Result, StoreNext \/ UNCHANGED storeVars,
           \A q \in Requests : task'[q] # NoCommand =>
               \/ task'[q] = task[q] /\ call'[q] = call[q]
               \/ \E k \in Commanded : task'[q] = k /\ Excuse(k, q)',
           \A result \in results' :
               result \in results \/ Grounded(result.command, result.reason)
    PROVE  EInv'
<1>1. TypeOK /\ StoreTypeOK /\ task \in [Requests -> Commanded \cup {NoCommand}]
      /\ results \subseteq Result
  BY DEF HInv, HTypes, TypeOK
<1>2. RowIsVersion' /\ RemovalsAreReported'
  BY <1>1, RowStaysVersion, RemovalsStayReported DEF EInv
<1>3. ASSUME NEW k \in Commanded, NEW reason, Grounded(k, reason)
      PROVE  Grounded(k, reason)'
  BY <1>1, <1>3, ReasonsStayTrue DEF Grounded
<1>4. ASSUME NEW q \in Requests, task'[q] # NoCommand
      PROVE  Excuse(task[q], q)'
  <2>1. PICK k \in Commanded : task'[q] = k
    BY <1>1, <1>4, HandlerAssumption
  <2>2. Excuse(k, q)'
    BY <1>1, <1>3, <1>4, <2>1 DEF EInv, Excuse
  <2> QED
    BY <2>1, <2>2 DEF Excuse, Grounded, Reason
<1>5. (\A result \in results : Grounded(result.command, result.reason))'
  <2> SUFFICES ASSUME NEW result \in results'
               PROVE  Grounded(result.command, result.reason)'
    OBVIOUS
  <2>1. result.command \in Commanded /\ Grounded(result.command, result.reason)
    BY <1>1 DEF EInv, Result
  <2> QED
    BY <1>3, <2>1
<1> QED
  BY <1>2, <1>4, <1>5 DEF EInv

LEMMA EInv_Always == HandlersSpec => []EInv
<1>1. HandlersInit => EInv
  <2> SUFFICES ASSUME HandlersInit PROVE EInv
    OBVIOUS
  <2>1. RemovalsAreReported
    BY DEF HandlersInit, Init, StoreInit, RemovalsAreReported, Accounted, Stored
  <2> QED
    BY <2>1, InitDerived DEF HandlersInit, EInv
<1>2. HInv /\ HInv' /\ RInv /\ EInv /\ [HandlersNext]_allVars => EInv'
  <2> SUFFICES ASSUME HInv, HInv', RInv, EInv, [HandlersNext]_allVars
               PROVE  EInv'
    OBVIOUS
  <2>0. /\ TypeOK /\ task \in [Requests -> Commanded \cup {NoCommand}]
        /\ results' \subseteq Result /\ NoCommand \notin Commanded
    BY HandlerAssumption DEF HInv, HTypes
  <2>1. CASE UNCHANGED allVars
    BY <2>0, <2>1, ReasonsKept DEF allVars, handlerVars, vars
  <2>2. ASSUME NEW r \in Handlers, NEW k \in Commanded, NEW n, Deliver(k, n, r)
        PROVE  EInv'
    <3>0. /\ r \in Requests /\ Order[k].id \in UserIDs \cup {NoID} /\ UNCHANGED results
          /\ StartCommand(r, Order[k].op, Order[k].id, Order[k].name)
          /\ task' = [task EXCEPT ![r] = k]
      BY <2>2, HandlerAssumption DEF Deliver
    <3>1. /\ UNCHANGED storeVars
          /\ \A q \in Requests \ {r} : call'[q] = call[q] /\ task'[q] = task[q]
          /\ task'[r] = k
          /\ \/ call'[r].pc = "store"
             \/ call'[r].reply = "invalid" /\ Order[k].id = NoID
      BY <2>0, <3>0 DEF StartCommand, Begin, Refuse, TypeOK, CallsOK
    <3>2. Excuse(k, r)'
      BY <3>1 DEF Excuse, Grounded, Reason, ReasonIsTrue
    <3> QED
      BY <2>0, <3>0, <3>1, <3>2, ReasonsKept
  <2>3. ASSUME NEW r \in Handlers, HandlerStep(r)
        PROVE  EInv'
    <3>0. r \in Requests
      BY HandlerAssumption
    <3>1. PICK k \in Commanded : k = task[r] /\ k # NoCommand
      BY <2>0, <2>3, <3>0 DEF HandlerStep
    <3>2. /\ CommandStep(r) \/ Die(r)
          /\ UNCHANGED <<task, results>>
          /\ Carries(call[r], Order[k])
      BY <2>3, <3>0, <3>1 DEF HandlerStep, RInv
    <3>3. StoreNext \/ UNCHANGED storeVars
      BY <2>0, <3>0, <3>2, CommandIsStatement DEF Die
    <3>4. \A q \in Requests \ {r} : call'[q] = call[q]
      BY <2>0, <3>0, <3>2, OthersStay
    <3>5. Excuse(k, r)'
      BY <2>0, <3>0, <3>2, StepGrounds DEF EInv
    <3> QED
      BY <2>0, <3>0, <3>1, <3>2, <3>3, <3>4, <3>5, ReasonsKept
  <2>4. ASSUME NEW r \in Handlers, Respond(r)
        PROVE  EInv'
    <3>0. r \in Requests
      BY HandlerAssumption
    <3>1. PICK k \in Commanded : k = task[r] /\ k # NoCommand
      BY <2>0, <2>4, <3>0
      DEF Respond, PublishResult, PublishFails, RecoveryFails, HandlerDies, Returned
    <3>2. /\ call[r].pc = "rest"
          /\ UNCHANGED vars
          /\ task' = [task EXCEPT ![r] = NoCommand]
          /\ results' \in {results, results \cup {ResultOf(k, call[r].reply)}}
      BY <2>4, <3>1
      DEF Respond, PublishResult, PublishFails, RecoveryFails, HandlerDies, Finish,
          Fail, Leave, Returned, At
    <3>3. Grounded(k, Reason(k, call[r].reply))
      BY <3>0, <3>1, <3>2 DEF EInv, Excuse
    <3>4. /\ ResultOf(k, call[r].reply).command = k
          /\ ResultOf(k, call[r].reply).reason \in {"", Reason(k, call[r].reply)}
      BY DEF ResultOf
    <3>5. Grounded(k, "")
      BY DEF Grounded, ReasonIsTrue
    <3>6. \A result \in results' :
              result \in results \/ Grounded(result.command, result.reason)
      BY <3>2, <3>3, <3>4, <3>5
    <3>7. \A q \in Requests : task'[q] # NoCommand => task'[q] = task[q]
      BY <2>0, <3>2
    <3> QED
      BY <2>0, <3>2, <3>6, <3>7, ReasonsKept DEF vars
  <2>5. ASSUME NEW r \in Requests, Serve(r)
        PROVE  EInv'
    <3>1. [Next]_vars /\ UNCHANGED <<task, results>>
      BY <2>5 DEF Serve, Next, handlerVars
    <3>2. \A q \in Requests : task[q] # NoCommand => q # r
      BY <2>5 DEF Serve, HInv, Slots
    <3>3. \A q \in Requests \ {r} : call'[q] = call[q]
      BY <2>0, <2>5, OthersStay DEF Serve
    <3> QED
      BY <2>0, <3>1, <3>2, <3>3, OnlyStatements, ReasonsKept
  <2>6. ASSUME NEW k, NEW n, Topic(k, n) \/ ClaimBreaks(k)
        PROVE  EInv'
    <3>1. UNCHANGED <<vars, task, results>>
      BY <2>6, TopicTouchesNothing
    <3> QED
      BY <2>0, <3>1, ReasonsKept DEF vars
  <2> QED
    BY <2>1, <2>2, <2>3, <2>4, <2>5, <2>6 DEF HandlersNext
<1> QED
  BY <1>1, <1>2, HInv_Always, RInv_Always, PTL DEF HandlersSpec
-----------------------------------------------------------------------------

\* Type correctness: in particular the handler at work on a command has a slot of
\* its own and one of the copies, none of which counts past the last attempt.
THEOREM HandlersTypeCorrect == HandlersSpec => []HandlersTypeOK
<1>1. ASSUME HInv, NEW k \in Commanded
      PROVE  /\ phase[k] = "running" =>
                   Cardinality({r \in Requests : task[r] = k}) = 1
             /\ phase[k] # "running" => \A r \in Requests : task[r] # k
  <2>1. k # NoCommand
    BY HandlerAssumption
  <2>2. CASE phase[k] = "running"
    <3>1. PICK r \in Requests : task[r] = k
      BY <1>1, <2>2 DEF HInv, Slots
    <3>2. {q \in Requests : task[q] = k} = {r}
      BY <1>1, <2>1, <3>1 DEF HInv, Slots
    <3> QED
      BY <2>2, <3>2, FS_Singleton
  <2>3. CASE phase[k] # "running"
    BY <1>1, <2>1, <2>3 DEF HInv, Slots
  <2> QED
    BY <2>2, <2>3
<1>2. ASSUME HInv
      PROVE  HandlersTypeOK
  <2>1. /\ HTypes /\ TopicTypes
        /\ \A k \in Commanded :
              IF phase[k] = "running" THEN attempts[k] \in copies[k]
                                      ELSE attempts[k] = 0
    BY <1>2 DEF HInv, HTypes
  <2> QED
    BY <1>1, <1>2, <2>1 DEF HTypes, TopicTypes, HandlersTypeOK
<1> QED
  BY <1>2, HInv_Always, PTL

\* The handlers do not disturb the write model: of the table and the outbox
\* nothing but the statements of the repository is seen with them, even when a
\* command is handled again after it was carried out.
THEOREM HandlersAreStatements == HandlersSpec => StoreSpec
<1>1. HandlersInit => StoreInit
  BY DEF HandlersInit, Init
<1>2. HInv /\ [HandlersNext]_allVars => [StoreNext]_storeVars
  <2> SUFFICES ASSUME HInv, [HandlersNext]_allVars
               PROVE  [StoreNext]_storeVars
    OBVIOUS
  <2>1. CASE UNCHANGED vars
    BY <2>1 DEF vars
  <2>2. ASSUME NEW r, NEW k, NEW n, Deliver(k, n, r)
        PROVE  UNCHANGED storeVars
    BY <2>2 DEF Deliver, StartCommand, Begin, Refuse
  <2>3. ASSUME NEW r \in Requests, HandlerStep(r) \/ Serve(r)
        PROVE  [StoreNext]_storeVars
    <3>1. TypeOK
      BY DEF HInv, HTypes
    <3>2. CASE CommandStep(r)
      BY <3>1, <3>2, CommandIsStatement
    <3>3. CASE Calls(r) \/ QueryStep(r) \/ Die(r)
      <4>1. [Next]_vars
        BY <3>3 DEF Next
      <4> QED
        BY <3>1, <4>1, OnlyStatements
    <3> QED
      BY <2>3, <3>2, <3>3 DEF HandlerStep, Serve
  <2>4. ASSUME NEW r \in Handlers, Respond(r)
        PROVE  UNCHANGED vars
    BY <2>4, RespondTouchesNoCall
  <2>5. ASSUME NEW k, NEW n, Topic(k, n) \/ ClaimBreaks(k)
        PROVE  UNCHANGED vars
    BY <2>5, TopicTouchesNothing
  <2> QED
    BY <2>1, <2>2, <2>3, <2>4, <2>5, HandlerAssumption DEF HandlersNext, allVars
<1> QED
  BY <1>1, <1>2, HInv_Always, PTL DEF HandlersSpec, StoreSpec

\* So commands that are delivered again, answered twice or abandoned never give
\* two users one name, never put an event into the outbox that does not follow
\* from the ones before it, and never take a user past the lifecycle.
THEOREM HandlersKeepTable ==
    HandlersSpec => /\ []TableConsistent /\ []OutboxReplaysTable
                    /\ []NamesAreFreedFirst /\ RefinesLifecycle
BY HandlersAreStatements, StoreIsConsistent, StoreIsReplayed, StoreFreesNames,
   StoreIsLifecycle, PTL

\* Nor do they make Redis show what PostgreSQL never committed for the user.
THEOREM HandlersKeepReadModel == HandlersSpec => []ReadModelDerived
<1>1. HandlersInit => RowIsVersion /\ ReadModelDerived
  BY InitDerived DEF HandlersInit
<1>2. TypeOK /\ RowIsVersion /\ [StoreNext]_storeVars => RowIsVersion'
  BY RowStaysVersion DEF TypeOK
<1>3. HInv /\ RowIsVersion /\ ReadModelDerived /\ [HandlersNext]_allVars
        => ReadModelDerived'
  <2> SUFFICES ASSUME TypeOK, RowIsVersion, ReadModelDerived, [HandlersNext]_allVars
               PROVE  ReadModelDerived'
    BY DEF HInv, HTypes
  <2>1. CASE UNCHANGED vars
    BY <2>1, StutterDerived
  <2>2. ASSUME NEW r \in Handlers, NEW k \in Commanded, NEW n, Deliver(k, n, r)
        PROVE  ReadModelDerived'
    BY <2>2, FreshCallDerived, HandlerAssumption DEF Deliver, StartCommand, Begin, Refuse
  <2>3. ASSUME NEW r \in Requests, HandlerStep(r) \/ Serve(r)
        PROVE  ReadModelDerived'
    BY <2>3, CallStepDerived DEF HandlerStep, Serve
  <2>4. ASSUME NEW r \in Handlers, Respond(r)
        PROVE  UNCHANGED vars
    BY <2>4, RespondTouchesNoCall
  <2>5. ASSUME NEW k, NEW n, Topic(k, n) \/ ClaimBreaks(k)
        PROVE  UNCHANGED vars
    BY <2>5, TopicTouchesNothing
  <2> QED
    BY <2>1, <2>2, <2>3, <2>4, <2>5, HandlerAssumption DEF HandlersNext, allVars
<1>4. HInv => TypeOK
  BY DEF HInv, HTypes
<1> QED
  BY <1>1, <1>2, <1>3, <1>4, HInv_Always, HandlersAreStatements, PTL
  DEF HandlersSpec, StoreSpec

\* And the previews the gRPC callers are answered beside them carry their URLs,
\* although commands cache previews without one.
THEOREM HandlersKeepURLs ==
    ASSUME "files" \notin Faults
    PROVE  HandlersSpec => []PreviewHasURL
<1> DEFINE Inv == \A q \in Requests : HasURL(call[q])
<1>1. HandlersInit => Inv
  BY DEF HandlersInit, Init, Idle, HasURL, PreviewQueries
<1>2. HInv /\ Inv /\ [HandlersNext]_allVars => Inv'
  <2> SUFFICES ASSUME TypeOK, Inv, [HandlersNext]_allVars PROVE Inv'
    BY DEF HInv, HTypes
  <2>1. ASSUME [Next]_vars PROVE Inv'
    BY <2>1, NextHasURL
  <2>2. ASSUME NEW r \in Handlers, NEW k \in Commanded, NEW n, Deliver(k, n, r)
        PROVE  Inv'
    <3> DEFINE o == Order[k]
    <3>1. StartCommand(r, o.op, o.id, o.name) /\ r \in Requests
      BY <2>2, HandlerAssumption DEF Deliver
    <3> HIDE DEF o
    <3>2. \E pc \in {"rest", "store"}, reply \in {"none", "invalid"} :
             call' = [call EXCEPT ![r] = [op |-> o.op, pc |-> pc, id |-> o.id,
                                          name |-> o.name, user |-> NoUser,
                                          reply |-> reply]]
      BY <3>1 DEF StartCommand, Begin, Refuse
    <3>3. PICK pc \in {"rest", "store"}, reply \in {"none", "invalid"} :
             call' = [call EXCEPT ![r] = [op |-> o.op, pc |-> pc, id |-> o.id,
                                          name |-> o.name, user |-> NoUser,
                                          reply |-> reply]]
      BY <3>2
    <3>4. pc \in {"rest", "store", "lookup", "load", "query"}
      BY <3>3
    <3> QED
      BY <3>1, <3>3, <3>4, FreshCallHasURL
  <2>3. ASSUME NEW r \in Requests, HandlerStep(r) \/ Serve(r)
        PROVE  Inv'
    BY <2>1, <2>3 DEF HandlerStep, Serve, Next
  <2>4. ASSUME NEW r \in Handlers, Respond(r)
        PROVE  UNCHANGED vars
    BY <2>4, RespondTouchesNoCall
  <2>5. ASSUME NEW k, NEW n, Topic(k, n) \/ ClaimBreaks(k)
        PROVE  UNCHANGED vars
    BY <2>5, TopicTouchesNothing
  <2> HIDE DEF Inv
  <2> QED
    BY <2>1, <2>2, <2>3, <2>4, <2>5, HandlerAssumption DEF HandlersNext, allVars
<1>3. Inv => PreviewHasURL
  BY DEF HasURL, PreviewHasURL
<1> HIDE DEF Inv
<1> QED
  BY <1>1, <1>2, <1>3, HInv_Always, PTL DEF HandlersSpec

\* Whatever fails, a command answered with success did change the table, and the
\* outbox reports the change it asked for.
THEOREM SuccessesAreTrue == HandlersSpec => []SuccessIsTrue
<1>1. HInv /\ RInv => SuccessIsTrue
  BY DEF HInv, SuccessesWrote, RInv, SuccessIsTrue
<1> QED
  BY <1>1, HInv_Always, RInv_Always, PTL

\* A failure that is published is one, unless a dependency failed the command.
THEOREM FailuresAreTrue == HandlersSpec => []FailureIsTrue
<1>1. HInv => FailureIsTrue
  BY DEF HInv, Truth, FailureIsTrue
<1> QED
  BY <1>1, HInv_Always, PTL

\* The reason of a failure is true of the user, whatever fails and however often a
\* command is handled: "already taken" names the constraint that refused it, and
\* "not found" is said of a user who was removed or never created.
THEOREM ReasonsTrue == HandlersSpec => []ReasonsAreTrue
<1>1. EInv => ReasonsAreTrue
  BY DEF EInv, Grounded, ReasonsAreTrue
<1> QED
  BY <1>1, EInv_Always, PTL

\* A saga command is put aside for another attempt, or dead-lettered, only after a
\* dependency failed it.
THEOREM DomainErrorsAnswered == HandlersSpec => []DomainErrorsAreAnswered
<1>1. HInv => DomainErrorsAreAnswered
  BY DEF HInv, Truth, DomainErrorsAreAnswered
<1> QED
  BY <1>1, HInv_Always, PTL

\* The handlers rely on no other delivery than EventClaims allows, whatever call
\* fails and whichever handler dies: a command is in one handler at a time, and
\* in none after its handler succeeded.
THEOREM HandlersKeepClaims == HandlersSpec => KeepsEventClaims
<1> DEFINE held == {k \in Commanded : phase[k] \in {"running", "answered", "lost"}}
           done == [k \in Commanded |-> IF phase[k] = "answered" THEN 1 ELSE 0]
<1>1. HandlersInit => Claimed!Init
  BY DEF HandlersInit, Claimed!Init
<1>2. HInv /\ [HandlersNext]_allVars => [Claimed!Next]_<<held, done>>
  <2> SUFFICES ASSUME HInv, [HandlersNext]_allVars
               PROVE  [Claimed!Next]_<<held, done>>
    OBVIOUS
  <2>0. phase \in [Commanded -> Phases]
    BY DEF HInv, HTypes
  <2>1. CASE UNCHANGED phase
    BY <2>1
  <2>2. ASSUME NEW k \in Commanded, NEW next \in Phases,
               phase' = [phase EXCEPT ![k] = next],
               \/ phase[k] = "free" /\ next \in {"free", "running", "lost"}
               \/ phase[k] = "running" /\ next # "running"
        PROVE  [Claimed!Next]_<<held, done>>
    <3>1. CASE phase[k] = "free" /\ next \in {"running", "lost"}
      <4>1. k \notin held /\ held' = held \cup {k} /\ done' = done
        BY <2>0, <2>2, <3>1
      <4> QED
        BY <4>1 DEF Claimed!Next, Claimed!Take
    <3>2. CASE phase[k] = "free" /\ next = "free"
      BY <2>0, <2>2, <3>2
    <3>3. CASE phase[k] = "running" /\ next = "answered"
      <4>1. k \in held /\ done[k] = 0 /\ held' = held
        BY <2>0, <2>2, <3>3
      <4>2. done' = [done EXCEPT ![k] = 1]
        BY <2>0, <2>2, <3>3
      <4> QED
        BY <4>1, <4>2 DEF Claimed!Next, Claimed!Apply
    <3>4. CASE phase[k] = "running" /\ next = "free"
      <4>1. k \in held /\ done[k] = 0 /\ held' = held \ {k} /\ done' = done
        BY <2>0, <2>2, <3>4
      <4> QED
        BY <4>1 DEF Claimed!Next, Claimed!GiveBack
    <3>5. CASE phase[k] = "running" /\ next = "lost"
      BY <2>0, <2>2, <3>5
    <3> QED
      BY <2>2, <3>1, <3>2, <3>3, <3>4, <3>5 DEF Phases
  <2>3. ASSUME NEW r, NEW k \in Commanded, NEW n, Deliver(k, n, r)
        PROVE  [Claimed!Next]_<<held, done>>
    <3>1. phase[k] = "free" /\ phase' = [phase EXCEPT ![k] = "running"]
      BY <2>3 DEF Deliver, Claimable
    <3> QED
      BY <2>2, <3>1 DEF Phases
  <2>4. ASSUME NEW r \in Handlers, Respond(r)
        PROVE  [Claimed!Next]_<<held, done>>
    <3>1. PICK next \in Phases \ {"running"} :
            phase' = [phase EXCEPT ![task[r]] = next]
      BY <2>4
      DEF Respond, PublishResult, PublishFails, RecoveryFails, HandlerDies, Finish,
          Fail, Release, Phases
    <3>2. task[r] \in Commanded /\ phase[task[r]] = "running"
      BY <2>4, HandlerAssumption
      DEF Respond, PublishResult, PublishFails, RecoveryFails, HandlerDies, Returned,
          HInv, HTypes, Slots
    <3> QED
      BY <2>2, <3>1, <3>2
  <2>5. ASSUME NEW k \in Commanded, NEW n, Topic(k, n) \/ ClaimBreaks(k)
        PROVE  [Claimed!Next]_<<held, done>>
    <3>1. CASE UNCHANGED phase
      BY <2>1, <3>1
    <3>2. CASE DeliverRefused(k, n) \/ ClaimBreaks(k)
      <4>1. PICK next \in {"free", "lost"} :
              phase[k] = "free" /\ phase' = [phase EXCEPT ![k] = next]
        BY <3>2 DEF DeliverRefused, ClaimBreaks, Claimable, Release
      <4> QED
        BY <2>2, <4>1 DEF Phases
    <3> QED
      BY <2>5, <3>1, <3>2 DEF Topic, PassOver, ReadAgain
  <2> QED
    BY <2>1, <2>3, <2>4, <2>5 DEF HandlersNext, HandlerStep, Serve, allVars, handlerVars
<1> QED
  BY <1>1, <1>2, HInv_Always, PTL DEF HandlersSpec, KeepsEventClaims, Claimed!Spec
=============================================================================
