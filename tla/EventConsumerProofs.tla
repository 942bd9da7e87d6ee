------------------------- MODULE EventConsumerProofs -------------------------
(***************************************************************************)
(* The theorems about EventConsumer, for every group, topic, kind of event,*)
(* bound and set of faults.  Everything rests on one fact about the topic: *)
(* messages are only ever appended, so a loop keeps holding the message it *)
(* fetched, whatever is published or moved back meanwhile.                 *)
(***************************************************************************)
EXTENDS EventConsumer, TLAPS

USE DEF kafkaVars

-----------------------------------------------------------------------------
\* Types.

LEMMA AppendKeeps ==
    ASSUME NEW s \in Seq(Message), NEW m \in Message
    PROVE  /\ Append(s, m) \in Seq(Message)
           /\ \A i \in DOMAIN s : /\ i \in DOMAIN Append(s, m)
                                  /\ Append(s, m)[i] = s[i]
OBVIOUS

LogKept == \A p \in Partitions : \A i \in DOMAIN log[p] :
               i \in DOMAIN log'[p] /\ log'[p][i] = log[p][i]

LEMMA AppendToKeepsLog ==
    ASSUME KafkaTypeOK, NEW p \in Partitions, NEW e \in Events,
           NEW n \in 1..MaxAttempts, AppendTo(p, e, n)
    PROVE  log' \in [Partitions -> Seq(Message)] /\ LogKept
<1> DEFINE m == [event |-> e, attempt |-> n]
<1>1. m \in Message
  BY DEF Message
<1>2. log' = [log EXCEPT ![p] = Append(log[p], m)]
  BY DEF AppendTo
<1>3. log[p] \in Seq(Message) /\ log \in [Partitions -> Seq(Message)]
  BY DEF KafkaTypeOK
<1>4. QED
  BY <1>1, <1>2, <1>3, AppendKeeps DEF LogKept

\* The message a loop holds is a message of the topic.
LEMMA HeldTyped ==
    ASSUME TypeOK, NEW c \in Consumers, HoldsMessage(c)
    PROVE  /\ Held(c) \in Message
           /\ EventOf(c) \in Events
           /\ Held(c).attempt \in 1..MaxAttempts
           /\ reader[c].part \in Partitions
           /\ reader[c].offset \in Nat
<1>1. /\ reader[c].part \in Partitions
      /\ reader[c].offset \in Nat
      /\ reader[c].offset \in DOMAIN log[reader[c].part]
  BY DEF TypeOK, ReaderOK
<1>2. log[reader[c].part] \in Seq(Message)
  BY <1>1 DEF TypeOK, KafkaTypeOK
<1>3. Held(c) \in Message
  BY <1>1, <1>2 DEF Held
<1>4. QED
  BY <1>1, <1>3 DEF Message, EventOf

\* A loop that does not move keeps its message, and one that moves on with it
\* is well-formed.
LEMMA StayingReader ==
    ASSUME TypeOK, LogKept, NEW c \in Consumers, reader'[c] = reader[c]
    PROVE  ReaderOK(c)'
<1>1. reader[c].part \in Partitions
  BY DEF TypeOK, ReaderOK
<1>2. HoldsMessage(c) => Held(c)' = Held(c)
  BY <1>1 DEF LogKept, Held, TypeOK, ReaderOK
<1>3. QED
  BY <1>1, <1>2 DEF TypeOK, ReaderOK, LogKept, HoldsMessage, At

LEMMA MovingReader ==
    ASSUME TypeOK, NEW c \in Consumers, NEW pc \in Steps, Go(c, pc),
           UNCHANGED log,
           pc \in {"down", "fetch"} \/ HoldsMessage(c),
           pc = "requeue" => Held(c).attempt < MaxAttempts
    PROVE  DOMAIN reader' = Consumers /\ \A d \in Consumers : ReaderOK(d)'
<1>1. LogKept
  BY DEF LogKept
<1>2. /\ reader' = [reader EXCEPT ![c] = [pc |-> pc, part |-> reader[c].part,
                                          offset |-> reader[c].offset]]
      /\ DOMAIN reader = Consumers
  BY DEF Go, TypeOK
<1>3. ASSUME NEW d \in Consumers, d # c
      PROVE  ReaderOK(d)'
  BY <1>1, <1>2, <1>3, StayingReader
<1>4. reader'[c] = [pc |-> pc, part |-> reader[c].part,
                    offset |-> reader[c].offset]
  BY <1>2
<1>5. ReaderOK(c)
  BY DEF TypeOK
<1>6. ReaderOK(c)'
  BY <1>4, <1>5 DEF ReaderOK, HoldsMessage, At, Held
<1>7. QED
  BY <1>2, <1>3, <1>6

LEMMA LeavingTyped ==
    ASSUME TypeOK, NEW c \in Consumers, Leave(c), UNCHANGED log
    PROVE  /\ DOMAIN reader' = Consumers
           /\ \A d \in Consumers : ReaderOK(d)'
           /\ owner' \in [Partitions -> Consumers \cup {Nobody}]
           /\ cancelled' \subseteq Consumers
<1>1. Go(c, "down") /\ "down" \in Steps
  BY DEF Leave, Steps
<1>2. QED
  BY <1>1, MovingReader DEF Leave, TypeOK, KafkaTypeOK

LEMMA FaultTyped ==
    ASSUME TypeOK, NEW kind, NEW c,
           Fault(kind) \/ CallFails(c, kind) \/ CallSucceeds(c)
    PROVE  faults' \in Nat
BY DEF Fault, CallFails, CallRefused, CallBreaks, CallSucceeds, TypeOK

-----------------------------------------------------------------------------

LEMMA OutsideTyped ==
    ASSUME TypeOK,
           \/ \E e \in Events, p \in Partitions : Publish(e, p)
           \/ Rebalance
           \/ \E p \in Partitions : RetryDue(p)
    PROVE  TypeOK'
<1> USE ConsumerAssumption
<1>1. ASSUME NEW p \in Partitions, NEW e \in Events, NEW n \in 1..MaxAttempts,
             AppendTo(p, e, n), UNCHANGED reader
      PROVE  /\ log' \in [Partitions -> Seq(Message)]
             /\ DOMAIN reader' = Consumers
             /\ \A c \in Consumers : ReaderOK(c)'
  BY <1>1, AppendToKeepsLog, StayingReader DEF TypeOK
<1>2. ASSUME NEW e \in Events, NEW p \in Partitions, Publish(e, p)
      PROVE  TypeOK'
  <2>1. 1 \in 1..MaxAttempts
    OBVIOUS
  <2>2. faults' \in Nat
    BY <1>2 DEF Publish, Fault, TypeOK
  <2>3. QED
    BY <1>1, <1>2, <2>1, <2>2 DEF Publish, TypeOK, KafkaTypeOK
<1>3. CASE Rebalance
  <2>1. owner' \in [Partitions -> Consumers \cup {Nobody}]
    BY <1>3 DEF Rebalance, Up
  <2>2. faults' \in Nat
    BY <1>3 DEF Rebalance, Fault, TypeOK
  <2>3. LogKept
    BY <1>3 DEF Rebalance, LogKept
  <2>4. \A c \in Consumers : ReaderOK(c)'
    BY <1>3, <2>3, StayingReader DEF Rebalance
  <2>5. QED
    BY <1>3, <2>1, <2>2, <2>4 DEF Rebalance, TypeOK, KafkaTypeOK
<1>4. ASSUME NEW p \in Partitions, RetryDue(p)
      PROVE  TypeOK'
  <2>1. retry \in Seq(Message) /\ retry # <<>>
    BY <1>4 DEF RetryDue, TypeOK, KafkaTypeOK
  <2>2. /\ Head(retry) \in Message
        /\ Tail(retry) \in Seq(Message)
    BY <2>1
  <2>3. Head(retry).event \in Events /\ Head(retry).attempt \in 1..MaxAttempts
    BY <2>2 DEF Message
  <2>4. retry' = Tail(retry) \/ retry' = retry
    BY <1>4 DEF RetryDue
  <2>7. retry' \in Seq(Message)
    BY <2>1, <2>2, <2>4
  <2>8. faults' \in Nat
    BY <1>4 DEF RetryDue, Fault, TypeOK
  <2>5. AppendTo(p, Head(retry).event, Head(retry).attempt)
    BY <1>4 DEF RetryDue
  <2>6. QED
    BY <1>1, <1>4, <2>3, <2>5, <2>7, <2>8 DEF RetryDue, TypeOK, KafkaTypeOK
<1>5. QED
  BY <1>2, <1>3, <1>4

LEMMA LoopTyped ==
    ASSUME TypeOK, NEW c \in Consumers, Loop(c)
    PROVE  TypeOK'
<1> USE ConsumerAssumption
<1>1. \A pc \in {"down", "fetch", "claim", "handle", "release", "requeue",
                 "deadletter", "commit"} : pc \in Steps
  BY DEF Steps
<1>2. ASSUME NEW k, CallFails(c, k) \/ CallSucceeds(c) \/ CallBreaks(c, k)
      PROVE  faults' \in Nat
  BY <1>2, FaultTyped DEF CallFails
<1>3. ASSUME At(c, "claim") \/ At(c, "handle") \/ At(c, "release")
               \/ At(c, "requeue") \/ At(c, "deadletter") \/ At(c, "commit")
      PROVE  HoldsMessage(c)
  BY <1>3 DEF At, HoldsMessage
<1>4. CASE Join(c)
  <2>1. DOMAIN reader' = Consumers /\ \A d \in Consumers : ReaderOK(d)'
    BY <1>1, <1>4, MovingReader DEF Join
  <2>2. QED
    BY <1>4, <2>1 DEF Join, TypeOK, KafkaTypeOK
<1>5. CASE Fetch(c)
  <2>1. PICK p \in Partitions :
          /\ pos[p] < Len(log[p])
          /\ pos' = [pos EXCEPT ![p] = pos[p] + 1]
          /\ reader' = [reader EXCEPT ![c] =
                           [pc |-> "claim", part |-> p, offset |-> pos[p] + 1]]
    BY <1>5 DEF Fetch
  <2>2. log[p] \in Seq(Message) /\ pos[p] \in Nat
    BY DEF TypeOK, KafkaTypeOK
  <2>3. pos[p] + 1 \in DOMAIN log[p]
    BY <2>1, <2>2
  <2>4. LogKept
    BY <1>5 DEF Fetch, LogKept
  <2>5. \A d \in Consumers \ {c} : ReaderOK(d)'
    BY <2>1, <2>4, StayingReader
  <2>6. reader'[c] = [pc |-> "claim", part |-> p, offset |-> pos[p] + 1]
    BY <2>1 DEF TypeOK
  <2>7. ReaderOK(c)'
    BY <1>1, <1>5, <2>2, <2>3, <2>6 DEF ReaderOK, HoldsMessage, At, Fetch
  <2>8. QED
    BY <1>5, <2>1, <2>2, <2>5, <2>7 DEF Fetch, TypeOK, KafkaTypeOK
<1>6. CASE FetchFails(c)
  BY <1>2, <1>6, LeavingTyped DEF FetchFails, TypeOK, KafkaTypeOK
<1>7. CASE Claim(c)
  <2>1. PICK pc \in {"deadletter", "handle", "fetch"} : Go(c, pc)
    BY <1>7 DEF Claim
  <2>2. EventOf(c) \in Events
    BY <1>3, <1>7, HeldTyped DEF Claim
  <2>3. DOMAIN reader' = Consumers /\ \A d \in Consumers : ReaderOK(d)'
    BY <1>1, <1>3, <1>7, <2>1, MovingReader DEF Claim
  <2>4. QED
    BY <1>2, <1>7, <2>2, <2>3 DEF Claim, TypeOK, KafkaTypeOK
<1>8. CASE ClaimFails(c)
  <2>1. EventOf(c) \in Events
    BY <1>3, <1>8, HeldTyped DEF ClaimFails
  <2>2. faults' \in Nat
    BY <1>2, <1>8 DEF ClaimFails
  <2>3. QED
    BY <1>8, <2>1, <2>2, LeavingTyped DEF ClaimFails, TypeOK, KafkaTypeOK
<1>9. CASE HandlerSucceeds(c)
  <2>1. EventOf(c) \in Events
    BY <1>3, <1>9, HeldTyped DEF HandlerSucceeds
  <2>2. DOMAIN reader' = Consumers /\ \A d \in Consumers : ReaderOK(d)'
    BY <1>1, <1>3, <1>9, MovingReader DEF HandlerSucceeds
  <2>3. QED
    BY <1>9, <2>1, <2>2 DEF HandlerSucceeds, TypeOK, KafkaTypeOK
<1>10. CASE HandlerFails(c)
  <2>1. DOMAIN reader' = Consumers /\ \A d \in Consumers : ReaderOK(d)'
    BY <1>1, <1>3, <1>10, MovingReader DEF HandlerFails
  <2>2. faults' \in Nat
    BY <1>2, <1>10 DEF HandlerFails, TypeOK
  <2>3. QED
    BY <1>10, <2>1, <2>2 DEF HandlerFails, TypeOK, KafkaTypeOK
<1>11. CASE Release(c)
  <2>1. PICK pc \in {"requeue", "deadletter"} :
          Go(c, pc) /\ (pc = "requeue" => Held(c).attempt < MaxAttempts)
    BY <1>11 DEF Release
  <2>2. DOMAIN reader' = Consumers /\ \A d \in Consumers : ReaderOK(d)'
    BY <1>1, <1>3, <1>11, <2>1, MovingReader DEF Release
  <2>3. faults' \in Nat
    BY <1>2, <1>11 DEF Release
  <2>4. claims' \subseteq Events
    BY <1>11 DEF Release, TypeOK
  <2>5. QED
    BY <1>11, <2>2, <2>3, <2>4 DEF Release, TypeOK, KafkaTypeOK
<1>12. ASSUME At(c, "requeue"), Enqueue(c)
       PROVE  retry' \in Seq(Message)
  <2>1. /\ EventOf(c) \in Events
        /\ Held(c).attempt \in 1..MaxAttempts
        /\ Held(c).attempt < MaxAttempts
    BY <1>3, <1>12, HeldTyped DEF TypeOK, ReaderOK
  <2>2. [event |-> EventOf(c), attempt |-> Held(c).attempt + 1] \in Message
    BY <2>1 DEF Message
  <2>3. retry \in Seq(Message)
    BY DEF TypeOK, KafkaTypeOK
  <2>4. QED
    BY <1>12, <2>2, <2>3 DEF Enqueue
<1>13. CASE Requeue(c)
  <2>1. DOMAIN reader' = Consumers /\ \A d \in Consumers : ReaderOK(d)'
    BY <1>1, <1>13, MovingReader DEF Requeue
  <2>2. QED
    BY <1>2, <1>12, <1>13, <2>1 DEF Requeue, TypeOK, KafkaTypeOK
<1>14. CASE RequeueFails(c)
  <2>1. faults' \in Nat
    BY <1>2, <1>14 DEF RequeueFails
  <2>2. retry' \in Seq(Message)
    BY <1>12, <1>14 DEF RequeueFails, TypeOK, KafkaTypeOK
  <2>3. QED
    BY <1>14, <2>1, <2>2, LeavingTyped DEF RequeueFails, TypeOK, KafkaTypeOK
<1>15. CASE DeadLetter(c)
  <2>1. faults' \in Nat
    BY <1>2, <1>15 DEF DeadLetter
  <2>2. Held(c) \in Message
    BY <1>3, <1>15, HeldTyped DEF DeadLetter
  <2>3. dlq' \subseteq Message
    BY <1>15, <2>2 DEF DeadLetter, TypeOK, KafkaTypeOK
  <2>4. QED
    BY <1>15, <2>1, <2>3, LeavingTyped DEF DeadLetter, TypeOK, KafkaTypeOK
<1>16. ASSUME At(c, "commit"), CommitMessage(c)
       PROVE  committed' \in [Partitions -> Nat]
  BY <1>3, <1>16, HeldTyped DEF CommitMessage, TypeOK, KafkaTypeOK
<1>17. CASE Commit(c)
  <2>1. DOMAIN reader' = Consumers /\ \A d \in Consumers : ReaderOK(d)'
    BY <1>1, <1>17, MovingReader DEF Commit
  <2>2. QED
    BY <1>2, <1>16, <1>17, <2>1 DEF Commit, TypeOK, KafkaTypeOK
<1>18. CASE CommitFails(c)
  <2>1. committed' \in [Partitions -> Nat]
    BY <1>16, <1>18 DEF CommitFails, TypeOK, KafkaTypeOK
  <2>2. faults' \in Nat
    BY <1>2, <1>18 DEF CommitFails
  <2>3. QED
    BY <1>18, <2>1, <2>2, LeavingTyped DEF CommitFails, TypeOK, KafkaTypeOK
<1>19. QED
  BY <1>4, <1>5, <1>6, <1>7, <1>8, <1>9, <1>10, <1>11, <1>13, <1>14, <1>15,
     <1>17, <1>18 DEF Loop

LEMMA NextTyped ==
    ASSUME TypeOK, [Next]_vars
    PROVE  TypeOK'
<1>1. ASSUME NEW c \in Consumers, Shutdown(c)
      PROVE  TypeOK'
  <2>1. LogKept
    BY <1>1 DEF Shutdown, LogKept
  <2>2. \A d \in Consumers : ReaderOK(d)'
    BY <1>1, <2>1, StayingReader DEF Shutdown
  <2>3. faults' \in Nat
    BY <1>1, FaultTyped DEF Shutdown
  <2>4. QED
    BY <1>1, <2>2, <2>3 DEF Shutdown, TypeOK, KafkaTypeOK
<1>2. ASSUME NEW c \in Consumers, Crash(c)
      PROVE  TypeOK'
  <2>1. faults' \in Nat
    BY <1>2, FaultTyped DEF Crash
  <2>2. QED
    BY <1>2, <2>1, LeavingTyped DEF Crash, TypeOK, KafkaTypeOK
<1>3. CASE UNCHANGED vars
  BY <1>3 DEF vars, TypeOK, KafkaTypeOK, ReaderOK, HoldsMessage, At, Held
<1>4. QED
  BY <1>1, <1>2, <1>3, OutsideTyped, LoopTyped DEF Next

\* Every variable of the consumer has its type, and a loop that works on a
\* message has its position within the topic.
THEOREM TypeCorrect == Spec => []TypeOK
<1>1. Init => TypeOK
  BY DEF Init, TypeOK, KafkaTypeOK, ReaderOK, HoldsMessage, At, Steps
<1>2. QED
  BY <1>1, NextTyped, PTL DEF Spec

-----------------------------------------------------------------------------
\* Claims.

\* A step that neither starts a handler nor ends one under way, and takes no
\* claim back, keeps the discipline.
LEMMA QuietStep ==
    ASSUME ClaimDiscipline, claims \subseteq claims', UNCHANGED done,
           \A d \in Consumers :
              Working(d)' => Working(d) /\ EventOf(d)' = EventOf(d)
    PROVE  ClaimDiscipline'
BY DEF ClaimDiscipline

LEMMA EventsStay ==
    ASSUME TypeOK, NEW c \in Consumers, NEW pc, Go(c, pc), UNCHANGED log
    PROVE  /\ \A d \in Consumers : EventOf(d)' = EventOf(d)
           /\ \A d \in Consumers \ {c} : Working(d)' = Working(d)
           /\ Working(c)' = (pc \in {"handle", "release"})
<1>1. /\ \A d \in Consumers : /\ reader'[d].part = reader[d].part
                               /\ reader'[d].offset = reader[d].offset
      /\ \A d \in Consumers \ {c} : reader'[d] = reader[d]
      /\ reader'[c].pc = pc
  BY DEF Go, TypeOK
<1>2. QED
  BY <1>1 DEF EventOf, Held, Working

LEMMA IdleReaders ==
    ASSUME TypeOK, LogKept, UNCHANGED reader, NEW d \in Consumers, Working(d)
    PROVE  EventOf(d)' = EventOf(d)
<1>1. HoldsMessage(d)
  BY DEF Working, HoldsMessage
<1>2. /\ reader[d].part \in Partitions
      /\ reader[d].offset \in DOMAIN log[reader[d].part]
  BY <1>1 DEF TypeOK, ReaderOK
<1>3. QED
  BY <1>2 DEF LogKept, EventOf, Held

LEMMA OutsideKeepsLog ==
    ASSUME TypeOK,
           \/ \E e \in Events, p \in Partitions : Publish(e, p)
           \/ Rebalance
           \/ \E p \in Partitions : RetryDue(p)
           \/ \E c \in Consumers : Shutdown(c)
           \/ UNCHANGED vars
    PROVE  LogKept
<1>1. ASSUME NEW e \in Events, NEW p \in Partitions, Publish(e, p)
      PROVE  LogKept
  BY <1>1, AppendToKeepsLog, ConsumerAssumption DEF Publish, TypeOK
<1>2. ASSUME NEW p \in Partitions, RetryDue(p)
      PROVE  LogKept
  <2>1. retry \in Seq(Message) /\ retry # <<>>
    BY <1>2 DEF RetryDue, TypeOK, KafkaTypeOK
  <2>2. Head(retry) \in Message
    BY <2>1
  <2>3. QED
    BY <1>2, <2>2, AppendToKeepsLog DEF RetryDue, TypeOK, Message
<1>3. UNCHANGED log => LogKept
  BY DEF LogKept
<1>4. QED
  BY <1>1, <1>2, <1>3 DEF Rebalance, Shutdown, vars

LEMMA OutsideKeepsDiscipline ==
    ASSUME TypeOK, ClaimDiscipline,
           \/ \E e \in Events, p \in Partitions : Publish(e, p)
           \/ Rebalance
           \/ \E p \in Partitions : RetryDue(p)
           \/ \E c \in Consumers : Shutdown(c)
           \/ UNCHANGED vars
    PROVE  ClaimDiscipline'
<1>1. UNCHANGED <<reader, claims, done>>
  BY DEF Publish, Rebalance, RetryDue, Shutdown, vars
<1>2. LogKept
  BY OutsideKeepsLog
<1>3. \A d \in Consumers : Working(d)' = Working(d)
  BY <1>1 DEF Working
<1>4. QED
  BY <1>1, <1>2, <1>3, IdleReaders, QuietStep

LEMMA LoopKeepsDiscipline ==
    ASSUME TypeOK, ClaimDiscipline, NEW c \in Consumers, Loop(c) \/ Crash(c)
    PROVE  ClaimDiscipline'
<1>1. ASSUME NEW pc \in Steps, Go(c, pc), UNCHANGED <<log, done>>,
             claims \subseteq claims', pc \in {"handle", "release"} => Working(c)
      PROVE  ClaimDiscipline'
  BY <1>1, EventsStay, QuietStep
<1>2. \A pc \in {"down", "fetch", "claim", "handle", "release", "requeue",
                 "deadletter", "commit"} : pc \in Steps
  BY DEF Steps
<1>3. CASE Fetch(c)
  <2>1. \A d \in Consumers \ {c} : reader'[d] = reader[d]
    BY <1>3 DEF Fetch
  <2>2. \A d \in Consumers : Working(d)' => Working(d) /\ EventOf(d)' = EventOf(d)
    BY <1>3, <2>1 DEF Fetch, Working, EventOf, Held, TypeOK
  <2>3. QED
    BY <1>3, <2>2, QuietStep DEF Fetch
<1>4. ASSUME At(c, "claim")
      PROVE  HoldsMessage(c) /\ EventOf(c) \in Events
  BY <1>4, HeldTyped DEF At, HoldsMessage
<1>5. CASE Claim(c)
  <2>1. CASE EventOf(c) \in claims
    BY <1>1, <1>2, <1>5, <2>1 DEF Claim
  <2>2. CASE EventOf(c) \notin claims
    <3>1. PICK e \in Events : e = EventOf(c)
      BY <1>4, <1>5 DEF Claim
    <3>2. /\ claims' = claims \cup {e}
          /\ e \notin claims
          /\ UNCHANGED <<log, done>>
      BY <1>5, <2>2, <3>1 DEF Claim
    <3>3. PICK pc \in {"deadletter", "handle"} : Go(c, pc)
      BY <1>5, <2>2 DEF Claim
    <3>4. /\ \A d \in Consumers : EventOf(d)' = EventOf(d)
          /\ \A d \in Consumers \ {c} : Working(d)' = Working(d)
      BY <3>2, <3>3, EventsStay
    <3>5. QED
      BY <3>1, <3>2, <3>4 DEF ClaimDiscipline
  <2>3. QED
    BY <2>1, <2>2
<1>6. CASE HandlerSucceeds(c)
  <2>1. Working(c) /\ HoldsMessage(c)
    BY <1>6 DEF HandlerSucceeds, At, Working, HoldsMessage
  <2>2. PICK e \in Events : e = EventOf(c)
    BY <2>1, HeldTyped
  <2>3. /\ done' = [done EXCEPT ![e] = done[e] + 1]
        /\ UNCHANGED <<log, claims>>
        /\ Go(c, "commit")
    BY <1>6, <2>2 DEF HandlerSucceeds
  <2>4. /\ \A d \in Consumers : EventOf(d)' = EventOf(d)
        /\ \A d \in Consumers \ {c} : Working(d)' = Working(d)
        /\ ~Working(c)'
    <3>1. Go(c, "commit") /\ UNCHANGED log
      BY <2>3
    <3>2. Working(c)' = ("commit" \in {"handle", "release"})
      BY <3>1, EventsStay
    <3>3. QED
      BY <3>1, <3>2, EventsStay
  <2>5. e \in claims /\ \A d \in Consumers \ {c} : Working(d) => EventOf(d) # e
    BY <2>1, <2>2 DEF ClaimDiscipline
  <2>6. \A x \in Events \ {e} : done'[x] = done[x]
    BY <2>3 DEF TypeOK
  <2>7. \A d \in Consumers : Working(d) => EventOf(d) \in Events
    BY HeldTyped DEF Working, HoldsMessage
  <2>8. QED
    BY <2>3, <2>4, <2>5, <2>6, <2>7 DEF ClaimDiscipline
<1>7. CASE Release(c)
  <2>1. Working(c)
    BY <1>7 DEF Release, At, Working
  <2>2. PICK e : e = EventOf(c)
    OBVIOUS
  <2>3. PICK pc \in {"requeue", "deadletter"} : Go(c, pc)
    BY <1>7 DEF Release
  <2>4. CASE UNCHANGED claims
    BY <1>1, <1>2, <1>7, <2>3, <2>4 DEF Release
  <2>5. CASE claims' = claims \ {e}
    <3>1. /\ \A d \in Consumers : EventOf(d)' = EventOf(d)
          /\ \A d \in Consumers \ {c} : Working(d)' = Working(d)
          /\ ~Working(c)'
      BY <1>7, <2>3, EventsStay DEF Release
    <3>2. done[e] = 0 /\ \A d \in Consumers \ {c} : Working(d) => EventOf(d) # e
      BY <2>1, <2>2 DEF ClaimDiscipline
    <3>3. UNCHANGED done
      BY <1>7 DEF Release
    <3>4. QED
      BY <2>5, <3>1, <3>2, <3>3 DEF ClaimDiscipline
  <2>6. QED
    BY <1>7, <2>2, <2>4, <2>5 DEF Release
<1>8. CASE HandlerFails(c)
  BY <1>1, <1>2, <1>8 DEF HandlerFails, At, Working
<1>9. CASE Join(c) \/ FetchFails(c) \/ ClaimFails(c) \/ Requeue(c)
             \/ RequeueFails(c) \/ DeadLetter(c) \/ Commit(c)
             \/ CommitFails(c) \/ Crash(c)
  <2>1. PICK pc \in {"down", "fetch"} : Go(c, pc)
    BY <1>9 DEF Join, FetchFails, ClaimFails, Requeue, RequeueFails, DeadLetter,
                Commit, CommitFails, Crash, Leave
  <2>2. UNCHANGED <<log, done>> /\ claims \subseteq claims'
    BY <1>9 DEF Join, FetchFails, ClaimFails, Requeue, RequeueFails, DeadLetter,
                Commit, CommitFails, Crash
  <2>3. QED
    BY <1>1, <1>2, <2>1, <2>2
<1>10. QED
  BY <1>3, <1>5, <1>6, <1>7, <1>8, <1>9 DEF Loop

LEMMA DisciplineInvariant == Spec => [](TypeOK /\ ClaimDiscipline)
<1>1. Init => ClaimDiscipline
  BY DEF Init, ClaimDiscipline, Working
<1>2. TypeOK /\ ClaimDiscipline /\ [Next]_vars => ClaimDiscipline'
  BY OutsideKeepsDiscipline, LoopKeepsDiscipline DEF Next
<1>3. QED
  BY <1>1, <1>2, TypeCorrect, PTL DEF Spec

\* No event is ever in two handlers at a time, or in one after it was handled,
\* in a group of any size under any faults.
THEOREM HandlersAreExclusive == Spec => []OneHandlerAtATime
<1>1. TypeOK /\ ClaimDiscipline => OneHandlerAtATime
  BY DEF ClaimDiscipline, OneHandlerAtATime, At, Working
<1>2. QED
  BY <1>1, DisciplineInvariant, PTL

\* The consumers implement EventClaims: an event is applied at most once, and
\* under its claim.
THEOREM ImplementsEventClaims == Spec => RefinesEventClaims
<1>1. Init => Claimed!Init
  BY DEF Init, Claimed!Init
<1>2. ASSUME TypeOK, ClaimDiscipline, [Next]_vars
      PROVE  [Claimed!Next]_<<claims, done>>
  <2>1. CASE UNCHANGED <<claims, done>>
    BY <2>1
  <2>2. ASSUME NEW c \in Consumers, At(c, "claim"), UNCHANGED done,
               claims' = claims \cup {EventOf(c)}
        PROVE  [Claimed!Next]_<<claims, done>>
    <3>1. EventOf(c) \in Events
      BY <1>2, <2>2, HeldTyped DEF At, HoldsMessage
    <3>2. QED
      BY <2>2, <3>1 DEF Claimed!Next, Claimed!Take
  <2>3. ASSUME NEW c \in Consumers, HandlerSucceeds(c)
        PROVE  [Claimed!Next]_<<claims, done>>
    <3>1. PICK e \in Events : e = EventOf(c)
      BY <1>2, <2>3, HeldTyped DEF HandlerSucceeds, At, HoldsMessage
    <3>2. e \in claims /\ done[e] = 0
      BY <1>2, <2>3, <3>1 DEF ClaimDiscipline, HandlerSucceeds, At, Working
    <3>3. done' = [done EXCEPT ![e] = 1] /\ UNCHANGED claims
      BY <2>3, <3>1, <3>2 DEF HandlerSucceeds
    <3>4. QED
      BY <3>2, <3>3 DEF Claimed!Next, Claimed!Apply
  <2>4. ASSUME NEW c \in Consumers, Release(c)
        PROVE  [Claimed!Next]_<<claims, done>>
    <3>1. PICK e \in Events : e = EventOf(c)
      BY <1>2, <2>4, HeldTyped DEF Release, At, HoldsMessage
    <3>2. e \in claims /\ done[e] = 0
      BY <1>2, <2>4, <3>1 DEF ClaimDiscipline, Release, At, Working
    <3>3. UNCHANGED done /\ (claims' = claims \/ claims' = claims \ {e})
      BY <2>4, <3>1 DEF Release
    <3>4. QED
      BY <3>2, <3>3 DEF Claimed!Next, Claimed!GiveBack
  <2>5. ASSUME NEW c \in Consumers, Loop(c)
        PROVE  \/ UNCHANGED <<claims, done>>
               \/ /\ At(c, "claim") /\ UNCHANGED done
                  /\ claims' = claims \cup {EventOf(c)}
               \/ HandlerSucceeds(c)
               \/ Release(c)
    BY <2>5
    DEF Loop, Join, Fetch, FetchFails, Claim, ClaimFails, HandlerFails,
        Requeue, RequeueFails, DeadLetter, Commit, CommitFails
  <2>6. \/ UNCHANGED <<claims, done>>
        \/ \E c \in Consumers : Loop(c)
    BY <1>2 DEF Next, Publish, Rebalance, RetryDue, Shutdown, Crash, vars
  <2>7. QED
    BY <2>1, <2>2, <2>3, <2>4, <2>5, <2>6
<1>3. QED
  BY <1>1, <1>2, DisciplineInvariant, PTL
  DEF Spec, RefinesEventClaims, Claimed!Spec

-----------------------------------------------------------------------------
\* What EventClaims promises, and so what the consumers keep.

AppliedOnce ==
    \A e \in Events : done[e] = 0 \/ (done[e] = 1 /\ e \in claims)

AppliedForGood ==
    [][\A e \in Events : done[e] = 1 => done'[e] = 1 /\ e \in claims']_<<claims, done>>

LEMMA ClaimsKeepTheirPromise == Claimed!Spec => []AppliedOnce /\ AppliedForGood
<1> DEFINE Inv == DOMAIN done = Events /\ AppliedOnce
<1>1. Claimed!Init => Inv
  BY DEF Claimed!Init, AppliedOnce
<1>2. Inv /\ [Claimed!Next]_<<claims, done>> =>
          Inv' /\ \A e \in Events : done[e] = 1 => done'[e] = 1 /\ e \in claims'
  <2> SUFFICES ASSUME Inv, [Claimed!Next]_<<claims, done>>
               PROVE  /\ Inv'
                      /\ \A e \in Events : done[e] = 1 => done'[e] = 1 /\ e \in claims'
    OBVIOUS
  <2>1. ASSUME NEW x \in Events, Claimed!Take(x) \/ Claimed!GiveBack(x)
        PROVE  \A e \in Events : /\ done'[e] = done[e]
                                 /\ done[e] = 1 => e \in claims'
    BY <2>1 DEF Claimed!Take, Claimed!GiveBack, AppliedOnce
  <2>2. ASSUME NEW x \in Events, Claimed!Apply(x)
        PROVE  \A e \in Events : /\ done'[e] = IF e = x THEN 1 ELSE done[e]
                                 /\ done'[e] = 1 => e \in claims'
    BY <2>2 DEF Claimed!Apply, AppliedOnce
  <2>3. DOMAIN done' = Events
    BY DEF Claimed!Next, Claimed!Take, Claimed!Apply, Claimed!GiveBack
  <2> QED
    BY <2>1, <2>2, <2>3 DEF Claimed!Next, AppliedOnce
<1>3. QED
  BY <1>1, <1>2, PTL DEF Claimed!Spec, AppliedForGood

\* However often and to whomever an event is delivered, a handler succeeds on it
\* once at most, and from then on it stays claimed, so that nobody is handed it
\* again (broker.go 97-107).
THEOREM EventsAreAppliedOnce == Spec => []AppliedOnce /\ AppliedForGood
BY ImplementsEventClaims, ClaimsKeepTheirPromise, PTL DEF RefinesEventClaims

-----------------------------------------------------------------------------
\* Claims that outlive their work.

\* A group that nothing but Kafka and its handlers fails.
ReliableGroup == Faults \cap {"db", "crash", "shutdown"} = {}

\* The loop of c has taken a claim it will see through: it works on the event, or
\* puts a message aside it cannot unwrap.
SeesThrough(c) ==
    Working(c) \/ (At(c, "deadletter") /\ Kind[EventOf(c)] = "garbled")

ClaimsAreUsed ==
    \A e \in Events : e \in claims /\ (Kind[e] # "garbled" \/ "kafka" \notin Faults) =>
        Settled(e) \/ \E c \in Consumers : SeesThrough(c) /\ EventOf(c) = e

ClaimsInv == cancelled = {} /\ ClaimsAreUsed

LEMMA ReliableCalls ==
    ASSUME ReliableGroup, cancelled = {}, NEW c \in Consumers
    PROVE  /\ ~CallFails(c, "db") /\ ~CallBreaks(c, "db")
           /\ ~Shutdown(c) /\ ~Crash(c) /\ ~ClaimFails(c)
BY DEF ReliableGroup, CallFails, CallRefused, CallBreaks, Fault, Shutdown, Crash, ClaimFails

LEMMA SettledStays ==
    ASSUME TypeOK, NEW e \in Events, Settled(e), dlq \subseteq dlq',
           done[e] > 0 => done'[e] > 0
    PROVE  Settled(e)'
BY DEF Settled

\* A loop that keeps its message keeps it together with what it is at.
LEMMA SeeingThroughStays ==
    ASSUME TypeOK, LogKept, NEW d \in Consumers, reader'[d] = reader[d],
           SeesThrough(d)
    PROVE  SeesThrough(d)' /\ EventOf(d)' = EventOf(d)
<1>1. HoldsMessage(d)
  BY DEF SeesThrough, Working, At, HoldsMessage
<1>2. /\ reader[d].part \in Partitions
      /\ reader[d].offset \in DOMAIN log[reader[d].part]
  BY <1>1 DEF TypeOK, ReaderOK
<1>3. EventOf(d)' = EventOf(d)
  BY <1>2 DEF LogKept, EventOf, Held
<1>4. QED
  BY <1>3 DEF SeesThrough, Working, At

LEMMA LoopUsesClaims ==
    ASSUME ReliableGroup, TypeOK, ClaimsInv, NEW c \in Consumers, Loop(c)
    PROVE  ClaimsInv'
<1> USE DEF ClaimsInv
<1>1. ~CallFails(c, "db") /\ ~CallBreaks(c, "db") /\ ~ClaimFails(c)
  BY ReliableCalls
<1>2. cancelled' = {}
  BY DEF Loop, Join, Fetch, FetchFails, Claim, ClaimFails, HandlerSucceeds, HandlerFails,
         Release, Requeue, RequeueFails, DeadLetter, Commit, CommitFails, Leave
<1>3. ASSUME NEW pc, Go(c, pc), UNCHANGED log
      PROVE  /\ \A d \in Consumers : EventOf(d)' = EventOf(d)
             /\ \A d \in Consumers \ {c} : SeesThrough(d)' = SeesThrough(d)
             /\ SeesThrough(c)' = \/ pc \in {"handle", "release"}
                                  \/ pc = "deadletter" /\ Kind[EventOf(c)] = "garbled"
  <2>1. /\ \A d \in Consumers : EventOf(d)' = EventOf(d)
        /\ \A d \in Consumers \ {c} : reader'[d] = reader[d]
        /\ reader'[c].pc = pc
    BY <1>3, EventsStay DEF Go, TypeOK
  <2>2. QED
    BY <2>1 DEF SeesThrough, Working, At
<1>4. ASSUME NEW pc, Go(c, pc), UNCHANGED <<log, done, claims>>, dlq \subseteq dlq',
             \A x \in Events : SeesThrough(c) /\ x = EventOf(c) =>
                 \/ SeesThrough(c)' \/ Settled(x)'
                 \/ ~(Kind[x] # "garbled" \/ "kafka" \notin Faults)
      PROVE  ClaimsAreUsed'
  <2>1. /\ \A d \in Consumers : EventOf(d)' = EventOf(d)
        /\ \A d \in Consumers \ {c} : SeesThrough(d)' = SeesThrough(d)
    BY <1>3, <1>4
  <2>2. \A e \in Events : Settled(e) => Settled(e)'
    BY <1>4, SettledStays
  <2>3. QED
    BY <1>4, <2>1, <2>2 DEF ClaimsAreUsed
<1>5. CASE Fetch(c)
  <2>1. LogKept /\ ~SeesThrough(c) /\ \A d \in Consumers \ {c} : reader'[d] = reader[d]
    BY <1>5 DEF Fetch, LogKept, SeesThrough, Working, At
  <2>2. \A d \in Consumers : SeesThrough(d) => SeesThrough(d)' /\ EventOf(d)' = EventOf(d)
    BY <2>1, SeeingThroughStays
  <2>3. \A e \in Events : Settled(e) => Settled(e)'
    BY <1>5, SettledStays DEF Fetch
  <2>4. QED
    BY <1>2, <1>5, <2>2, <2>3 DEF Fetch, ClaimsAreUsed
<1>6. CASE Claim(c)
  <2>1. ~SeesThrough(c) /\ UNCHANGED <<log, done, dlq>>
    BY <1>6 DEF Claim, At, SeesThrough, Working
  <2>2. CASE EventOf(c) \in claims
    BY <1>2, <1>4, <1>6, <2>1, <2>2 DEF Claim
  <2>3. CASE EventOf(c) \notin claims
    <3>1. PICK pc \in {"deadletter", "handle"} :
             Go(c, pc) /\ pc = IF Kind[EventOf(c)] = "garbled" THEN "deadletter" ELSE "handle"
      BY <1>6, <2>3 DEF Claim
    <3>2. claims' = claims \cup {EventOf(c)}
      BY <1>6, <2>3 DEF Claim
    <3>3. /\ \A d \in Consumers : EventOf(d)' = EventOf(d)
          /\ \A d \in Consumers \ {c} : SeesThrough(d)' = SeesThrough(d)
          /\ SeesThrough(c)'
      BY <1>3, <2>1, <3>1
    <3>4. \A e \in Events : Settled(e) => Settled(e)'
      BY <2>1, SettledStays
    <3>5. QED
      BY <1>2, <2>1, <3>2, <3>3, <3>4 DEF ClaimsAreUsed
  <2>4. QED
    BY <2>2, <2>3
<1>7. CASE HandlerSucceeds(c)
  <2>1. PICK e \in Events : e = EventOf(c)
    BY <1>7, HeldTyped DEF HandlerSucceeds, At, HoldsMessage
  <2>2. /\ Go(c, "commit")
        /\ done' = [done EXCEPT ![e] = done[e] + 1]
        /\ UNCHANGED <<log, claims, dlq>>
    BY <1>7, <2>1 DEF HandlerSucceeds
  <2>3. done'[e] > 0 /\ \A x \in Events : done[x] > 0 => done'[x] > 0
    BY <2>2 DEF TypeOK
  <2>4. Settled(e)' /\ \A x \in Events : Settled(x) => Settled(x)'
    BY <2>2, <2>3, SettledStays DEF Settled
  <2>5. /\ \A d \in Consumers : EventOf(d)' = EventOf(d)
        /\ \A d \in Consumers \ {c} : SeesThrough(d)' = SeesThrough(d)
    BY <1>3, <2>2
  <2>6. QED
    BY <1>2, <2>1, <2>2, <2>4, <2>5 DEF ClaimsAreUsed
<1>8. CASE Release(c)
  <2>1. PICK pc \in {"requeue", "deadletter"} : Go(c, pc)
    BY <1>8 DEF Release
  <2>2. claims' = claims \ {EventOf(c)} /\ UNCHANGED <<log, done, dlq>>
    BY <1>1, <1>8 DEF Release
  <2>3. /\ \A d \in Consumers : EventOf(d)' = EventOf(d)
        /\ \A d \in Consumers \ {c} : SeesThrough(d)' = SeesThrough(d)
    BY <1>3, <2>1, <2>2
  <2>4. \A e \in Events : Settled(e) => Settled(e)'
    BY <2>2, SettledStays
  <2>5. QED
    BY <1>2, <2>2, <2>3, <2>4 DEF ClaimsAreUsed
<1>9. CASE HandlerFails(c)
  <2>1. Go(c, "release") /\ UNCHANGED <<log, done, claims, dlq>>
    BY <1>9 DEF HandlerFails
  <2>2. SeesThrough(c)'
    BY <1>3, <2>1
  <2>3. QED
    BY <1>2, <1>4, <2>1, <2>2
<1>10. CASE Join(c) \/ FetchFails(c) \/ Requeue(c) \/ RequeueFails(c)
              \/ Commit(c) \/ CommitFails(c)
  <2>1. PICK pc \in {"down", "fetch"} : Go(c, pc)
    BY <1>10 DEF Join, FetchFails, Requeue, RequeueFails, Commit, CommitFails, Leave
  <2>2. UNCHANGED <<log, done, claims, dlq>> /\ ~SeesThrough(c)
    BY <1>10 DEF Join, FetchFails, Requeue, RequeueFails, Commit, CommitFails,
                SeesThrough, Working, At
  <2>3. QED
    BY <1>2, <1>4, <2>1, <2>2
<1>11. CASE DeadLetter(c)
  <2>1. Go(c, "down") /\ UNCHANGED <<log, done, claims>> /\ dlq \subseteq dlq'
    BY <1>11 DEF DeadLetter, Leave
  <2>2. SeesThrough(c) => Kind[EventOf(c)] = "garbled"
    BY <1>11 DEF DeadLetter, SeesThrough, Working, At
  <2>3. "kafka" \notin Faults => dlq' = dlq \cup {Held(c)}
    BY <1>11 DEF DeadLetter, CallFails, CallRefused, CallBreaks, Fault
  <2>4. "kafka" \notin Faults => \A x \in Events : x = EventOf(c) => Settled(x)'
    BY <2>3 DEF Settled, EventOf
  <2>5. QED
    BY <1>2, <1>4, <2>1, <2>2, <2>4
<1>12. QED
  BY <1>1, <1>5, <1>6, <1>7, <1>8, <1>9, <1>10, <1>11 DEF Loop

LEMMA ClaimsInv_Always ==
    ASSUME ReliableGroup
    PROVE  Spec => [](TypeOK /\ ClaimsInv)
<1>1. Init => ClaimsInv
  BY DEF Init, ClaimsInv, ClaimsAreUsed
<1>2. ASSUME TypeOK, ClaimsInv, [Next]_vars
      PROVE  ClaimsInv'
  <2>1. CASE \/ \E e \in Events, p \in Partitions : Publish(e, p)
             \/ Rebalance
             \/ \E p \in Partitions : RetryDue(p)
             \/ UNCHANGED vars
    <3>1. UNCHANGED <<reader, claims, done, dlq, cancelled>>
      BY <2>1 DEF Publish, Rebalance, RetryDue, vars
    <3>2. \A d \in Consumers :
             SeesThrough(d) => SeesThrough(d)' /\ EventOf(d)' = EventOf(d)
      BY <1>2, <2>1, <3>1, OutsideKeepsLog, SeeingThroughStays
    <3>3. \A e \in Events : Settled(e) => Settled(e)'
      BY <1>2, <3>1, SettledStays
    <3>4. QED
      BY <1>2, <3>1, <3>2, <3>3 DEF ClaimsInv, ClaimsAreUsed
  <2>2. \A c \in Consumers : ~Shutdown(c) /\ ~Crash(c)
    BY <1>2, ReliableCalls DEF ClaimsInv
  <2>3. QED
    BY <1>2, <2>1, <2>2, LoopUsesClaims DEF Next
<1>3. QED
  BY <1>1, <1>2, TypeCorrect, PTL DEF Spec

\* A group whose processes live and whose database answers leaves no claim
\* behind: what is claimed is settled or worked on.
THEOREM ReliableGroupFreesClaims ==
    ASSUME ReliableGroup
    PROVE  Spec => []NoOrphanedClaim
<1>1. TypeOK /\ ClaimsInv => NoOrphanedClaim
  BY DEF ClaimsInv, ClaimsAreUsed, NoOrphanedClaim, WorkedOn, SeesThrough, Working, At,
         HoldsMessage
<1>2. QED
  BY <1>1, ClaimsInv_Always, PTL

-----------------------------------------------------------------------------
\* Losses.

Lone == \A c, d \in Consumers : c = d

\* One consumer, whatever fails; or a group whose processes live and which Kafka
\* answers, whatever else fails.  In a group that Kafka or death may strike, one
\* consumer passes over what another fails to put aside.
SteadyGroup == Lone \/ Faults \cap {"kafka", "crash", "shutdown"} = {}

Holds(c, p, i) == HoldsMessage(c) /\ reader[c].part = p /\ reader[c].offset = i

\* Message i of partition p will be fetched, or is fetched again if its holder
\* is stopped: it is not committed, the owner of p is not past it, unless it is
\* what the owner holds, and nobody holds a later one to commit.
Front(p, i) ==
    /\ i > committed[p]
    /\ owner[p] # Nobody /\ pos[p] >= i => Holds(owner[p], p, i)
    /\ \A c \in Consumers :
          HoldsMessage(c) /\ reader[c].part = p => i >= reader[c].offset

InRetry(e) == \E i \in DOMAIN retry : retry[i].event = e
InLog(e) == \E p \in Partitions : \E i \in DOMAIN log[p] :
                Front(p, i) /\ log[p][i].event = e
Kept(e) == Settled(e) \/ InRetry(e) \/ InLog(e)

\* What is not kept is in the hands of a group that sees it through, or has left
\* a claim that nobody works under.
Firm(c) == HoldsMessage(c) /\ ~At(c, "claim")
Bound(e) ==
    \/ e \in claims /\ ~\E c \in Consumers : Working(c) /\ EventOf(c) = e
    \/ ~Lone /\ \E c \in Consumers : Firm(c) /\ EventOf(c) = e

Positions ==
    \A p \in Partitions : committed[p] <= Len(log[p]) /\ pos[p] <= Len(log[p])

HandledBeforeCommit ==
    \A c \in Consumers : At(c, "commit") => done[EventOf(c)] > 0

LossInv ==
    /\ Positions
    /\ HandledBeforeCommit
    /\ ~Lone => cancelled = {}
    /\ \A e \in Events : Published(e) => Kept(e) \/ Bound(e)

LEMMA KeptStays ==
    ASSUME TypeOK, LogKept, NEW e \in Events, Kept(e),
           done[e] > 0 => done'[e] > 0, dlq \subseteq dlq', InRetry(e) => InRetry(e)',
           \A p \in Partitions : \A i \in DOMAIN log[p] :
              Front(p, i) /\ log[p][i].event = e => Front(p, i)' \/ Kept(e)'
    PROVE  Kept(e)'
<1>1. Settled(e) => Settled(e)'
  BY SettledStays
<1>2. InLog(e) => InLog(e)' \/ Kept(e)'
  BY DEF InLog, LogKept
<1>3. QED
  BY <1>1, <1>2 DEF Kept

\* Where the loops are is all that matters to what the group holds.
LEMMA BoundStays ==
    ASSUME TypeOK, LogKept, UNCHANGED <<reader, claims>>, NEW e \in Events, Bound(e)
    PROVE  Bound(e)'
<1>1. \A c \in Consumers : HoldsMessage(c) =>
         /\ reader[c].part \in Partitions
         /\ reader[c].offset \in DOMAIN log[reader[c].part]
  BY DEF TypeOK, ReaderOK
<1>2. \A c \in Consumers : HoldsMessage(c) => EventOf(c)' = EventOf(c)
  BY <1>1 DEF LogKept, EventOf, Held
<1>3. \A c \in Consumers : /\ Working(c)' = Working(c)
                           /\ Working(c) => HoldsMessage(c)
                           /\ Firm(c)' = Firm(c)
                           /\ Firm(c) => HoldsMessage(c)
  BY DEF Working, Firm, HoldsMessage, At
<1>4. QED
  BY <1>2, <1>3 DEF Bound, Lone

\* What is appended to the topic is kept there, and disturbs nothing.
LEMMA AppendKept ==
    ASSUME TypeOK, LossInv, NEW q \in Partitions, NEW x \in Events,
           NEW n \in 1..MaxAttempts, AppendTo(q, x, n),
           UNCHANGED <<committed, pos, owner, reader, cancelled, claims, dlq, done>>,
           \A e \in Events : InRetry(e) => InRetry(e)' \/ e = x
    PROVE  LossInv'
<1> USE DEF LossInv
<1> DEFINE m == [event |-> x, attempt |-> n]
           last == Len(log[q]) + 1
<1>1. /\ m \in Message
      /\ log' = [log EXCEPT ![q] = Append(log[q], m)]
      /\ log \in [Partitions -> Seq(Message)]
      /\ log[q] \in Seq(Message)
  BY DEF AppendTo, Message, TypeOK, KafkaTypeOK
<1>2. LogKept
  BY AppendToKeepsLog DEF TypeOK
<1>3. /\ last \in DOMAIN log'[q]
      /\ log'[q][last] = m
      /\ \A i \in DOMAIN log'[q] : i = last \/ (i \in DOMAIN log[q] /\ log'[q][i] = log[q][i])
      /\ Len(log'[q]) = last
      /\ \A p \in Partitions \ {q} : log'[p] = log[p]
  <2>1. log'[q] = Append(log[q], m)
    BY <1>1
  <2>2. QED
    BY <1>1, <2>1
<1>4. Positions'
  BY <1>1, <1>3 DEF Positions, TypeOK, KafkaTypeOK
<1>5. \A c \in Consumers : HoldsMessage(c) =>
        /\ reader[c].part \in Partitions
        /\ reader[c].offset \in DOMAIN log[reader[c].part]
  BY DEF TypeOK, ReaderOK
<1>6. \A c \in Consumers : HoldsMessage(c) => EventOf(c)' = EventOf(c)
  BY <1>2, <1>5 DEF LogKept, EventOf, Held
<1>7. \A p \in Partitions, i \in Nat : Front(p, i)' = Front(p, i)
  BY DEF Front, Holds, HoldsMessage
<1>8. Front(q, last)
  <2>1. last \in Nat /\ last > committed[q] /\ last > pos[q] /\ pos[q] \in Nat
    BY <1>1 DEF Positions, TypeOK, KafkaTypeOK
  <2>2. \A c \in Consumers :
           HoldsMessage(c) /\ reader[c].part = q => last >= reader[c].offset
    BY <1>1, <1>5
  <2>3. QED
    BY <2>1, <2>2 DEF Front
<1>9. Kept(x)'
  <2>1. last \in Nat
    BY <1>1
  <2>2. InLog(x)'
    BY <1>3, <1>7, <1>8, <2>1 DEF InLog
  <2>3. QED
    BY <2>2 DEF Kept
<1>10. ASSUME NEW e \in Events, Kept(e)
       PROVE  Kept(e)'
  <2>1. \A p \in Partitions : \A i \in DOMAIN log[p] : Front(p, i) => Front(p, i)'
    <3>1. \A p \in Partitions : \A i \in DOMAIN log[p] : i \in Nat
      BY <1>1
    <3>2. QED
      BY <1>7, <3>1
  <2>2. done[e] > 0 => done'[e] > 0
    OBVIOUS
  <2>3. CASE e = x
    BY <1>9, <2>3
  <2>4. CASE e # x
    BY <1>2, <1>10, <2>1, <2>2, <2>4, KeptStays
  <2>5. QED
    BY <2>3, <2>4
<1>11. ASSUME NEW e \in Events, Published(e)'
       PROVE  Kept(e)' \/ Bound(e)'
  <2>1. e = x \/ Published(e)
    BY <1>3, <1>11 DEF Published
  <2>2. Bound(e) => Bound(e)'
    BY <1>2, BoundStays
  <2>3. QED
    BY <1>9, <1>10, <2>1, <2>2
<1>12. HandledBeforeCommit'
  BY <1>6 DEF HandledBeforeCommit, At, HoldsMessage
<1>13. QED
  BY <1>4, <1>11, <1>12 DEF Lone

\* A rebalance returns to what is committed, before every front.
LEMMA RebalanceKept ==
    ASSUME TypeOK, LossInv, UNCHANGED <<log, committed, reader, claims, retry, dlq, done>>,
           pos' = committed \/ UNCHANGED <<pos, owner>>,
           Lone \/ UNCHANGED cancelled
    PROVE  LossInv'
<1> USE DEF LossInv
<1>1. \A p \in Partitions : \A i \in DOMAIN log[p] : i \in Nat
  BY DEF TypeOK, KafkaTypeOK
<1>2. \A p \in Partitions : committed[p] \in Nat /\ pos[p] \in Nat
  BY DEF TypeOK, KafkaTypeOK
<1>3. \A p \in Partitions : \A i \in DOMAIN log[p] : Front(p, i) => Front(p, i)'
  BY <1>1, <1>2 DEF Front, Holds, HoldsMessage
<1>4. LogKept
  BY DEF LogKept
<1>5. \A e \in Events : Kept(e) => Kept(e)'
  BY <1>3, <1>4, KeptStays DEF InRetry
<1>6. \A e \in Events : Bound(e) => Bound(e)'
  BY <1>4, BoundStays
<1>7. Positions'
  BY DEF Positions
<1>8. \A e \in Events : Published(e)' => Kept(e)' \/ Bound(e)'
  BY <1>5, <1>6 DEF Published
<1>9. HandledBeforeCommit'
  BY DEF HandledBeforeCommit, At, EventOf, Held
<1>10. QED
  BY <1>7, <1>8, <1>9 DEF Lone

\* The owner of a partition fetches at its foremost front, and holds it.
LEMMA FetchKept ==
    ASSUME TypeOK, LossInv, NEW c \in Consumers, Fetch(c)
    PROVE  LossInv'
<1> USE DEF LossInv
<1>1. PICK q \in Partitions :
        /\ owner[q] = c
        /\ pos[q] < Len(log[q])
        /\ pos' = [pos EXCEPT ![q] = pos[q] + 1]
        /\ reader' = [reader EXCEPT ![c] = [pc |-> "claim", part |-> q,
                                            offset |-> pos[q] + 1]]
  BY DEF Fetch
<1>2. UNCHANGED <<log, committed, owner, retry, dlq, cancelled, claims, done>>
  BY DEF Fetch
<1> DEFINE next == pos[q] + 1
<1>3. ~HoldsMessage(c) /\ ~Working(c) /\ ~Firm(c)
  BY DEF Fetch, At, HoldsMessage, Working, Firm
<1>4. /\ HoldsMessage(c)'
      /\ reader'[c].part = q
      /\ reader'[c].offset = next
      /\ ~At(c, "commit")' /\ ~Working(c)'
  BY <1>1 DEF HoldsMessage, TypeOK, At, Working
<1> DEFINE Others == Consumers \ {c}
<1>5. \A d \in Others : /\ reader'[d] = reader[d]
                         /\ HoldsMessage(d)' = HoldsMessage(d)
                         /\ Working(d)' = Working(d)
                         /\ Firm(d)' = Firm(d)
                         /\ EventOf(d)' = EventOf(d)
                         /\ At(d, "commit")' = At(d, "commit")
  BY <1>1, <1>2 DEF HoldsMessage, Working, Firm, EventOf, Held, At, TypeOK
<1>6. /\ next \in Nat
      /\ next <= Len(log[q])
      /\ \A p \in Partitions : committed[p] \in Nat /\ pos[p] \in Nat
      /\ \A p \in Partitions : \A i \in DOMAIN log[p] : i \in Nat
      /\ c # Nobody
  BY <1>1, ConsumerAssumption DEF TypeOK, KafkaTypeOK
<1>7. ASSUME NEW p \in Partitions, NEW i \in DOMAIN log[p], Front(p, i)
      PROVE  Front(p, i)'
  <2>1. i > committed'[p]
    BY <1>2, <1>7 DEF Front
  <2>2. owner[p] = c => i > pos[p]
    BY <1>3, <1>6, <1>7 DEF Front, Holds
  <2>3. CASE p = q
    <3>1. i >= next /\ pos'[p] = next
      BY <1>1, <1>6, <2>2, <2>3 DEF TypeOK, KafkaTypeOK
    <3>2. pos'[p] >= i => Holds(c, p, i)'
      BY <1>4, <1>6, <2>3, <3>1 DEF Holds
    <3>3. \A d \in Consumers : HoldsMessage(d)' /\ reader'[d].part = p => i >= reader'[d].offset
      BY <1>4, <1>5, <1>7, <3>1 DEF Front
    <3>4. owner'[p] = c
      BY <1>1, <1>2, <2>3
    <3>5. QED
      BY <2>1, <3>2, <3>3, <3>4 DEF Front
  <2>4. CASE p # q
    <3>1. pos'[p] = pos[p] /\ owner'[p] = owner[p]
      BY <1>1, <1>2, <2>4 DEF TypeOK, KafkaTypeOK
    <3>2. \A d \in Others : Holds(d, p, i)' = Holds(d, p, i)
      BY <1>5 DEF Holds
    <3>3. owner[p] # Nobody /\ pos[p] >= i => owner[p] \in Others /\ Holds(owner[p], p, i)
      BY <1>6, <1>7, <2>2 DEF Front, TypeOK, KafkaTypeOK
    <3>4. \A d \in Consumers : HoldsMessage(d)' /\ reader'[d].part = p => i >= reader'[d].offset
      BY <1>4, <1>5, <1>7, <2>4 DEF Front
    <3>5. QED
      BY <2>1, <3>1, <3>2, <3>3, <3>4 DEF Front
  <2>5. QED
    BY <2>3, <2>4
<1>8. LogKept
  BY <1>2 DEF LogKept
<1>9. \A e \in Events : Kept(e) => Kept(e)'
  BY <1>2, <1>7, <1>8, KeptStays DEF InRetry
<1>10. \A e \in Events : Bound(e) => Bound(e)'
  BY <1>2, <1>3, <1>4, <1>5 DEF Bound, Lone
<1>11. \A e \in Events : Published(e)' => Kept(e)' \/ Bound(e)'
  BY <1>2, <1>9, <1>10 DEF Published
<1>12. Positions'
  BY <1>1, <1>2, <1>6 DEF Positions, TypeOK, KafkaTypeOK
<1>13. HandledBeforeCommit'
  BY <1>2, <1>4, <1>5 DEF HandledBeforeCommit
<1>14. QED
  BY <1>2, <1>11, <1>12, <1>13 DEF Lone

\* Only who goes on to fetch, or commits, lets a front go: that of its message.
LEMMA FrontStays ==
    ASSUME TypeOK, NEW c \in Consumers, NEW pc, Go(c, pc), UNCHANGED pos,
           pc \notin {"down", "fetch"} => HoldsMessage(c),
           UNCHANGED committed \/ (HoldsMessage(c) /\ CommitMessage(c)),
           \/ UNCHANGED owner
           \/ \A p \in Partitions : owner'[p] # c /\ owner'[p] \in {owner[p], Nobody},
           NEW p \in Partitions, NEW i \in DOMAIN log[p], Front(p, i)
    PROVE  \/ Front(p, i)'
           \/ /\ HoldsMessage(c) /\ log[p][i].event = EventOf(c)
              /\ ~UNCHANGED committed \/ (pc \in {"down", "fetch"} /\ owner'[p] = c)
<1>1. /\ reader'[c].pc = pc
      /\ reader'[c].part = reader[c].part
      /\ reader'[c].offset = reader[c].offset
      /\ \A d \in Consumers \ {c} : reader'[d] = reader[d]
  BY DEF Go, TypeOK
<1>2. /\ committed[p] \in Nat /\ pos[p] \in Nat /\ i \in Nat
      /\ HoldsMessage(c) => reader[c].offset \in Nat
      /\ owner[p] \in Consumers \cup {Nobody}
      /\ Nobody \notin Consumers
  BY ConsumerAssumption DEF TypeOK, KafkaTypeOK, ReaderOK
<1>3. Holds(c, p, i) => log[p][i].event = EventOf(c)
  BY DEF Holds, EventOf, Held
<1>4. SUFFICES ASSUME ~(/\ Holds(c, p, i)
                        /\ \/ ~UNCHANGED committed
                           \/ pc \in {"down", "fetch"} /\ owner'[p] = c)
               PROVE  Front(p, i)'
  BY <1>3 DEF Holds
<1>5. i > committed'[p]
  <2>1. CASE UNCHANGED committed
    BY <2>1 DEF Front
  <2>2. CASE HoldsMessage(c) /\ CommitMessage(c) /\ ~UNCHANGED committed
    <3>1. committed'[p] = IF reader[c].part = p THEN reader[c].offset ELSE committed[p]
      BY <2>2 DEF CommitMessage, TypeOK, KafkaTypeOK
    <3>2. reader[c].part = p => i >= reader[c].offset /\ i # reader[c].offset
      BY <1>4, <2>2 DEF Front, Holds
    <3>3. QED
      BY <1>2, <2>2, <3>1, <3>2 DEF Front
  <2>3. QED
    BY <2>1, <2>2
<1>6. (owner[p] # Nobody /\ pos[p] >= i => Holds(owner[p], p, i))'
  <2> SUFFICES ASSUME owner'[p] # Nobody, pos'[p] >= i
               PROVE  Holds(owner[p], p, i)'
    OBVIOUS
  <2>1. PICK d \in Consumers : d = owner[p] /\ d = owner'[p]
    BY <1>2
  <2>2. Holds(d, p, i)
    BY <2>1 DEF Front
  <2>3. d = c => pc \notin {"down", "fetch"}
    BY <1>4, <2>1, <2>2
  <2>4. Holds(d, p, i)'
    BY <1>1, <2>2, <2>3 DEF Holds, HoldsMessage
  <2>5. QED
    BY <2>1, <2>4 DEF Holds, HoldsMessage
<1>7. \A d \in Consumers : HoldsMessage(d)' /\ reader'[d].part = p => i >= reader'[d].offset
  BY <1>1 DEF Front, HoldsMessage
<1>8. QED
  BY <1>5, <1>6, <1>7 DEF Front

\* A step of the loop: what is kept stays so, and so does what is bound, but for
\* the event the step is about, if it says so.
LEMMA StepKept ==
    ASSUME TypeOK, LossInv, NEW c \in Consumers, NEW pc, Go(c, pc), pc # "claim",
           UNCHANGED <<log, pos>>,
           pc \notin {"down", "fetch"} => HoldsMessage(c),
           UNCHANGED committed \/ (HoldsMessage(c) /\ CommitMessage(c)),
           \/ UNCHANGED owner
           \/ \A p \in Partitions : owner'[p] # c /\ owner'[p] \in {owner[p], Nobody},
           \A e \in Events : done[e] > 0 => done'[e] > 0,
           dlq \subseteq dlq',
           \A e \in Events : InRetry(e) => InRetry(e)',
           \A e \in Events : e \in claims => e \in claims' \/ (Working(c) /\ e = EventOf(c)),
           pc \in {"handle", "release"} => Working(c) \/ EventOf(c) \notin claims,
           HandledBeforeCommit',
           ~Lone => cancelled' = {},
           \A e \in Events :
              /\ HoldsMessage(c) /\ e = EventOf(c)
              /\ \/ ~UNCHANGED committed
                 \/ /\ pc \in {"down", "fetch"}
                    /\ (\E p \in Partitions : owner'[p] = c) \/ (Firm(c) /\ ~Lone)
              => Kept(e)' \/ Bound(e)'
    PROVE  LossInv'
<1> USE DEF LossInv
<1>1. /\ \A d \in Consumers : EventOf(d)' = EventOf(d)
      /\ \A d \in Consumers \ {c} : Working(d)' = Working(d)
      /\ Working(c)' = (pc \in {"handle", "release"})
  BY EventsStay
<1>2. /\ \A d \in Consumers \ {c} : Firm(d)' = Firm(d)
      /\ Firm(c)' = (pc \notin {"down", "fetch"})
  BY DEF Firm, HoldsMessage, At, Go, TypeOK
<1>3. Positions'
  <2>1. /\ \A p \in Partitions : Len(log[p]) \in Nat
        /\ HoldsMessage(c) => /\ reader[c].part \in Partitions
                              /\ reader[c].offset <= Len(log[reader[c].part])
    BY DEF TypeOK, KafkaTypeOK, ReaderOK
  <2>2. CASE UNCHANGED committed
    BY <2>2 DEF Positions
  <2>3. CASE HoldsMessage(c) /\ CommitMessage(c)
    BY <2>1, <2>3 DEF Positions, CommitMessage, TypeOK, KafkaTypeOK
  <2>4. QED
    BY <2>2, <2>3
<1>4. LogKept
  BY DEF LogKept
<1>5. ASSUME NEW e \in Events, Kept(e)
      PROVE  Kept(e)' \/ Bound(e)'
  <2>1. \A p \in Partitions : \A i \in DOMAIN log[p] :
           Front(p, i) /\ log[p][i].event = e => Front(p, i)' \/ Kept(e)' \/ Bound(e)'
    BY FrontStays
  <2>2. CASE Bound(e)'
    BY <2>2
  <2>3. CASE ~Bound(e)'
    BY <1>4, <1>5, <2>1, <2>3, KeptStays
  <2>4. QED
    BY <2>2, <2>3
<1>6. ASSUME NEW e \in Events, Bound(e)
      PROVE  Kept(e)' \/ Bound(e)'
  <2>1. CASE e \in claims /\ ~\E d \in Consumers : Working(d) /\ EventOf(d) = e
    <3>1. e \in claims'
      BY <2>1
    <3>2. ~\E d \in Consumers : Working(d)' /\ EventOf(d)' = e
      BY <1>1, <2>1
    <3>3. QED
      BY <3>1, <3>2 DEF Bound
  <2>2. CASE ~Lone /\ \E d \in Consumers : Firm(d) /\ EventOf(d) = e
    <3>1. PICK d \in Consumers : Firm(d) /\ EventOf(d) = e
      BY <2>2
    <3>2. CASE Firm(d)'
      BY <1>1, <2>2, <3>1, <3>2 DEF Bound, Lone
    <3>3. CASE ~Firm(d)'
      <4>1. d = c /\ pc \in {"down", "fetch"} /\ HoldsMessage(c)
        BY <1>2, <3>1, <3>3 DEF Firm
      <4>2. QED
        BY <2>2, <3>1, <4>1
    <3>4. QED
      BY <3>2, <3>3
  <2>3. QED
    BY <1>6, <2>1, <2>2 DEF Bound
<1>7. \A e \in Events : Published(e)' => Kept(e)' \/ Bound(e)'
  BY <1>5, <1>6 DEF Published
<1>8. QED
  BY <1>3, <1>7 DEF Lone
LEMMA LoopKept ==
    ASSUME SteadyGroup, TypeOK, LossInv, NEW c \in Consumers, Loop(c) \/ Crash(c)
    PROVE  LossInv'
<1> USE DEF LossInv
<1>1. /\ ~Lone => /\ ~CallFails(c, "kafka") /\ ~CallBreaks(c, "kafka")
                  /\ ~Crash(c)
      /\ DOMAIN reader = Consumers
  BY DEF SteadyGroup, TypeOK, CallFails, CallRefused, CallBreaks, Fault, Crash
<1>2. ASSUME NEW pc, Go(c, pc), UNCHANGED log
      PROVE  EventOf(c)' = EventOf(c) /\ reader'[c].pc = pc
  BY <1>1, <1>2 DEF Go, EventOf, Held
<1>3. \A pc : At(c, pc) /\ pc \notin {"down", "fetch"} =>
         HoldsMessage(c) /\ EventOf(c) \in Events
  BY HeldTyped DEF At, HoldsMessage
<1>4. ASSUME NEW pc, Go(c, pc), UNCHANGED log, NEW d \in Consumers \ {c}
      PROVE  EventOf(d)' = EventOf(d) /\ At(d, "commit")' = At(d, "commit")
  BY <1>1, <1>4 DEF Go, EventOf, Held, At
<1>5. ASSUME NEW pc, Go(c, pc), UNCHANGED <<log, done>>, pc # "commit"
      PROVE  HandledBeforeCommit'
  BY <1>1, <1>2, <1>5, <1>4 DEF HandledBeforeCommit, At
<1>6. ASSUME Leave(c)
      PROVE  /\ Go(c, "down")
             /\ \A p \in Partitions : owner'[p] # c /\ owner'[p] \in {owner[p], Nobody}
             /\ ~Lone => cancelled' = {}
  BY <1>6, ConsumerAssumption DEF Leave, TypeOK, KafkaTypeOK
<1>7. retry \in Seq(Message)
  BY DEF TypeOK, KafkaTypeOK
<1>8. UNCHANGED retry => \A e \in Events : InRetry(e) => InRetry(e)'
  BY DEF InRetry
<1>9. ASSUME At(c, "requeue"), Enqueue(c)
      PROVE  /\ \A e \in Events : InRetry(e) => InRetry(e)'
             /\ \A e \in Events : e = EventOf(c) => InRetry(e)'
  <2> DEFINE m == [event |-> EventOf(c), attempt |-> Held(c).attempt + 1]
  <2>1. m \in Message
    <3>1. /\ EventOf(c) \in Events
          /\ Held(c).attempt \in 1..MaxAttempts
          /\ Held(c).attempt < MaxAttempts
      BY <1>3, <1>9, HeldTyped DEF TypeOK, ReaderOK
    <3>2. QED
      BY <3>1, ConsumerAssumption DEF Message
  <2>2. retry' = Append(retry, m) /\ m.event = EventOf(c)
    BY <1>9 DEF Enqueue
  <2>3. /\ \A i \in DOMAIN retry : i \in DOMAIN retry' /\ retry'[i] = retry[i]
        /\ Len(retry) + 1 \in DOMAIN retry'
        /\ retry'[Len(retry) + 1] = m
    BY <1>7, <2>1, <2>2
  <2>4. QED
    BY <2>2, <2>3 DEF InRetry
\* A loop that ends without a commit and, in a group, holding nothing it took a
\* claim for.
<1>10. ASSUME Leave(c), UNCHANGED <<log, committed, pos, done>>, claims \subseteq claims',
              dlq \subseteq dlq', \A e \in Events : InRetry(e) => InRetry(e)',
              Firm(c) => Lone
       PROVE  LossInv'
  <2>1. HandledBeforeCommit'
    BY <1>5, <1>6, <1>10
  <2>2. QED
    BY <1>6, <1>10, <2>1, StepKept
<1>11. CASE Join(c)
  <2>1. ~HoldsMessage(c)
    BY <1>11 DEF Join, At, HoldsMessage
  <2>2. /\ Go(c, "fetch")
        /\ UNCHANGED <<log, committed, pos, owner, cancelled, claims, retry, dlq, done>>
    BY <1>11 DEF Join
  <2>3. HandledBeforeCommit'
    BY <1>5, <2>2
  <2>4. QED
    BY <1>8, <2>1, <2>2, <2>3, StepKept
<1>12. CASE FetchFails(c) \/ ClaimFails(c)
  <2>1. ~Firm(c)
    BY <1>12 DEF FetchFails, ClaimFails, At, Firm, HoldsMessage
  <2>2. Leave(c) /\ UNCHANGED <<log, committed, pos, retry, dlq, done>>
    BY <1>12 DEF FetchFails, ClaimFails
  <2>3. claims \subseteq claims'
    BY <1>12 DEF FetchFails, ClaimFails
  <2>4. QED
    BY <1>8, <1>10, <2>1, <2>2, <2>3
<1>13. CASE Claim(c)
  <2>1. HoldsMessage(c) /\ EventOf(c) \in Events /\ ~Working(c) /\ ~Firm(c)
    BY <1>3, <1>13 DEF Claim, At, Working, Firm
  <2>2. UNCHANGED <<log, committed, pos, owner, cancelled, retry, dlq, done>>
    BY <1>13 DEF Claim
  <2>3. CASE EventOf(c) \notin claims
    <3>1. PICK pc \in {"deadletter", "handle"} : Go(c, pc)
      BY <1>13, <2>3 DEF Claim
    <3>2. claims \subseteq claims'
      BY <1>13, <2>3 DEF Claim
    <3>3. HandledBeforeCommit'
      BY <1>5, <2>2, <3>1
    <3>4. QED
      BY <1>8, <2>1, <2>2, <2>3, <3>1, <3>2, <3>3, StepKept
  <2>4. CASE EventOf(c) \in claims
    <3>1. Go(c, "fetch") /\ UNCHANGED claims
      BY <1>13, <2>4 DEF Claim
    <3>2. /\ \A d \in Consumers : EventOf(d)' = EventOf(d)
          /\ \A d \in Consumers \ {c} : Working(d)' = Working(d)
          /\ ~Working(c)'
      <4>1. Working(c)' = ("fetch" \in {"handle", "release"})
        BY <2>2, <3>1, EventsStay
      <4>2. QED
        BY <2>2, <3>1, <4>1, EventsStay
    <3>3. \A d \in Consumers \ {c} : Working(d) => Firm(d)'
      BY <1>1, <3>1 DEF Go, Working, Firm, HoldsMessage, At
    <3>4. \A e \in Events : e = EventOf(c) => Bound(e)'
      BY <2>4, <3>1, <3>2, <3>3 DEF Bound, Lone
    <3>5. HandledBeforeCommit'
      BY <1>5, <2>2, <3>1
    <3>6. QED
      BY <1>8, <2>1, <2>2, <3>1, <3>4, <3>5, StepKept
  <2>5. QED
    BY <2>3, <2>4
<1>14. CASE HandlerSucceeds(c)
  <2>1. HoldsMessage(c)
    BY <1>3, <1>14 DEF HandlerSucceeds
  <2>2. PICK e \in Events : e = EventOf(c)
    BY <1>3, <1>14 DEF HandlerSucceeds
  <2>3. /\ Go(c, "commit")
        /\ done' = [done EXCEPT ![e] = done[e] + 1]
        /\ UNCHANGED <<log, committed, pos, owner, cancelled, claims, retry, dlq>>
    BY <1>14, <2>2 DEF HandlerSucceeds
  <2>4. done'[e] > 0 /\ \A x \in Events : done[x] > 0 => done'[x] > 0
    BY <2>3 DEF TypeOK
  <2>5. EventOf(c)' = e
    BY <1>2, <2>2, <2>3
  <2>6. HandledBeforeCommit'
    <3>1. \A d \in Consumers : At(d, "commit") => EventOf(d) \in Events
      BY HeldTyped DEF At, HoldsMessage
    <3>2. QED
      BY <1>4, <2>3, <2>4, <2>5, <3>1 DEF HandledBeforeCommit
  <2>7. QED
    BY <1>8, <2>1, <2>3, <2>4, <2>6, StepKept
<1>15. CASE HandlerFails(c)
  <2>1. HoldsMessage(c) /\ Working(c)
    BY <1>3, <1>15 DEF HandlerFails, At, Working
  <2>2. /\ Go(c, "release")
        /\ UNCHANGED <<log, committed, pos, owner, cancelled, claims, retry, dlq, done>>
    BY <1>15 DEF HandlerFails
  <2>3. HandledBeforeCommit'
    BY <1>5, <2>2
  <2>4. QED
    BY <1>8, <2>1, <2>2, <2>3, StepKept
<1>16. CASE Release(c)
  <2>1. HoldsMessage(c) /\ Working(c)
    BY <1>3, <1>16 DEF Release, At, Working
  <2>2. PICK pc \in {"requeue", "deadletter"} : Go(c, pc)
    BY <1>16 DEF Release
  <2>3. UNCHANGED <<log, committed, pos, owner, cancelled, retry, dlq, done>>
    BY <1>16 DEF Release
  <2>4. \A e \in Events : e \in claims => e \in claims' \/ e = EventOf(c)
    BY <1>16 DEF Release
  <2>5. HandledBeforeCommit'
    BY <1>5, <2>2, <2>3
  <2>6. QED
    BY <1>8, <2>1, <2>2, <2>3, <2>4, <2>5, StepKept
<1>17. CASE Requeue(c)
  <2>1. HoldsMessage(c) /\ ~Working(c) /\ At(c, "requeue")
    BY <1>3, <1>17 DEF Requeue, At, Working
  <2>2. /\ Go(c, "fetch")
        /\ UNCHANGED <<log, committed, pos, owner, cancelled, claims, dlq, done>>
        /\ Enqueue(c)
    BY <1>17 DEF Requeue
  <2>3. \A e \in Events : e = EventOf(c) => Kept(e)'
    BY <1>9, <2>1, <2>2 DEF Kept
  <2>4. HandledBeforeCommit'
    BY <1>5, <2>2
  <2>5. QED
    BY <1>9, <2>1, <2>2, <2>3, <2>4, StepKept
<1>18. CASE RequeueFails(c) \/ (DeadLetter(c) /\ Lone) \/ Crash(c)
  <2>1. Lone
    BY <1>1, <1>18 DEF RequeueFails
  <2>2. Leave(c) /\ UNCHANGED <<log, committed, pos, claims, done>>
    BY <1>18 DEF RequeueFails, DeadLetter, Crash
  <2>3. dlq \subseteq dlq' /\ \A e \in Events : InRetry(e) => InRetry(e)'
    BY <1>8, <1>9, <1>18 DEF RequeueFails, DeadLetter, Crash
  <2>4. QED
    BY <1>10, <2>1, <2>2, <2>3
<1>19. CASE DeadLetter(c) /\ ~Lone
  <2>1. HoldsMessage(c) /\ ~Working(c)
    BY <1>3, <1>19 DEF DeadLetter, At, Working
  <2>2. Leave(c) /\ UNCHANGED <<log, committed, pos, retry, claims, done>>
    BY <1>19 DEF DeadLetter
  <2>3. dlq' = dlq \cup {Held(c)}
    BY <1>1, <1>19 DEF DeadLetter
  <2>4. \A e \in Events : e = EventOf(c) => Kept(e)'
    BY <2>3 DEF Kept, Settled, EventOf
  <2>5. HandledBeforeCommit'
    BY <1>5, <1>6, <2>2
  <2>6. QED
    BY <1>6, <1>8, <2>1, <2>2, <2>3, <2>4, <2>5, StepKept
<1>20. CASE Commit(c) \/ CommitFails(c)
  <2>1. HoldsMessage(c) /\ At(c, "commit") /\ ~Working(c)
    BY <1>3, <1>20 DEF Commit, CommitFails, At, Working
  <2>2. UNCHANGED <<log, pos, retry, dlq, claims, done>>
    BY <1>20 DEF Commit, CommitFails
  <2>3. CommitMessage(c) \/ UNCHANGED committed
    BY <1>20 DEF Commit, CommitFails
  <2>4. PICK pc \in {"down", "fetch"} : Go(c, pc)
    BY <1>6, <1>20 DEF Commit, CommitFails
  <2>5. /\ \/ UNCHANGED owner
           \/ \A p \in Partitions : owner'[p] # c /\ owner'[p] \in {owner[p], Nobody}
        /\ ~Lone => cancelled' = {}
    BY <1>6, <1>20 DEF Commit, CommitFails
  <2>6. \A e \in Events : e = EventOf(c) => Kept(e)'
    BY <2>1, <2>2 DEF Kept, Settled, HandledBeforeCommit
  <2>7. HandledBeforeCommit'
    BY <1>5, <2>2, <2>4
  <2>8. QED
    BY <1>8, <2>1, <2>2, <2>3, <2>4, <2>5, <2>6, <2>7, StepKept
<1>21. QED
  BY <1>1, <1>11, <1>12, <1>13, <1>14, <1>15, <1>16, <1>17, <1>18, <1>19, <1>20, FetchKept
  DEF Loop

LEMMA OutsideKept ==
    ASSUME TypeOK, LossInv,
           \/ \E e \in Events, p \in Partitions : Publish(e, p)
           \/ \E p \in Partitions : RetryDue(p)
    PROVE  LossInv'
<1>1. ASSUME NEW e \in Events, NEW p \in Partitions, Publish(e, p)
      PROVE  LossInv'
  <2>1. \A x \in Events : InRetry(x) => InRetry(x)'
    BY <1>1 DEF Publish, InRetry
  <2>2. 1 \in 1..MaxAttempts
    BY ConsumerAssumption
  <2>3. QED
    BY <1>1, <2>1, <2>2, AppendKept DEF Publish
<1>2. ASSUME NEW p \in Partitions, RetryDue(p)
      PROVE  LossInv'
  <2>1. retry \in Seq(Message) /\ retry # <<>>
    BY <1>2 DEF RetryDue, TypeOK, KafkaTypeOK
  <2>2. Head(retry) \in Message
    BY <2>1
  <2>3. PICK x \in Events, n \in 1..MaxAttempts :
           x = Head(retry).event /\ n = Head(retry).attempt
    BY <2>2 DEF Message
  <2>4. ASSUME NEW e \in Events, InRetry(e), e # x
        PROVE  InRetry(e)'
    <3>1. PICK i \in DOMAIN retry : retry[i].event = e
      BY <2>4 DEF InRetry
    <3>2. i \in 2..Len(retry)
      BY <2>1, <2>3, <2>4, <3>1
    <3>3. /\ i - 1 \in DOMAIN Tail(retry)
          /\ Tail(retry)[i - 1] = retry[i]
      BY <2>1, <3>2
    <3>4. QED
      BY <1>2, <3>1, <3>3 DEF RetryDue, InRetry
  <2>5. QED
    BY <1>2, <2>3, <2>4, AppendKept DEF RetryDue
<1>3. QED
  BY <1>1, <1>2

LEMMA LossInv_Always ==
    ASSUME SteadyGroup
    PROVE  Spec => []LossInv
<1>1. Init => LossInv
  BY DEF Init, LossInv, Positions, HandledBeforeCommit, At, Published
<1>2. ASSUME TypeOK, LossInv, [Next]_vars
      PROVE  LossInv'
  <2>1. CASE Rebalance \/ UNCHANGED vars
    BY <1>2, <2>1, RebalanceKept DEF Rebalance, vars
  <2>2. ASSUME NEW c \in Consumers, Shutdown(c)
        PROVE  LossInv'
    <3>1. Lone
      BY <2>2 DEF SteadyGroup, Shutdown, Fault
    <3>2. QED
      BY <1>2, <2>2, <3>1, RebalanceKept DEF Shutdown
  <2>3. QED
    BY <1>2, <2>1, <2>2, LoopKept, OutsideKept DEF Next
<1>3. QED
  BY <1>1, <1>2, TypeCorrect, PTL DEF Spec

\* What is lost leaves a trace: an event that is in neither topic, not settled
\* and not worked on has a row in processed_events.
UnclaimedIsKept ==
    \A e \in Events : Published(e) =>
        Waiting(e) \/ Settled(e) \/ WorkedOn(e) \/ e \in claims

\* The claim is the one thing that loses an event, for a lone consumer whatever
\* fails - crashes, shutdowns, the database, Kafka - and for a group of any size
\* whose processes live and which Kafka answers: passing messages over without a
\* commit, committing over them, and the release whose error is dropped never
\* lose one that has no claim, nor one whose envelope cannot be read (broker.go
\* 97-136).  The events that are lost can therefore be listed from the rows of
\* processed_events.
THEOREM UnclaimedEventsAreKept ==
    ASSUME SteadyGroup
    PROVE  Spec => []UnclaimedIsKept
<1>1. LossInv => UnclaimedIsKept
  <2> SUFFICES ASSUME LossInv, NEW e \in Events, Kept(e) \/ Bound(e),
                      ~WorkedOn(e), ~Settled(e), e \notin claims
               PROVE  Waiting(e)
    BY DEF LossInv, UnclaimedIsKept
  <2>1. ~Bound(e)
    BY DEF Bound, Firm, WorkedOn
  <2>2. QED
    BY <2>1 DEF Kept, InRetry, InLog, Front, Waiting
<1>2. QED
  BY <1>1, LossInv_Always, PTL

\* Processes live, the database answers, and Kafka does too, unless there is only
\* one consumer: then no other can pass over what it holds.
ShelteredGroup == ReliableGroup /\ ("kafka" \in Faults => Lone)

\* While processes live and the database answers, no event whose envelope can be
\* read is lost: not by a group of any size, however it is rebalanced under its
\* handlers, while Kafka answers; and not by a lone consumer that Kafka fails as
\* well.  With both, one consumer can pass over what another fails to put aside
\* (broker.go 104-105, 121-136).
THEOREM ShelteredGroupLosesNothing ==
    ASSUME ShelteredGroup
    PROVE  Spec => []NothingIsLost
<1>1. SteadyGroup /\ ReliableGroup
  BY DEF ShelteredGroup, ReliableGroup, SteadyGroup
<1>2. Spec => [](UnclaimedIsKept /\ NoOrphanedClaim)
  <2>1. Spec => []UnclaimedIsKept
    BY <1>1, UnclaimedEventsAreKept
  <2>2. Spec => []NoOrphanedClaim
    BY <1>1, ReliableGroupFreesClaims
  <2>3. QED
    BY <2>1, <2>2, PTL
<1>3. UnclaimedIsKept /\ NoOrphanedClaim => NothingIsLost
  BY DEF UnclaimedIsKept, NoOrphanedClaim, NothingIsLost
<1>4. QED
  BY <1>2, <1>3, PTL

\* The same of every event, and of every claim.
HealthyGroup == ReliableGroup /\ "kafka" \notin Faults

NothingAtAllIsLost ==
    \A e \in Events :
        /\ Published(e) => Waiting(e) \/ Settled(e) \/ WorkedOn(e)
        /\ e \in claims => Settled(e) \/ WorkedOn(e)

\* While Kafka answers as well, a message that cannot be unwrapped is not lost
\* either, although it keeps the claim it took: it reaches the dead letters
\* (broker.go 108-114).
THEOREM HealthyGroupLosesNothing ==
    ASSUME HealthyGroup
    PROVE  Spec => []NothingAtAllIsLost
<1>1. SteadyGroup /\ ReliableGroup /\ "kafka" \notin Faults
  BY DEF HealthyGroup, ReliableGroup, SteadyGroup
<1>2. UnclaimedIsKept /\ ClaimsInv => NothingAtAllIsLost
  BY <1>1 DEF UnclaimedIsKept, ClaimsInv, ClaimsAreUsed, NothingAtAllIsLost, WorkedOn,
              SeesThrough, Working, At, HoldsMessage
<1>3. Spec => []UnclaimedIsKept
  BY <1>1, UnclaimedEventsAreKept
<1>4. Spec => [](TypeOK /\ ClaimsInv)
  BY <1>1, ClaimsInv_Always
<1>5. QED
  BY <1>2, <1>3, <1>4, PTL
-----------------------------------------------------------------------------
\* Attempts.

\* Copies of e with the attempts 1 to n are in the topic: each was delivered, or
\* will be.
Tried(e, n) ==
    \A k \in 1..n : \E p \in Partitions : \E i \in DOMAIN log[p] :
        log[p][i] = [event |-> e, attempt |-> k]

\* The code has no further attempt for the message.
Final(m) == Kind[m.event] \in {"garbled", "rejected"} \/ m.attempt = MaxAttempts

DeadLettersWereTried == \A m \in dlq : Tried(m.event, m.attempt) /\ Final(m)

CountInv ==
    /\ \A p \in Partitions : \A i \in DOMAIN log[p] :
          Tried(log[p][i].event, log[p][i].attempt)
    /\ \A i \in DOMAIN retry : Tried(retry[i].event, retry[i].attempt - 1)
    /\ DeadLettersWereTried
    /\ \A c \in Consumers : At(c, "deadletter") => Final(Held(c))

LEMMA TriedStays ==
    ASSUME LogKept, NEW e, NEW n, Tried(e, n)
    PROVE  Tried(e, n)'
BY DEF Tried, LogKept

\* Who waits at the dead letters keeps waiting there for the same message.
LEMMA FinalStays ==
    ASSUME TypeOK, LogKept, CountInv, NEW d \in Consumers, reader'[d] = reader[d]
    PROVE  At(d, "deadletter")' => Final(Held(d))'
<1> SUFFICES ASSUME At(d, "deadletter")
             PROVE  Final(Held(d))'
  BY DEF At
<1>1. /\ reader[d].part \in Partitions
      /\ reader[d].offset \in DOMAIN log[reader[d].part]
  BY DEF TypeOK, ReaderOK, At, HoldsMessage
<1>2. Held(d)' = Held(d)
  BY <1>1 DEF LogKept, Held
<1>3. QED
  BY <1>2 DEF CountInv, Final

LEMMA AppendCounted ==
    ASSUME TypeOK, CountInv, NEW q \in Partitions, NEW x \in Events,
           NEW n \in 1..MaxAttempts, AppendTo(q, x, n), Tried(x, n - 1),
           UNCHANGED <<reader, dlq>>,
           \A i \in DOMAIN retry' : \E j \in DOMAIN retry : retry'[i] = retry[j]
    PROVE  CountInv'
<1> USE DEF CountInv
<1> DEFINE m == [event |-> x, attempt |-> n]
           last == Len(log[q]) + 1
<1>1. /\ m \in Message
      /\ log' = [log EXCEPT ![q] = Append(log[q], m)]
      /\ log \in [Partitions -> Seq(Message)]
      /\ log[q] \in Seq(Message)
  BY DEF AppendTo, Message, TypeOK, KafkaTypeOK
<1>2. LogKept
  BY AppendToKeepsLog DEF TypeOK
<1>3. /\ last \in DOMAIN log'[q]
      /\ log'[q][last] = m
      /\ \A i \in DOMAIN log'[q] : i = last \/ (i \in DOMAIN log[q] /\ log'[q][i] = log[q][i])
      /\ \A p \in Partitions \ {q} : log'[p] = log[p]
  <2>1. log'[q] = Append(log[q], m)
    BY <1>1
  <2>2. QED
    BY <1>1, <2>1
<1>4. Tried(x, n)'
  <2>1. Tried(x, n - 1)'
    BY <1>2, TriedStays
  <2>2. \A k \in 1..n : k = n \/ k \in 1..(n - 1)
    OBVIOUS
  <2>3. QED
    BY <1>3, <2>1, <2>2 DEF Tried
<1>5. ASSUME NEW p \in Partitions, NEW i \in DOMAIN log'[p]
      PROVE  Tried(log[p][i].event, log[p][i].attempt)'
  <2>1. CASE p = q /\ i = last
    BY <1>3, <1>4, <2>1
  <2>2. CASE ~(p = q /\ i = last)
    <3>1. i \in DOMAIN log[p] /\ log'[p][i] = log[p][i]
      BY <1>3, <2>2
    <3>2. Tried(log[p][i].event, log[p][i].attempt)
      BY <3>1
    <3>3. PICK e, k : e = log[p][i].event /\ k = log[p][i].attempt
      OBVIOUS
    <3>4. Tried(e, k)'
      BY <1>2, <3>2, <3>3, TriedStays
    <3>5. QED
      BY <3>1, <3>3, <3>4
  <2>3. QED
    BY <2>1, <2>2
<1>6. ASSUME NEW i \in DOMAIN retry'
      PROVE  Tried(retry[i].event, retry[i].attempt - 1)'
  <2>1. PICK j \in DOMAIN retry : retry'[i] = retry[j]
    OBVIOUS
  <2>2. PICK e, k : e = retry[j].event /\ k = retry[j].attempt - 1
    OBVIOUS
  <2>3. Tried(e, k)'
    BY <1>2, <2>1, <2>2, TriedStays
  <2>4. QED
    BY <2>1, <2>2, <2>3
<1>7. DeadLettersWereTried'
  <2>1. \A y \in dlq : Tried(y.event, y.attempt)'
    BY <1>2, TriedStays DEF DeadLettersWereTried
  <2>2. QED
    BY <2>1 DEF DeadLettersWereTried, Final
<1>8. \A d \in Consumers : At(d, "deadletter")' => Final(Held(d))'
  BY <1>2, FinalStays
<1>9. QED
  BY <1>5, <1>6, <1>7, <1>8

\* A step that leaves the topic alone.
LEMMA StillCounted ==
    ASSUME TypeOK, CountInv, UNCHANGED log,
           \A i \in DOMAIN retry' :
              \/ \E j \in DOMAIN retry : retry'[i] = retry[j]
              \/ Tried(retry'[i].event, retry'[i].attempt - 1),
           \A y \in dlq' : y \in dlq \/ (Tried(y.event, y.attempt) /\ Final(y)),
           \A d \in Consumers : reader'[d] = reader[d] \/ (At(d, "deadletter")' => Final(Held(d))')
    PROVE  CountInv'
<1> USE DEF CountInv
<1>1. LogKept
  BY DEF LogKept
<1>2. \A e, n : Tried(e, n)' = Tried(e, n)
  BY DEF Tried
<1>3. \A i \in DOMAIN retry' : Tried(retry'[i].event, retry'[i].attempt - 1)
  OBVIOUS
<1>4. DeadLettersWereTried'
  BY <1>2 DEF DeadLettersWereTried, Final
<1>5. \A d \in Consumers : At(d, "deadletter")' => Final(Held(d))'
  BY <1>1, FinalStays
<1>6. QED
  BY <1>2, <1>3, <1>4, <1>5

LEMMA LoopCounted ==
    ASSUME TypeOK, CountInv, NEW c \in Consumers, Loop(c) \/ Crash(c)
    PROVE  CountInv'
<1>1. ASSUME NEW pc, Go(c, pc), UNCHANGED log
      PROVE  /\ \A d \in Consumers \ {c} : reader'[d] = reader[d]
             /\ reader'[c].pc = pc
             /\ Held(c)' = Held(c)
  BY <1>1 DEF Go, Held, TypeOK
<1>2. ASSUME NEW pc, Go(c, pc), UNCHANGED <<log, retry, dlq>>,
             pc = "deadletter" => Final(Held(c))
      PROVE  CountInv'
  BY <1>1, <1>2, StillCounted DEF At, Final
<1>3. \A pc : At(c, pc) /\ pc \notin {"down", "fetch"} =>
         /\ HoldsMessage(c)
         /\ Held(c) \in Message
         /\ Held(c).attempt \in 1..MaxAttempts
         /\ Tried(EventOf(c), Held(c).attempt)
  <2>1. HoldsMessage(c) => Tried(EventOf(c), Held(c).attempt)
    BY DEF CountInv, TypeOK, ReaderOK, EventOf, Held
  <2>2. QED
    BY <2>1, HeldTyped DEF At, HoldsMessage
<1>4. CASE Fetch(c)
  <2>1. \A d \in Consumers : reader'[d] = reader[d] \/ ~At(d, "deadletter")'
    BY <1>4 DEF Fetch, At, TypeOK
  <2>2. QED
    BY <1>4, <2>1, StillCounted DEF Fetch, CountInv
<1>5. CASE Claim(c)
  <2>1. PICK pc : Go(c, pc) /\ (pc = "deadletter" => Kind[EventOf(c)] = "garbled")
    BY <1>5 DEF Claim
  <2>2. QED
    BY <1>2, <1>5, <2>1 DEF Claim, Final, EventOf
<1>6. CASE Release(c)
  <2>1. PICK pc : /\ Go(c, pc)
                  /\ pc = "deadletter" => \/ Kind[EventOf(c)] = "rejected"
                                          \/ ~(Held(c).attempt < MaxAttempts)
    BY <1>6 DEF Release
  <2>2. pc = "deadletter" => Final(Held(c))
    BY <1>3, <1>6, <2>1, ConsumerAssumption DEF Release, Final, EventOf
  <2>3. QED
    BY <1>2, <1>6, <2>1, <2>2 DEF Release
<1>7. CASE Join(c) \/ FetchFails(c) \/ ClaimFails(c) \/ HandlerSucceeds(c)
             \/ HandlerFails(c) \/ Commit(c) \/ CommitFails(c) \/ Crash(c)
  <2>1. PICK pc : Go(c, pc) /\ pc # "deadletter"
    BY <1>7 DEF Join, FetchFails, ClaimFails, HandlerSucceeds, HandlerFails, Commit,
                CommitFails, Crash, Leave
  <2>2. UNCHANGED <<log, retry, dlq>>
    BY <1>7 DEF Join, FetchFails, ClaimFails, HandlerSucceeds, HandlerFails, Commit,
                CommitFails, Crash
  <2>3. QED
    BY <1>2, <2>1, <2>2
<1>8. CASE Requeue(c) \/ RequeueFails(c)
  <2>1. At(c, "requeue") /\ UNCHANGED <<log, dlq>> /\ (UNCHANGED retry \/ Enqueue(c))
    BY <1>8 DEF Requeue, RequeueFails
  <2>2. PICK pc \in {"down", "fetch"} : Go(c, pc)
    BY <1>8 DEF Requeue, RequeueFails, Leave
  <2>3. ASSUME NEW i \in DOMAIN retry'
        PROVE  \/ \E j \in DOMAIN retry : retry'[i] = retry[j]
               \/ Tried(retry'[i].event, retry'[i].attempt - 1)
    <3>1. CASE Enqueue(c)
      <4> DEFINE m == [event |-> EventOf(c), attempt |-> Held(c).attempt + 1]
      <4>1. Held(c).attempt \in 1..MaxAttempts /\ Held(c).attempt < MaxAttempts
        BY <1>3, <2>1 DEF TypeOK, ReaderOK
      <4>2. EventOf(c) \in Events
        BY <1>3, <2>1, HeldTyped
      <4>3. m \in Message /\ m.attempt - 1 = Held(c).attempt /\ m.event = EventOf(c)
        BY <4>1, <4>2, ConsumerAssumption DEF Message
      <4>4. retry' = Append(retry, m) /\ retry \in Seq(Message)
        BY <3>1 DEF Enqueue, TypeOK, KafkaTypeOK
      <4>5. (i \in DOMAIN retry /\ retry'[i] = retry[i]) \/ retry'[i] = m
        BY <4>3, <4>4
      <4>6. QED
        BY <1>3, <2>1, <4>3, <4>5
    <3>2. QED
      BY <2>1, <3>1
  <2>4. QED
    BY <1>1, <2>1, <2>2, <2>3, StillCounted DEF At
<1>9. CASE DeadLetter(c)
  <2>1. At(c, "deadletter") /\ UNCHANGED <<log, retry>> /\ dlq' \subseteq dlq \cup {Held(c)}
    BY <1>9 DEF DeadLetter
  <2>2. Go(c, "down")
    BY <1>9 DEF DeadLetter, Leave
  <2>3. Tried(Held(c).event, Held(c).attempt) /\ Final(Held(c))
    BY <1>3, <2>1 DEF CountInv, EventOf
  <2>4. QED
    BY <1>1, <2>1, <2>2, <2>3, StillCounted DEF At
<1>10. QED
  BY <1>4, <1>5, <1>6, <1>7, <1>8, <1>9 DEF Loop

LEMMA OutsideCounted ==
    ASSUME TypeOK, CountInv,
           \/ \E e \in Events, p \in Partitions : Publish(e, p)
           \/ \E p \in Partitions : RetryDue(p)
    PROVE  CountInv'
<1>1. ASSUME NEW e \in Events, NEW p \in Partitions, Publish(e, p)
      PROVE  CountInv'
  <2>1. 1 \in 1..MaxAttempts /\ Tried(e, 1 - 1)
    BY ConsumerAssumption DEF Tried
  <2>2. QED
    BY <1>1, <2>1, AppendCounted DEF Publish
<1>2. ASSUME NEW p \in Partitions, RetryDue(p)
      PROVE  CountInv'
  <2>1. retry \in Seq(Message) /\ retry # <<>>
    BY <1>2 DEF RetryDue, TypeOK, KafkaTypeOK
  <2>2. Head(retry) \in Message /\ 1 \in DOMAIN retry /\ Head(retry) = retry[1]
    BY <2>1
  <2>3. PICK x \in Events, n \in 1..MaxAttempts :
           x = Head(retry).event /\ n = Head(retry).attempt
    BY <2>2 DEF Message
  <2>4. Tried(x, n - 1)
    BY <2>2, <2>3 DEF CountInv
  <2>5. ASSUME NEW i \in DOMAIN retry'
        PROVE  \E j \in DOMAIN retry : retry'[i] = retry[j]
    <3>1. CASE retry' = Tail(retry)
      <4>1. i + 1 \in DOMAIN retry /\ Tail(retry)[i] = retry[i + 1]
        BY <2>1, <2>5, <3>1
      <4>2. QED
        BY <3>1, <4>1
    <3>2. QED
      BY <1>2, <2>5, <3>1 DEF RetryDue
  <2>6. QED
    BY <1>2, <2>3, <2>4, <2>5, AppendCounted DEF RetryDue
<1>3. QED
  BY <1>1, <1>2

\* Nothing is dead-lettered early: a dead letter is a message that cannot be read,
\* one whose handler refused it for good, or the last of MaxAttempts copies, all
\* of which are in the topic (broker.go 108-136), however often messages are
\* duplicated, retried or read again after crashes.
THEOREM DeadLettersAreExhausted == Spec => []DeadLettersWereTried
<1>1. Init => CountInv
  BY DEF Init, CountInv, DeadLettersWereTried, At
<1>2. TypeOK /\ CountInv /\ [Next]_vars => CountInv'
  <2> SUFFICES ASSUME TypeOK, CountInv, [Next]_vars
               PROVE  CountInv'
    OBVIOUS
  <2>1. CASE Rebalance \/ (\E c \in Consumers : Shutdown(c)) \/ UNCHANGED vars
    <3>1. UNCHANGED <<log, reader, retry, dlq>>
      BY <2>1 DEF Rebalance, Shutdown, vars
    <3>2. QED
      BY <3>1, StillCounted DEF CountInv
  <2>2. QED
    BY <2>1, OutsideCounted, LoopCounted DEF Next
<1>3. CountInv => DeadLettersWereTried
  BY DEF CountInv
<1>4. QED
  BY <1>1, <1>2, <1>3, TypeCorrect, PTL DEF Spec

SoundEventsSpared ==
    /\ \A i \in DOMAIN retry : Kind[retry[i].event] # "sound"
    /\ \A m \in dlq : Kind[m.event] # "sound"

SpareInv ==
    /\ cancelled = {}
    /\ \A c \in Consumers : reader[c].pc \in {"release", "requeue", "deadletter"} =>
          Kind[EventOf(c)] # "sound"
    /\ SoundEventsSpared

\* While no handler fails of itself and none is cancelled, no event that can be
\* handled is ever retried or given up, whatever crashes, rebalances and failures
\* of Kafka and the database it meets: those are no attempts (broker.go 108-136).
THEOREM SoundEventsAreSpared ==
    ASSUME Faults \cap {"handler", "shutdown"} = {}
    PROVE  Spec => []SoundEventsSpared
<1> USE DEF SpareInv
<1>1. Init => SpareInv
  BY DEF Init, SoundEventsSpared
<1>2. ASSUME TypeOK, SpareInv, [Next]_vars
      PROVE  SpareInv'
  <2>1. \A c \in Consumers : ~CallFails(c, "handler") /\ ~Shutdown(c)
    BY <1>2 DEF CallFails, CallRefused, CallBreaks, Fault, Shutdown
  <2>2. CASE \/ \E e \in Events, p \in Partitions : Publish(e, p)
             \/ Rebalance
             \/ \E p \in Partitions : RetryDue(p)
             \/ UNCHANGED vars
    <3>1. UNCHANGED <<reader, dlq, cancelled>> /\ LogKept
      BY <1>2, <2>2, OutsideKeepsLog DEF Publish, Rebalance, RetryDue, vars
    <3>2. \A d \in Consumers : HoldsMessage(d) =>
             /\ reader[d].part \in Partitions
             /\ reader[d].offset \in DOMAIN log[reader[d].part]
      BY <1>2 DEF TypeOK, ReaderOK
    <3>3. \A d \in Consumers : HoldsMessage(d) => EventOf(d)' = EventOf(d)
      BY <3>1, <3>2 DEF LogKept, EventOf, Held
    <3>4. \A i \in DOMAIN retry' : \E j \in DOMAIN retry : retry'[i] = retry[j]
      <4>1. retry' = retry \/ (retry # <<>> /\ retry' = Tail(retry))
        BY <2>2 DEF Publish, Rebalance, RetryDue, vars
      <4>2. retry \in Seq(Message)
        BY <1>2 DEF TypeOK, KafkaTypeOK
      <4>3. ASSUME retry # <<>>, NEW i \in DOMAIN Tail(retry)
            PROVE  i + 1 \in DOMAIN retry /\ Tail(retry)[i] = retry[i + 1]
        BY <4>2, <4>3
      <4>4. QED
        BY <4>1, <4>3
    <3>5. QED
      BY <1>2, <3>1, <3>3, <3>4 DEF HoldsMessage, SoundEventsSpared
  <2>3. ASSUME NEW c \in Consumers, Loop(c) \/ Crash(c)
        PROVE  SpareInv'
    <3>1. cancelled' = {}
      BY <1>2, <2>3
      DEF Loop, Join, Fetch, FetchFails, Claim, ClaimFails, HandlerSucceeds, HandlerFails,
          Release, Requeue, RequeueFails, DeadLetter, Commit, CommitFails, Crash, Leave
    <3>2. ASSUME NEW pc, Go(c, pc), UNCHANGED <<log, retry>>,
                 dlq' \subseteq dlq \cup {Held(c)},
                 pc \in {"release", "requeue", "deadletter"} \/ dlq' # dlq =>
                     Kind[EventOf(c)] # "sound"
          PROVE  SpareInv'
      <4>1. /\ \A d \in Consumers : EventOf(d)' = EventOf(d)
            /\ \A d \in Consumers \ {c} : reader'[d] = reader[d]
            /\ reader'[c].pc = pc
        BY <1>2, <3>2, EventsStay DEF Go, TypeOK
      <4>2. QED
        BY <1>2, <3>1, <3>2, <4>1 DEF EventOf, SoundEventsSpared
    <3>3. CASE Fetch(c)
      BY <1>2, <3>1, <3>3 DEF Fetch, EventOf, Held, TypeOK, SoundEventsSpared
    <3>4. CASE Claim(c)
      <4>1. PICK pc \in {"deadletter", "handle", "fetch"} :
               Go(c, pc) /\ (pc = "deadletter" => Kind[EventOf(c)] = "garbled")
        BY <3>4 DEF Claim
      <4>2. QED
        BY <3>2, <3>4, <4>1 DEF Claim
    <3>5. CASE HandlerFails(c)
      BY <2>1, <3>2, <3>5 DEF HandlerFails
    <3>6. CASE Release(c) \/ DeadLetter(c)
      <4>1. PICK pc : Go(c, pc)
        BY <3>6 DEF Release, DeadLetter, Leave
      <4>2. Kind[EventOf(c)] # "sound" /\ UNCHANGED <<log, retry>> /\ dlq' \subseteq dlq \cup {Held(c)}
        BY <1>2, <3>6 DEF Release, DeadLetter, At
      <4>3. QED
        BY <3>2, <4>1, <4>2
    <3>7. CASE Join(c) \/ FetchFails(c) \/ ClaimFails(c) \/ HandlerSucceeds(c)
                 \/ Commit(c) \/ CommitFails(c) \/ Crash(c)
      <4>1. PICK pc \in {"down", "fetch", "commit"} : Go(c, pc)
        BY <3>7 DEF Join, FetchFails, ClaimFails, HandlerSucceeds, Commit, CommitFails,
                    Crash, Leave
      <4>2. UNCHANGED <<log, retry, dlq>>
        BY <3>7 DEF Join, FetchFails, ClaimFails, HandlerSucceeds, Commit, CommitFails,
                    Crash
      <4>3. QED
        BY <3>2, <4>1, <4>2
    <3>8. CASE Requeue(c) \/ RequeueFails(c)
      <4>1. /\ At(c, "requeue") /\ UNCHANGED <<log, dlq>>
            /\ UNCHANGED retry \/ Enqueue(c)
        BY <3>8 DEF Requeue, RequeueFails
      <4>2. PICK pc \in {"down", "fetch"} : Go(c, pc)
        BY <3>8 DEF Requeue, RequeueFails, Leave
      <4>3. Kind[EventOf(c)] # "sound"
        BY <1>2, <4>1 DEF At
      <4>4. \A i \in DOMAIN retry' : Kind[retry'[i].event] # "sound"
        <5>1. EventOf(c) \in Events /\ Held(c).attempt \in 1..MaxAttempts
          BY <1>2, <4>1, HeldTyped DEF At, HoldsMessage
        <5>2. Held(c).attempt + 1 \in 1..MaxAttempts
          BY <1>2, <4>1, <5>1, ConsumerAssumption DEF TypeOK, ReaderOK
        <5> DEFINE m == [event |-> EventOf(c), attempt |-> Held(c).attempt + 1]
        <5>3. m \in Message /\ m.event = EventOf(c)
          BY <5>1, <5>2 DEF Message
        <5>4. retry \in Seq(Message) /\ (Enqueue(c) => retry' = Append(retry, m))
          BY <1>2 DEF Enqueue, TypeOK, KafkaTypeOK
        <5>5. ASSUME NEW i \in DOMAIN retry', Enqueue(c)
              PROVE  (i \in DOMAIN retry /\ retry'[i] = retry[i]) \/ retry'[i] = m
          BY <5>3, <5>4, <5>5
        <5>6. QED
          BY <1>2, <4>1, <4>3, <5>3, <5>5 DEF SoundEventsSpared
      <4>5. /\ \A d \in Consumers : EventOf(d)' = EventOf(d)
            /\ \A d \in Consumers \ {c} : reader'[d] = reader[d]
            /\ reader'[c].pc = pc
        BY <1>2, <4>1, <4>2, EventsStay DEF Go, TypeOK
      <4>6. QED
        BY <1>2, <3>1, <4>1, <4>2, <4>4, <4>5 DEF SoundEventsSpared
    <3>9. QED
      BY <2>3, <3>3, <3>4, <3>5, <3>6, <3>7, <3>8 DEF Loop
  <2>4. QED
    BY <1>2, <2>1, <2>2, <2>3 DEF Next
<1>3. SpareInv => SoundEventsSpared
  OBVIOUS
<1>4. QED
  BY <1>1, <1>2, <1>3, TypeCorrect, PTL DEF Spec
=============================================================================
