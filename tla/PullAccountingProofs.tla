------------------------- MODULE PullAccountingProofs -------------------------
(***************************************************************************)
(* Where the deliveries of PullRuntime are: each in one place, of one      *)
(* process, or at rest.  From this follow DeliveriesAreAccounted and the   *)
(* refinement of DurableConsumer, for any number of replicas and workers.  *)
(***************************************************************************)
EXTENDS PullRuntimeProofs

USE DEF bootVars, streamVars, historyVars

Elements(s) == {s[i] : i \in DOMAIN s}

Injective(s) == \A i, j \in DOMAIN s : s[i] = s[j] => i = j

LEMMA AppendFacts ==
    ASSUME NEW T, NEW s \in Seq(T), NEW e \in T
    PROVE  /\ Elements(Append(s, e)) = Elements(s) \cup {e}
           /\ Injective(s) /\ e \notin Elements(s) => Injective(Append(s, e))
<1>1. /\ Append(s, e) \in Seq(T)
      /\ Len(Append(s, e)) = Len(s) + 1
      /\ DOMAIN s = 1..Len(s)
      /\ DOMAIN Append(s, e) = 1..(Len(s) + 1)
      /\ Len(s) \in Nat
      /\ \A i \in 1..Len(s) : Append(s, e)[i] = s[i]
      /\ Append(s, e)[Len(s) + 1] = e
  OBVIOUS
<1>2. Elements(Append(s, e)) = Elements(s) \cup {e}
  BY <1>1 DEF Elements
<1>3. ASSUME Injective(s), e \notin Elements(s)
      PROVE  Injective(Append(s, e))
  BY <1>1, <1>3 DEF Injective, Elements
<1> QED
  BY <1>2, <1>3

LEMMA TailFacts ==
    ASSUME NEW T, NEW s \in Seq(T), s # <<>>, Injective(s)
    PROVE  /\ Head(s) \in Elements(s)
           /\ Elements(Tail(s)) = Elements(s) \ {Head(s)}
           /\ Injective(Tail(s))
<1>1. /\ Len(s) \in Nat \ {0}
      /\ DOMAIN s = 1..Len(s)
      /\ DOMAIN Tail(s) = 1..(Len(s) - 1)
      /\ Head(s) = s[1]
      /\ \A i \in 1..(Len(s) - 1) : Tail(s)[i] = s[i + 1]
  OBVIOUS
<1>2. Head(s) \in Elements(s)
  BY <1>1 DEF Elements
<1>3. Elements(Tail(s)) = Elements(s) \ {Head(s)}
  <2>1. ASSUME NEW x \in Elements(Tail(s))
        PROVE  x \in Elements(s) \ {Head(s)}
    <3>1. PICK i \in 1..(Len(s) - 1) : x = s[i + 1]
      BY <1>1, <2>1 DEF Elements
    <3> QED
      BY <1>1, <3>1 DEF Elements, Injective
  <2>2. ASSUME NEW x \in Elements(s), x # Head(s)
        PROVE  x \in Elements(Tail(s))
    <3>1. PICK i \in 1..Len(s) : x = s[i] /\ i # 1
      BY <1>1, <2>2 DEF Elements
    <3>2. i - 1 \in 1..(Len(s) - 1) /\ Tail(s)[i - 1] = x
      BY <1>1, <3>1
    <3> QED
      BY <1>1, <3>2 DEF Elements
  <2> QED
    BY <2>1, <2>2
<1>4. Injective(Tail(s))
  BY <1>1 DEF Injective
<1> QED
  BY <1>2, <1>3, <1>4

-----------------------------------------------------------------------------
\* The inductive invariant.

Counted == {d \in Deliveries : d[2] <= delivered[d[1]]}

HeldBy(p) == batch[p] \cup Queued(p) \cup InHand(p)

\* Inside a process nothing is in two places.
Exclusive(p) ==
    /\ batch[p] \cap Queued(p) = {}
    /\ batch[p] \cap InHand(p) = {}
    /\ Queued(p) \cap InHand(p) = {}
    /\ Injective(jobs[p])
    /\ \A v, w \in Workers :
          /\ worker[p][v].at = "handle" /\ worker[p][w].at = "handle"
          /\ worker[p][v].with = worker[p][w].with
          => v = w

\* Between the processes and what came to rest nothing is doubled or missing.
Shared ==
    /\ \A p, q \in Replicas : p # q => HeldBy(p) \cap HeldBy(q) = {}
    /\ \A p \in Replicas : HeldBy(p) \cap (tried \cup dropped) = {}
    /\ tried \cap dropped = {}
    /\ Counted = tried \cup dropped \cup UNION {HeldBy(p) : p \in Replicas}

Account == Shared /\ \A p \in Replicas : Exclusive(p)

LEMMA HeldAreCounted ==
    ASSUME Account, NEW p \in Replicas
    PROVE  HeldBy(p) \subseteq Counted
BY DEF Account, Shared

\* Process p gives up the deliveries Gone and is given the new ones in Got.
LEMMA Shared_Move ==
    ASSUME Account, NEW p \in Replicas, NEW Gone, NEW Got,
           Gone \subseteq HeldBy(p),
           Got \cap Counted = {},
           \A q \in Replicas \ {p} : HeldBy(q)' = HeldBy(q),
           \/ /\ HeldBy(p)' = (HeldBy(p) \ Gone) \cup Got
              /\ tried' = tried \cup Gone /\ dropped' = dropped
           \/ /\ HeldBy(p)' = (HeldBy(p) \ Gone) \cup Got
              /\ tried' = tried /\ dropped' = dropped \cup Gone
           \/ /\ Gone = {} /\ HeldBy(p)' = HeldBy(p)
              /\ tried' = tried /\ dropped' = dropped \cup Got,
           Counted' = Counted \cup Got
    PROVE  Shared'
<1>1. /\ \A q, r \in Replicas : q # r => HeldBy(q) \cap HeldBy(r) = {}
      /\ \A q \in Replicas : HeldBy(q) \cap (tried \cup dropped) = {}
      /\ tried \cap dropped = {}
      /\ Counted = tried \cup dropped \cup UNION {HeldBy(q) : q \in Replicas}
  BY DEF Account, Shared
<1>2. \A q \in Replicas : HeldBy(q) \subseteq Counted
  BY HeldAreCounted
<1>3. \A q, r \in Replicas : q # r => HeldBy(q)' \cap HeldBy(r)' = {}
  <2> SUFFICES ASSUME NEW q \in Replicas, NEW r \in Replicas, q # r, r # p
               PROVE  HeldBy(q)' \cap HeldBy(r)' = {}
    OBVIOUS
  <2>1. HeldBy(r)' = HeldBy(r)
    OBVIOUS
  <2>2. HeldBy(q)' \subseteq HeldBy(q) \cup Got
    OBVIOUS
  <2> QED
    BY <1>1, <1>2, <2>1, <2>2
<1>4. \A q \in Replicas : HeldBy(q)' \cap (tried \cup dropped)' = {}
  <2> SUFFICES ASSUME NEW q \in Replicas
               PROVE  HeldBy(q)' \cap (tried \cup dropped)' = {}
    OBVIOUS
  <2>1. CASE q = p
    BY <1>1, <1>2, <2>1
  <2>2. CASE q # p
    BY <1>1, <1>2, <2>2
  <2> QED
    BY <2>1, <2>2
<1>5. (tried \cap dropped)' = {}
  BY <1>1, <1>2
<1>6. Counted' = (tried \cup dropped)' \cup UNION {HeldBy(q)' : q \in Replicas}
  BY <1>1
<1> QED
  BY <1>3, <1>4, <1>5, <1>6 DEF Shared

-----------------------------------------------------------------------------
\* Steps that move no delivery.

LEMMA Process_Same ==
    ASSUME Account, NEW q \in Replicas,
           batch'[q] = batch[q], jobs'[q] = jobs[q], worker'[q] = worker[q]
    PROVE  HeldBy(q)' = HeldBy(q) /\ Exclusive(q)'
<1>1. Queued(q)' = Queued(q) /\ InHand(q)' = InHand(q)
  BY DEF Queued, InHand
<1>2. Exclusive(q)
  BY DEF Account
<1>3. HeldBy(q)' = HeldBy(q)
  BY <1>1 DEF HeldBy
<1>4. Exclusive(q)'
  BY <1>1, <1>2 DEF Exclusive, Injective
<1> QED
  BY <1>3, <1>4

LEMMA Quiet_Account ==
    ASSUME Account, UNCHANGED <<delivered, batch, jobs, tried, dropped>>,
           \A q \in Replicas, w \in Workers :
               worker[q][w].at = "handle" \/ worker'[q][w].at = "handle" =>
                   worker'[q][w] = worker[q][w]
    PROVE  Account'
<1>1. ASSUME NEW q \in Replicas
      PROVE  HeldBy(q)' = HeldBy(q) /\ Exclusive(q)'
  <2>1. Queued(q)' = Queued(q)
    BY DEF Queued
  <2>2. InHand(q)' = InHand(q)
    BY DEF InHand
  <2>3. Exclusive(q)
    BY DEF Account
  <2>4. HeldBy(q)' = HeldBy(q)
    BY <2>1, <2>2 DEF HeldBy
  <2>5. Exclusive(q)'
    BY <2>1, <2>2, <2>3 DEF Exclusive, Injective
  <2> QED
    BY <2>4, <2>5
<1>2. Counted' = Counted
  BY DEF Counted
<1>3. UNION {HeldBy(q)' : q \in Replicas} = UNION {HeldBy(q) : q \in Replicas}
  BY <1>1
<1>4. Shared'
  BY <1>1, <1>2, <1>3 DEF Account, Shared
<1> QED
  BY <1>1, <1>4 DEF Account

-----------------------------------------------------------------------------
\* A process that starts, ends or crashes.

LEMMA Runtime_Empty ==
    ASSUME IInv, Account, NEW p \in Replicas,
           NEW c, NEW f, NEW s \in {"idle", "gone"}, Runtime(p, c, f, s)
    PROVE  /\ HeldBy(p)' = {} /\ Exclusive(p)'
           /\ \A q \in Replicas \ {p} : HeldBy(q)' = HeldBy(q) /\ Exclusive(q)'
<1>1. /\ batch'[p] = {} /\ jobs'[p] = <<>> /\ worker'[p] = AllWorkers(s)
      /\ \A q \in Replicas \ {p} : /\ batch'[q] = batch[q]
                                   /\ jobs'[q] = jobs[q]
                                   /\ worker'[q] = worker[q]
  BY DEF Runtime, IInv, PullTypeOK
<1>2. \A w \in Workers : worker'[p][w].at = s
  BY <1>1 DEF AllWorkers
<1>3. Queued(p)' = {} /\ InHand(p)' = {}
  BY <1>1, <1>2 DEF Queued, InHand
<1>4. HeldBy(p)' = {} /\ Exclusive(p)'
  BY <1>1, <1>2, <1>3 DEF HeldBy, Exclusive, Injective
<1> QED
  BY <1>1, <1>4, Process_Same

LEMMA Closed_Empty ==
    ASSUME IInv, NEW p \in Replicas, fetcher[p] = "closed"
    PROVE  HeldBy(p) = {}
BY DEF IInv, Control, HeldBy, Queued, InHand

LEMMA Lifecycle_Account ==
    ASSUME IInv, Account, NEW p \in Replicas,
           \/ RunPullConsumer(p)
           \/ CreateFails(p)
           \/ Stop(p)
           \/ Exit(p)
           \/ Crash(p)
    PROVE  Account'
<1>1. CASE CreateFails(p) \/ Stop(p)
  BY <1>1, Quiet_Account DEF CreateFails, Stop, processVars
<1>2. CASE RunPullConsumer(p) \/ Exit(p)
  <2>1. fetcher[p] = "closed"
    BY <1>2 DEF RunPullConsumer, Exit, IInv, Control
  <2>2. /\ HeldBy(p)' = {} /\ Exclusive(p)'
        /\ \A q \in Replicas \ {p} : HeldBy(q)' = HeldBy(q) /\ Exclusive(q)'
    BY <1>2, Runtime_Empty DEF RunPullConsumer, Start, Exit, Ends
  <2>3. UNCHANGED <<delivered, tried, dropped>>
    BY <1>2 DEF RunPullConsumer, Exit
  <2>4. Counted' = Counted
    BY <2>3 DEF Counted
  <2>5. Shared'
    BY <2>1, <2>2, <2>3, <2>4, Closed_Empty DEF Account, Shared
  <2> QED
    BY <2>2, <2>5 DEF Account
<1>3. CASE Crash(p)
  <2>1. /\ HeldBy(p)' = {} /\ Exclusive(p)'
        /\ \A q \in Replicas \ {p} : HeldBy(q)' = HeldBy(q) /\ Exclusive(q)'
    BY <1>3, Runtime_Empty DEF Crash, Ends
  <2>2. /\ UNCHANGED <<delivered, tried>>
        /\ dropped' = dropped \cup HeldBy(p)
    BY <1>3 DEF Crash, HeldBy
  <2>3. Counted' = Counted
    BY <2>2 DEF Counted
  <2>4. Shared'
    BY <2>1, <2>2, <2>3, Shared_Move
  <2> QED
    BY <2>1, <2>4 DEF Account
<1> QED
  BY <1>1, <1>2, <1>3

-----------------------------------------------------------------------------
\* The fetcher.

LEMMA Fetched_New ==
    ASSUME IInv, NEW S \in SUBSET Owed, DeliverAll(S)
    PROVE  /\ Fetched(S) \subseteq Deliveries
           /\ Fetched(S) \cap Counted = {}
           /\ Counted' = Counted \cup Fetched(S)
<1>1. /\ delivered \in [Messages -> 0..MaxDeliver]
      /\ S \subseteq Messages
      /\ MaxDeliver \in Nat \ {0}
  BY ConfigFacts DEF IInv, PullTypeOK, Owed
<1>2. Fetched(S) \subseteq Deliveries
  BY Delivery_Types
<1>3. Fetched(S) \cap Counted = {}
  BY <1>1 DEF Fetched, Counted
<1>4. ASSUME NEW d \in Deliveries
      PROVE  d[2] <= delivered'[d[1]] <=> (d \in Counted \/ d \in Fetched(S))
  <2>1. d[1] \in Messages /\ d[2] \in 1..MaxDeliver /\ d = <<d[1], d[2]>>
    BY DEF Deliveries
  <2>2. CASE d[1] \notin S
    <3>1. delivered'[d[1]] = delivered[d[1]]
      BY <2>1, <2>2 DEF DeliverAll
    <3>2. d \notin Fetched(S)
      BY <2>2 DEF Fetched
    <3> QED
      BY <3>1, <3>2 DEF Counted
  <2>3. CASE d[1] \in S
    <3>1. delivered'[d[1]] = delivered[d[1]] + 1
      BY <2>1, <2>3 DEF DeliverAll
    <3>2. d \in Fetched(S) <=> d[2] = delivered[d[1]] + 1
      BY <2>1, <2>3 DEF Fetched
    <3> QED
      BY <1>1, <2>1, <3>1, <3>2 DEF Counted
  <2> QED
    BY <2>2, <2>3
<1>5. Counted' = Counted \cup Fetched(S)
  BY <1>2, <1>4 DEF Counted
<1> QED
  BY <1>2, <1>3, <1>5

LEMMA Fetcher_Account ==
    ASSUME IInv, Account, NEW p \in Replicas, FetcherStep(p)
    PROVE  Account'
<1>0. /\ Exclusive(p)
      /\ jobs[p] \in Seq(Deliveries)
      /\ batch[p] \subseteq Deliveries
  BY DEF Account, IInv, PullTypeOK
<1>1. CASE CheckPlan(p)
  BY <1>1, Quiet_Account DEF CheckPlan
<1>2. CASE Fetch(p)
  <2>1. PICK S \in SUBSET Owed : DeliverAll(S) /\ batch' = [batch EXCEPT ![p] = Fetched(S)]
    BY <1>2 DEF Fetch
  <2>2. UNCHANGED <<jobs, worker, tried, dropped>>
    BY <1>2 DEF Fetch
  <2>3. /\ batch[p] = {} /\ batch'[p] = Fetched(S)
        /\ \A q \in Replicas \ {p} : batch'[q] = batch[q]
    BY <1>2, <2>1 DEF Fetch, IInv, PullTypeOK, Control
  <2>4. /\ Fetched(S) \cap Counted = {}
        /\ Counted' = Counted \cup Fetched(S)
    BY <2>1, Fetched_New
  <2>5. \A q \in Replicas \ {p} : HeldBy(q)' = HeldBy(q) /\ Exclusive(q)'
    BY <2>2, <2>3, Process_Same
  <2>6. Queued(p)' = Queued(p) /\ InHand(p)' = InHand(p)
    BY <2>2 DEF Queued, InHand
  <2>7. HeldBy(p)' = HeldBy(p) \cup Fetched(S)
    BY <2>3, <2>6 DEF HeldBy
  <2>8. Exclusive(p)'
    <3>1. HeldBy(p) \cap Fetched(S) = {}
      BY <2>4, HeldAreCounted
    <3> QED
      BY <1>0, <2>2, <2>3, <2>6, <3>1 DEF Exclusive, Injective, HeldBy
  <2>9. Shared'
    <3> DEFINE Gone == {}
    <3>1. HeldBy(p)' = (HeldBy(p) \ Gone) \cup Fetched(S)
      BY <2>7
    <3>2. tried' = tried \cup Gone /\ dropped' = dropped
      BY <2>2
    <3> HIDE DEF Gone
    <3>3. Gone \subseteq HeldBy(p)
      BY DEF Gone
    <3> QED
      BY <2>4, <2>5, <3>1, <3>2, <3>3, Shared_Move
  <2> QED
    BY <2>5, <2>8, <2>9 DEF Account
<1>3. CASE FetchFails(p)
  <2>1. CASE UNCHANGED <<streamVars, dropped>>
    BY <1>3, <2>1, Quiet_Account DEF FetchFails
  <2>2. ASSUME NEW S \in SUBSET Owed, DeliverAll(S), dropped' = dropped \cup Fetched(S)
        PROVE  Account'
    <3>1. UNCHANGED <<batch, jobs, worker, tried>>
      BY <1>3 DEF FetchFails
    <3>2. \A q \in Replicas : HeldBy(q)' = HeldBy(q) /\ Exclusive(q)'
      BY <3>1, Process_Same
    <3>3. /\ Fetched(S) \cap Counted = {}
          /\ Counted' = Counted \cup Fetched(S)
      BY <2>2, Fetched_New
    <3>4. Shared'
      BY <2>2, <3>1, <3>2, <3>3, Shared_Move
    <3> QED
      BY <3>2, <3>4 DEF Account
  <2> QED
    BY <1>3, <2>1, <2>2 DEF FetchFails
<1>4. CASE Dispatch(p)
  <2>1. PICK d \in batch[p] :
              /\ jobs' = [jobs EXCEPT ![p] = Append(jobs[p], d)]
              /\ batch' = [batch EXCEPT ![p] = batch[p] \ {d}]
    BY <1>4 DEF Dispatch
  <2>2. UNCHANGED <<delivered, worker, tried, dropped>>
    BY <1>4 DEF Dispatch
  <2>3. /\ jobs'[p] = Append(jobs[p], d) /\ batch'[p] = batch[p] \ {d}
        /\ \A q \in Replicas \ {p} : jobs'[q] = jobs[q] /\ batch'[q] = batch[q]
    BY <2>1 DEF IInv, PullTypeOK
  <2>4. \A q \in Replicas \ {p} : HeldBy(q)' = HeldBy(q) /\ Exclusive(q)'
    BY <2>2, <2>3, Process_Same
  <2>5. Queued(p) = Elements(jobs[p]) /\ Queued(p)' = Elements(jobs'[p])
    BY DEF Queued, Elements
  <2>6. d \notin Queued(p) /\ d \notin InHand(p)
    BY <1>0 DEF Exclusive
  <2>7. Queued(p)' = Queued(p) \cup {d} /\ Injective(jobs'[p])
    BY <1>0, <2>3, <2>5, <2>6, AppendFacts DEF Exclusive
  <2>8. InHand(p)' = InHand(p)
    BY <2>2 DEF InHand
  <2>9. HeldBy(p)' = HeldBy(p)
    BY <2>3, <2>7, <2>8 DEF HeldBy
  <2>10. Exclusive(p)'
    BY <1>0, <2>2, <2>3, <2>6, <2>7, <2>8 DEF Exclusive
  <2>11. Counted' = Counted
    BY <2>2 DEF Counted
  <2>12. Shared'
    BY <2>2, <2>4, <2>9, <2>11 DEF Account, Shared
  <2> QED
    BY <2>4, <2>10, <2>12 DEF Account
<1>5. CASE DispatchStops(p)
  <2>1. /\ UNCHANGED <<delivered, jobs, worker, tried>>
        /\ dropped' = dropped \cup batch[p]
        /\ batch'[p] = {}
        /\ \A q \in Replicas \ {p} : batch'[q] = batch[q]
    BY <1>5 DEF DispatchStops, IInv, PullTypeOK
  <2>2. \A q \in Replicas \ {p} : HeldBy(q)' = HeldBy(q) /\ Exclusive(q)'
    BY <2>1, Process_Same
  <2>3. Queued(p)' = Queued(p) /\ InHand(p)' = InHand(p)
    BY <2>1 DEF Queued, InHand
  <2>4. HeldBy(p)' = HeldBy(p) \ batch[p]
    BY <1>0, <2>1, <2>3 DEF HeldBy, Exclusive
  <2>5. Exclusive(p)'
    BY <1>0, <2>1, <2>3 DEF Exclusive
  <2>6. Counted' = Counted /\ batch[p] \subseteq HeldBy(p)
    BY <2>1 DEF Counted, HeldBy
  <2>7. Shared'
    BY <2>1, <2>2, <2>4, <2>6, Shared_Move
  <2> QED
    BY <2>2, <2>5, <2>7 DEF Account
<1>6. CASE Close(p)
  <2>1. /\ UNCHANGED <<delivered, batch, worker, tried>>
        /\ dropped' = dropped \cup Queued(p)
        /\ jobs'[p] = <<>>
        /\ \A q \in Replicas \ {p} : jobs'[q] = jobs[q]
    BY <1>6 DEF Close, IInv, PullTypeOK
  <2>2. \A q \in Replicas \ {p} : HeldBy(q)' = HeldBy(q) /\ Exclusive(q)'
    BY <2>1, Process_Same
  <2>3. Queued(p)' = {} /\ InHand(p)' = InHand(p)
    BY <2>1 DEF Queued, InHand
  <2>4. HeldBy(p)' = HeldBy(p) \ Queued(p)
    BY <1>0, <2>1, <2>3 DEF HeldBy, Exclusive
  <2>5. Exclusive(p)'
    BY <1>0, <2>1, <2>3 DEF Exclusive, Injective
  <2>6. Counted' = Counted /\ Queued(p) \subseteq HeldBy(p)
    BY <2>1 DEF Counted, HeldBy
  <2>7. Shared'
    <3>1. /\ HeldBy(p)' = (HeldBy(p) \ Queued(p)) \cup {}
          /\ Counted' = Counted \cup {}
      BY <2>4, <2>6
    <3> QED
      BY <2>1, <2>2, <2>6, <3>1, Shared_Move
  <2> QED
    BY <2>2, <2>5, <2>7 DEF Account
<1> QED
  BY <1>1, <1>2, <1>3, <1>4, <1>5, <1>6 DEF FetcherStep

-----------------------------------------------------------------------------
\* The workers.

LEMMA WorkerGoes_Facts ==
    ASSUME IInv, NEW p \in Replicas, NEW w \in Workers, NEW step, NEW d,
           WorkerGoes(p, w, step, d)
    PROVE  /\ worker'[p][w].at = step /\ worker'[p][w].with = d
           /\ \A v \in Workers \ {w} : worker'[p][v] = worker[p][v]
           /\ \A q \in Replicas \ {p} : worker'[q] = worker[q]
<1>1. worker \in [Replicas -> [Workers -> WorkerStates]]
  BY DEF IInv, PullTypeOK, WorkerStates
<1>2. /\ worker'[p][w] = [at |-> step, with |-> d]
      /\ \A v \in Workers \ {w} : worker'[p][v] = worker[p][v]
      /\ \A q \in Replicas \ {p} : worker'[q] = worker[q]
  BY <1>1 DEF WorkerGoes
<1> QED
  BY <1>2

LEMMA Worker_Account ==
    ASSUME IInv, Account, NEW p \in Replicas, NEW w \in Workers, WorkerStep(p, w)
    PROVE  Account'
<1> DEFINE d == worker[p][w].with
<1>0. /\ Exclusive(p)
      /\ jobs \in [Replicas -> Seq(Deliveries)]
      /\ jobs[p] \in Seq(Deliveries)
  BY DEF Account, IInv, PullTypeOK
<1>1. CASE Take(p, w)
  <2> DEFINE h == Head(jobs[p])
  <2>1. /\ UNCHANGED <<delivered, batch, tried, dropped>>
        /\ worker[p][w].at = "idle"
        /\ jobs[p] # <<>>
        /\ jobs'[p] = Tail(jobs[p])
        /\ \A q \in Replicas \ {p} : jobs'[q] = jobs[q]
    BY <1>0, <1>1 DEF Take, WorkerAt
  <2>2. /\ worker'[p][w].at = "handle" /\ worker'[p][w].with = h
        /\ \A v \in Workers \ {w} : worker'[p][v] = worker[p][v]
        /\ \A q \in Replicas \ {p} : worker'[q] = worker[q]
    BY <1>1, WorkerGoes_Facts DEF Take
  <2>3. \A q \in Replicas \ {p} : HeldBy(q)' = HeldBy(q) /\ Exclusive(q)'
    BY <2>1, <2>2, Process_Same
  <2>4. Queued(p) = Elements(jobs[p]) /\ Queued(p)' = Elements(jobs'[p])
    BY DEF Queued, Elements
  <2>5. /\ h \in Queued(p)
        /\ Queued(p)' = Queued(p) \ {h}
        /\ Injective(jobs'[p])
    BY <1>0, <2>1, <2>4, TailFacts DEF Exclusive
  <2>6. InHand(p)' = InHand(p) \cup {h}
    BY <2>1, <2>2 DEF InHand
  <2>7. HeldBy(p)' = HeldBy(p)
    BY <2>1, <2>5, <2>6 DEF HeldBy
  <2>8. \A v \in Workers : worker[p][v].at = "handle" => worker[p][v].with # h
    BY <1>0, <2>5 DEF Exclusive, InHand
  <2>9. Exclusive(p)'
    <3>1. \A v, u \in Workers :
             /\ worker'[p][v].at = "handle" /\ worker'[p][u].at = "handle"
             /\ worker'[p][v].with = worker'[p][u].with
             => v = u
      BY <1>0, <2>2, <2>8 DEF Exclusive
    <3>2. /\ (batch[p] \cap Queued(p))' = {}
          /\ (batch[p] \cap InHand(p))' = {}
          /\ (Queued(p) \cap InHand(p))' = {}
      BY <1>0, <2>1, <2>5, <2>6 DEF Exclusive
    <3> QED
      BY <2>5, <3>1, <3>2 DEF Exclusive
  <2>10. Counted' = Counted
    BY <2>1 DEF Counted
  <2>11. Shared'
    BY <2>1, <2>3, <2>7, <2>10 DEF Account, Shared
  <2> QED
    BY <2>3, <2>9, <2>11 DEF Account
<1>2. CASE HandlerSucceeds(p, w) \/ HandlerFails(p, w)
  <2>1. /\ UNCHANGED <<delivered, batch, jobs, dropped>>
        /\ worker[p][w].at = "handle"
        /\ tried' = tried \cup {d}
    BY <1>2 DEF HandlerSucceeds, HandlerFails, WorkerAt
  <2>2. /\ worker'[p][w].at \in {"ack", "nak"}
        /\ \A v \in Workers \ {w} : worker'[p][v] = worker[p][v]
        /\ \A q \in Replicas \ {p} : worker'[q] = worker[q]
    BY <1>2, WorkerGoes_Facts DEF HandlerSucceeds, HandlerFails
  <2>3. \A q \in Replicas \ {p} : HeldBy(q)' = HeldBy(q) /\ Exclusive(q)'
    BY <2>1, <2>2, Process_Same
  <2>4. Queued(p)' = Queued(p)
    BY <2>1 DEF Queued
  <2>5. d \in InHand(p)
    BY <2>1 DEF InHand
  <2>6. InHand(p)' = InHand(p) \ {d}
    <3>1. \A v \in Workers \ {w} : worker[p][v].at = "handle" => worker[p][v].with # d
      BY <1>0, <2>1 DEF Exclusive
    <3> QED
      BY <2>1, <2>2, <3>1 DEF InHand
  <2>7. HeldBy(p)' = HeldBy(p) \ {d}
    BY <1>0, <2>1, <2>4, <2>5, <2>6 DEF HeldBy, Exclusive
  <2>8. Exclusive(p)'
    <3>1. \A v, u \in Workers :
             /\ worker'[p][v].at = "handle" /\ worker'[p][u].at = "handle"
             /\ worker'[p][v].with = worker'[p][u].with
             => v = u
      BY <1>0, <2>2 DEF Exclusive
    <3> QED
      BY <1>0, <2>1, <2>4, <2>6, <3>1 DEF Exclusive
  <2>9. Counted' = Counted
    BY <2>1 DEF Counted
  <2>10. Shared'
    <3>1. /\ HeldBy(p)' = (HeldBy(p) \ {d}) \cup {}
          /\ Counted' = Counted \cup {}
          /\ {d} \subseteq HeldBy(p)
      BY <2>5, <2>7, <2>9 DEF HeldBy
    <3> QED
      BY <2>1, <2>3, <3>1, Shared_Move
  <2> QED
    BY <2>3, <2>8, <2>10 DEF Account
<1>3. CASE WorkerStops(p, w) \/ Ack(p, w) \/ Nak(p, w)
  <2>1. /\ UNCHANGED <<delivered, batch, jobs, tried, dropped>>
        /\ worker[p][w].at \in {"idle", "ack", "nak"}
    BY <1>3 DEF WorkerStops, Ack, Nak, WorkerAt
  <2>2. /\ worker'[p][w].at \in {"idle", "gone"}
        /\ \A v \in Workers \ {w} : worker'[p][v] = worker[p][v]
        /\ \A q \in Replicas \ {p} : worker'[q] = worker[q]
    BY <1>3, WorkerGoes_Facts DEF WorkerStops, Ack, Nak
  <2>3. ASSUME NEW q \in Replicas, NEW v \in Workers,
               worker[q][v].at = "handle" \/ worker'[q][v].at = "handle"
        PROVE  worker'[q][v] = worker[q][v]
    BY <2>1, <2>2, <2>3
  <2> QED
    BY <2>1, <2>3, Quiet_Account
<1> QED
  BY <1>1, <1>2, <1>3 DEF WorkerStep

-----------------------------------------------------------------------------

LEMMA Account_Init == PullInit => Account
<1> SUFFICES ASSUME PullInit PROVE Account
  OBVIOUS
<1>1. ASSUME NEW p \in Replicas
      PROVE  HeldBy(p) = {} /\ Exclusive(p)
  <2>1. batch[p] = {} /\ jobs[p] = <<>> /\ worker[p] = AllWorkers("gone")
    BY DEF PullInit
  <2>2. \A w \in Workers : worker[p][w].at = "gone"
    BY <2>1 DEF AllWorkers
  <2>3. Queued(p) = {} /\ InHand(p) = {}
    BY <2>1, <2>2 DEF Queued, InHand
  <2> QED
    BY <2>1, <2>2, <2>3 DEF HeldBy, Exclusive, Injective
<1>2. Counted = {}
  <2>1. ASSUME NEW d \in Deliveries PROVE ~(d[2] <= delivered[d[1]])
    <3>1. d[1] \in Messages /\ d[2] \in 1..MaxDeliver
      BY DEF Deliveries
    <3>2. delivered[d[1]] = 0
      BY <3>1 DEF PullInit
    <3> QED
      BY <3>1, <3>2, ConfigFacts
  <2> QED
    BY <2>1 DEF Counted
<1>3. tried = {} /\ dropped = {}
  BY DEF PullInit
<1> QED
  BY <1>1, <1>2, <1>3 DEF Account, Shared

LEMMA Account_Next == IInv /\ Account /\ [PullNext]_pullVars => Account'
<1> SUFFICES ASSUME IInv, Account, [PullNext]_pullVars PROVE Account'
  OBVIOUS
<1>1. ASSUME NEW m \in Messages, AckWaitElapses(m) PROVE Account'
  BY <1>1, Quiet_Account DEF AckWaitElapses, processVars
<1>2. ASSUME NEW p \in Replicas, Bootstrap(p) PROVE Account'
  BY <1>2, Quiet_Account DEF Bootstrap, processVars
<1>3. ASSUME NEW p \in Replicas, MainStep(p) PROVE Account'
  BY <1>2, <1>3, Lifecycle_Account, Fetcher_Account DEF MainStep
<1>4. ASSUME NEW p \in Replicas, NEW w \in Workers, WorkerStep(p, w) PROVE Account'
  BY <1>4, Worker_Account
<1>5. ASSUME NEW p \in Replicas, CreateFails(p) \/ Stop(p) \/ Crash(p) PROVE Account'
  BY <1>5, Lifecycle_Account
<1>6. CASE UNCHANGED pullVars
  BY <1>6, Quiet_Account DEF pullVars, processVars
<1> QED
  BY <1>1, <1>3, <1>4, <1>5, <1>6 DEF PullNext

LEMMA Account_Always == PullSpec => [](IInv /\ Account)
BY IInv_Init, IInv_Next, Account_Init, Account_Next, PTL DEF PullSpec

-----------------------------------------------------------------------------
\* From one place each to one counted place each.

LEMMA One == ASSUME NEW S, NEW x \in S, \A y \in S : y = x
             PROVE  Cardinality(S) = 1
<1>1. S = {x}
  OBVIOUS
<1> QED
  BY <1>1, FS_Singleton

LEMMA PlacesOf ==
    ASSUME IInv, Account, NEW d \in Deliveries
    PROVE  /\ Cardinality(Places(d).batches) =
                 IF \E p \in Replicas : d \in batch[p] THEN 1 ELSE 0
           /\ Cardinality(Places(d).queues) =
                 IF \E p \in Replicas : d \in Queued(p) THEN 1 ELSE 0
           /\ Cardinality(Places(d).hands) =
                 IF \E p \in Replicas : d \in InHand(p) THEN 1 ELSE 0
<1> DEFINE B == {p \in Replicas : d \in batch[p]}
           Q == {x \in Replicas \X (1..QueueSize) :
                     x[2] \in DOMAIN jobs[x[1]] /\ jobs[x[1]][x[2]] = d}
           H == {x \in Replicas \X Workers :
                     worker[x[1]][x[2]] = [at |-> "handle", with |-> d]}
<1>0. /\ Places(d).batches = B /\ Places(d).queues = Q /\ Places(d).hands = H
  BY DEF Places
<1>1. ASSUME NEW p \in Replicas, NEW q \in Replicas, d \in HeldBy(p), d \in HeldBy(q)
      PROVE  p = q
  BY <1>1 DEF Account, Shared
<1>2. Cardinality(B) = IF \E p \in Replicas : d \in batch[p] THEN 1 ELSE 0
  <2>1. \A p, q \in B : p = q
    BY <1>1 DEF HeldBy
  <2>2. CASE B = {}
    BY <2>2, FS_EmptySet
  <2>3. CASE B # {}
    <3>1. PICK p \in B : TRUE
      BY <2>3
    <3>2. Cardinality(B) = 1
      BY <2>1, <3>1, One
    <3> QED
      BY <3>1, <3>2
  <2> QED
    BY <2>2, <2>3
<1>3. Cardinality(Q) = IF \E p \in Replicas : d \in Queued(p) THEN 1 ELSE 0
  <2>1. ASSUME NEW x \in Q, NEW y \in Q
        PROVE  x = y
    <3>1. /\ x[1] \in Replicas /\ y[1] \in Replicas
          /\ x = <<x[1], x[2]>> /\ y = <<y[1], y[2]>>
          /\ x[2] \in DOMAIN jobs[x[1]] /\ jobs[x[1]][x[2]] = d
          /\ y[2] \in DOMAIN jobs[y[1]] /\ jobs[y[1]][y[2]] = d
      BY <2>1
    <3>2. x[1] = y[1]
      BY <1>1, <3>1 DEF HeldBy, Queued
    <3>3. x[2] = y[2]
      BY <3>1, <3>2 DEF Account, Exclusive, Injective
    <3> QED
      BY <3>1, <3>2, <3>3
  <2>2. ASSUME NEW p \in Replicas, d \in Queued(p)
        PROVE  Q # {}
    <3>1. PICK i \in DOMAIN jobs[p] : jobs[p][i] = d
      BY <2>2 DEF Queued
    <3>2. jobs[p] \in Seq(Deliveries) /\ Len(jobs[p]) <= QueueSize
      BY DEF IInv, PullTypeOK
    <3>3. i \in 1..QueueSize
      BY <3>1, <3>2, ConfigFacts
    <3>4. <<p, i>> \in Q
      BY <3>1, <3>3
    <3> QED
      BY <3>4
  <2>3. CASE Q = {}
    BY <2>2, <2>3, FS_EmptySet
  <2>4. CASE Q # {}
    <3>1. PICK x \in Q : TRUE
      BY <2>4
    <3>2. Cardinality(Q) = 1
      BY <2>1, <3>1, One
    <3>3. d \in Queued(x[1]) /\ x[1] \in Replicas
      BY <3>1 DEF Queued
    <3> QED
      BY <3>2, <3>3
  <2> QED
    BY <2>3, <2>4
<1>4. Cardinality(H) = IF \E p \in Replicas : d \in InHand(p) THEN 1 ELSE 0
  <2>0. worker \in [Replicas -> [Workers -> WorkerStates]]
    BY DEF IInv, PullTypeOK, WorkerStates
  <2>1. ASSUME NEW x \in H, NEW y \in H
        PROVE  x = y
    <3>1. /\ x[1] \in Replicas /\ y[1] \in Replicas
          /\ x[2] \in Workers /\ y[2] \in Workers
          /\ x = <<x[1], x[2]>> /\ y = <<y[1], y[2]>>
          /\ worker[x[1]][x[2]] = [at |-> "handle", with |-> d]
          /\ worker[y[1]][y[2]] = [at |-> "handle", with |-> d]
      BY <2>1
    <3>2. /\ worker[x[1]][x[2]].at = "handle" /\ worker[x[1]][x[2]].with = d
          /\ worker[y[1]][y[2]].at = "handle" /\ worker[y[1]][y[2]].with = d
      BY <3>1
    <3>3. x[1] = y[1]
      BY <1>1, <3>1, <3>2 DEF HeldBy, InHand
    <3>4. x[2] = y[2]
      BY <3>1, <3>2, <3>3 DEF Account, Exclusive
    <3> QED
      BY <3>1, <3>3, <3>4
  <2>2. ASSUME NEW p \in Replicas, d \in InHand(p)
        PROVE  H # {}
    <3>1. PICK w \in Workers : worker[p][w].at = "handle" /\ worker[p][w].with = d
      BY <2>2 DEF InHand
    <3>2. worker[p][w] \in WorkerStates
      BY <2>0
    <3>3. worker[p][w] = [at |-> "handle", with |-> d]
      BY <3>1, <3>2 DEF WorkerStates
    <3>4. <<p, w>> \in H
      BY <3>3
    <3> QED
      BY <3>4
  <2>3. CASE H = {}
    BY <2>2, <2>3, FS_EmptySet
  <2>4. CASE H # {}
    <3>1. PICK x \in H : TRUE
      BY <2>4
    <3>2. Cardinality(H) = 1
      BY <2>1, <3>1, One
    <3>3. /\ x[1] \in Replicas /\ x[2] \in Workers
          /\ worker[x[1]][x[2]] = [at |-> "handle", with |-> d]
      BY <3>1
    <3>4. worker[x[1]][x[2]].at = "handle" /\ worker[x[1]][x[2]].with = d
      BY <3>3
    <3>5. d \in InHand(x[1])
      BY <3>3, <3>4 DEF InHand
    <3> QED
      BY <3>2, <3>3, <3>5
  <2> QED
    BY <2>3, <2>4
<1> QED
  BY <1>0, <1>2, <1>3, <1>4

\* With any number of replicas and workers, any queue size and any faults: every
\* delivery JetStream made is in one batch, one channel slot or one pair of hands,
\* was handled once, or was given back unhandled, and only one of these
\* (pull_consumer_runtime.go:94-163, 234-244).
THEOREM DeliveriesAccounted == PullSpec => []DeliveriesAreAccounted
<1>1. IInv /\ Account => DeliveriesAreAccounted
  <2> SUFFICES ASSUME IInv, Account, NEW d \in Deliveries
               PROVE  HowOften(d) = IF d \in Counted THEN 1 ELSE 0
    BY DEF DeliveriesAreAccounted, Counted
  <2> DEFINE inBatch == \E p \in Replicas : d \in batch[p]
             inQueue == \E p \in Replicas : d \in Queued(p)
             inHand == \E p \in Replicas : d \in InHand(p)
  <2>1. HowOften(d) = (IF inBatch THEN 1 ELSE 0) + (IF inQueue THEN 1 ELSE 0)
                        + (IF inHand THEN 1 ELSE 0) + (IF d \in tried THEN 1 ELSE 0)
                        + (IF d \in dropped THEN 1 ELSE 0)
    BY PlacesOf DEF HowOften
  <2>2. /\ ~(inBatch /\ inQueue) /\ ~(inBatch /\ inHand) /\ ~(inQueue /\ inHand)
    <3>1. \A p, q \in Replicas : d \in HeldBy(p) /\ d \in HeldBy(q) => p = q
      BY DEF Account, Shared
    <3>2. \A p \in Replicas : /\ ~(d \in batch[p] /\ d \in Queued(p))
                              /\ ~(d \in batch[p] /\ d \in InHand(p))
                              /\ ~(d \in Queued(p) /\ d \in InHand(p))
      BY DEF Account, Exclusive
    <3> QED
      BY <3>1, <3>2 DEF HeldBy
  <2>3. /\ d \in tried \cup dropped => ~inBatch /\ ~inQueue /\ ~inHand
        /\ ~(d \in tried /\ d \in dropped)
    BY DEF Account, Shared, HeldBy
  <2>4. d \in Counted <=> inBatch \/ inQueue \/ inHand \/ d \in tried \/ d \in dropped
    BY DEF Account, Shared, HeldBy
  <2> HIDE DEF inBatch, inQueue, inHand
  <2> QED
    BY <2>1, <2>2, <2>3, <2>4
<1> QED
  BY <1>1, Account_Always, PTL

-----------------------------------------------------------------------------
\* The refinement.

Settled == [m \in Messages |-> IF status[m] = "out" THEN "owed" ELSE status[m]]

\* A step on which the durable consumer stutters.
Stutter == UNCHANGED <<delivered, tried, handled, Settled>>

LEMMA OweAgain_Maps ==
    ASSUME IInv, NEW m \in Messages, OweAgain(m), UNCHANGED <<delivered, tried, handled>>
    PROVE  Stutter \/ DC!GiveUp(m)
<1>1. /\ status \in [Messages -> Statuses]
      /\ delivered \in [Messages -> 0..MaxDeliver]
      /\ MaxDeliver \in Nat
  BY ConfigFacts DEF IInv, PullTypeOK
<1>2. CASE status[m] # "out" \/ delivered[m] < MaxDeliver
  <2>1. Settled' = Settled
    BY <1>1, <1>2 DEF OweAgain, Settled
  <2> QED
    BY <2>1 DEF Stutter
<1>3. CASE status[m] = "out" /\ delivered[m] = MaxDeliver
  <2>1. Settled' = [Settled EXCEPT ![m] = "givenup"]
    <3>1. status' = [status EXCEPT ![m] = "givenup"]
      <4>1. (IF delivered[m] < MaxDeliver THEN "owed" ELSE "givenup") = "givenup"
        BY <1>1, <1>3
      <4> QED
        BY <1>3, <4>1, Zenon DEF OweAgain
    <3>2. Settled' = [k \in Messages |-> IF k = m THEN "givenup" ELSE Settled[k]]
      BY <1>1, <3>1 DEF Settled
    <3> QED
      BY <3>2 DEF Settled
  <2>2. Settled[m] = "owed"
    BY <1>3 DEF Settled
  <2> QED
    BY <1>3, <2>1, <2>2 DEF DC!GiveUp, Settled
<1> QED
  BY <1>1, <1>2, <1>3

LEMMA Deliver_Maps ==
    ASSUME IInv, NEW S \in SUBSET Owed, DeliverAll(S), UNCHANGED <<tried, handled>>
    PROVE  DC!DeliverAll(S) /\ S \subseteq Messages
<1>1. /\ status \in [Messages -> Statuses]
      /\ \A m \in Messages : status[m] = "owed" => delivered[m] < MaxDeliver
  BY DEF IInv, PullTypeOK, Control
<1>2. Settled' = Settled
  BY <1>1 DEF Settled, DeliverAll, Owed
<1>3. DC!Due(S)
  BY <1>1 DEF DC!Due, Owed
<1> QED
  BY <1>2, <1>3 DEF DC!DeliverAll, DeliverAll, Settled, Owed

LEMMA Handler_Maps ==
    ASSUME IInv, Account, NEW p \in Replicas, NEW w \in Workers,
           HandlerSucceeds(p, w) \/ HandlerFails(p, w)
    PROVE  \E m \in Messages : \E n \in 1..MaxDeliver : DC!Try(m, n)
<1> DEFINE d == worker[p][w].with
<1>1. worker[p][w].at = "handle"
  BY DEF HandlerSucceeds, HandlerFails, WorkerAt
<1>2. /\ d[1] \in Messages /\ d[2] \in 1..MaxDeliver /\ d = <<d[1], d[2]>>
  BY <1>1 DEF IInv, Control, Deliveries
<1>3. d \in HeldBy(p)
  BY <1>1 DEF HeldBy, InHand
<1>4. d \in Counted /\ d \notin tried
  BY <1>3, HeldAreCounted DEF Account, Shared
<1>5. d[2] \in 1..delivered[d[1]]
  BY <1>2, <1>4, ConfigFacts DEF Counted, IInv, PullTypeOK
<1>6. /\ tried' = tried \cup {d}
      /\ handled' \in {handled, handled \cup {d[1]}}
      /\ UNCHANGED <<delivered, Settled>>
  BY DEF HandlerSucceeds, HandlerFails, Settled
<1>7. DC!Try(d[1], d[2])
  BY <1>2, <1>4, <1>5, <1>6 DEF DC!Try, Settled
<1> QED
  BY <1>2, <1>7

LEMMA Ack_Maps ==
    ASSUME IInv, NEW p \in Replicas, NEW w \in Workers, Ack(p, w)
    PROVE  Stutter \/ \E m \in Messages : DC!Acknowledge(m)
<1>0. PICK ackOf \in Messages : ackOf = worker[p][w].with[1] /\ ackOf \in handled
  BY DEF Ack, WorkerAt, IInv, Control, Deliveries
<1>1. ackOf \in handled /\ status \in [Messages -> Statuses]
  BY <1>0 DEF IInv, PullTypeOK
<1>2. UNCHANGED <<delivered, tried, handled>>
  BY DEF Ack
<1>3. CASE UNCHANGED status
  BY <1>2, <1>3 DEF Stutter, Settled
<1>4. CASE Acked(ackOf)
  <2>1. CASE status[ackOf] \in {"givenup", "acked"}
    <3>1. Settled' = Settled
      BY <1>1, <1>4, <2>1 DEF Acked, Settled
    <3> QED
      BY <1>2, <3>1 DEF Stutter
  <2>2. CASE status[ackOf] \in {"owed", "out"}
    <3>1. Settled[ackOf] = "owed" /\ Settled' = [Settled EXCEPT ![ackOf] = "acked"]
      BY <1>1, <1>4, <2>2 DEF Acked, Settled
    <3>2. DC!Acknowledge(ackOf)
      BY <1>1, <1>2, <3>1 DEF DC!Acknowledge, Settled
    <3> QED
      BY <3>2
  <2> QED
    BY <1>1, <2>1, <2>2 DEF Statuses
<1> QED
  BY <1>0, <1>3, <1>4 DEF Ack

LEMMA Refines_Next ==
    IInv /\ Account /\ [PullNext]_pullVars => DC!Next \/ Stutter
<1> SUFFICES ASSUME IInv, Account, [PullNext]_pullVars PROVE DC!Next \/ Stutter
  OBVIOUS
<1>1. UNCHANGED <<delivered, tried, handled, status>> => Stutter
  BY DEF Stutter, Settled
<1>2. ASSUME NEW m \in Messages, AckWaitElapses(m) PROVE DC!Next \/ Stutter
  BY <1>2, OweAgain_Maps DEF AckWaitElapses, DC!Next
<1>3. ASSUME NEW p \in Replicas, Fetch(p) \/ FetchFails(p) PROVE DC!Next \/ Stutter
  <2>1. CASE UNCHANGED streamVars
    BY <1>1, <1>3, <2>1 DEF Fetch, FetchFails
  <2>2. ASSUME NEW S \in SUBSET Owed, DeliverAll(S)
        PROVE  DC!Next
    BY <1>3, <2>2, Deliver_Maps DEF Fetch, FetchFails, DC!Next
  <2> QED
    BY <1>3, <2>1, <2>2 DEF Fetch, FetchFails
<1>4. ASSUME NEW p \in Replicas, FetcherStep(p) PROVE DC!Next \/ Stutter
  BY <1>1, <1>3, <1>4 DEF FetcherStep, CheckPlan, Dispatch, DispatchStops, Close
<1>5. ASSUME NEW p \in Replicas, MainStep(p) PROVE DC!Next \/ Stutter
  BY <1>1, <1>4, <1>5 DEF MainStep, Bootstrap, RunPullConsumer, Exit
<1>6. ASSUME NEW p \in Replicas, CreateFails(p) \/ Stop(p) \/ Crash(p)
      PROVE  DC!Next \/ Stutter
  BY <1>1, <1>6 DEF CreateFails, Stop, Crash
<1>7. ASSUME NEW p \in Replicas, NEW w \in Workers, WorkerStep(p, w)
      PROVE  DC!Next \/ Stutter
  <2>1. CASE Take(p, w) \/ WorkerStops(p, w)
    BY <1>1, <2>1 DEF Take, WorkerStops
  <2>2. CASE HandlerSucceeds(p, w) \/ HandlerFails(p, w)
    BY <2>2, Handler_Maps DEF DC!Next
  <2>3. CASE Ack(p, w)
    BY <2>3, Ack_Maps DEF DC!Next
  <2>4. CASE Nak(p, w)
    <3> DEFINE m == worker[p][w].with[1]
    <3>1. m \in Messages
      BY <2>4 DEF Nak, WorkerAt, IInv, Control, Deliveries
    <3>2. OweAgain(m) \/ UNCHANGED status
      BY <2>4 DEF Nak
    <3>3. UNCHANGED <<delivered, tried, handled>>
      BY <2>4 DEF Nak
    <3> QED
      BY <1>1, <3>1, <3>2, <3>3, OweAgain_Maps DEF DC!Next
  <2> QED
    BY <1>7, <2>1, <2>2, <2>3, <2>4 DEF WorkerStep
<1>8. CASE UNCHANGED pullVars
  BY <1>1, <1>8 DEF pullVars
<1> QED
  BY <1>2, <1>5, <1>6, <1>7, <1>8 DEF PullNext

\* Whatever the replicas, workers and faults, the consumers together are one durable
\* consumer: at most max_deliver deliveries of a message, each handled once, and an
\* acknowledgement only after a handler succeeded (pull_consumer_runtime.go:109-131).
THEOREM ImplementsDurableConsumer == PullSpec => RefinesDurableConsumer
<1>1. PullInit => DC!Init
  BY DEF PullInit, DC!Init
<1>2. IInv /\ Account /\ [PullNext]_pullVars
      => [DC!Next]_<<delivered, tried, handled, Settled>>
  BY Refines_Next DEF Stutter
<1> QED
  BY <1>1, <1>2, Account_Always, PTL DEF PullSpec, RefinesDurableConsumer, DC!Spec, Settled

-----------------------------------------------------------------------------
\* What DurableConsumer promises, and so what the replicas keep.

SettledForAReason ==
    \A m \in Messages :
        /\ Settled[m] = "acked" => m \in handled
        /\ Settled[m] = "givenup" => delivered[m] = MaxDeliver

SettledForGood ==
    [][\A m \in Messages :
          Settled[m] # "owed" => Settled'[m] = Settled[m] /\ delivered'[m] = delivered[m]
      ]_<<delivered, tried, handled, Settled>>

LEMMA DurableSteps ==
    ASSUME DC!Next
    PROVE  \/ /\ Settled' = Settled
              /\ handled \subseteq handled'
              /\ \/ delivered' = delivered
                 \/ \E S \in SUBSET Messages :
                       /\ \A m \in S : Settled[m] = "owed"
                       /\ delivered' = [m \in Messages |->
                                            IF m \in S THEN delivered[m] + 1
                                            ELSE delivered[m]]
           \/ /\ \E m \in Messages :
                    /\ Settled[m] = "owed"
                    /\ \/ m \in handled /\ Settled' = [Settled EXCEPT ![m] = "acked"]
                       \/ /\ delivered[m] = MaxDeliver
                          /\ Settled' = [Settled EXCEPT ![m] = "givenup"]
              /\ UNCHANGED <<delivered, handled>>
<1>1. ASSUME NEW S \in SUBSET Messages, DC!DeliverAll(S)
      PROVE  /\ Settled' = Settled /\ handled' = handled
             /\ \A m \in S : Settled[m] = "owed"
             /\ delivered' = [m \in Messages |-> IF m \in S THEN delivered[m] + 1
                                                 ELSE delivered[m]]
  BY <1>1 DEF DC!DeliverAll, DC!Due, Settled
<1>2. ASSUME NEW m \in Messages, NEW n, DC!Try(m, n)
      PROVE  /\ Settled' = Settled /\ delivered' = delivered
             /\ handled \subseteq handled'
  BY <1>2 DEF DC!Try, Settled
<1>3. ASSUME NEW m \in Messages, DC!Acknowledge(m)
      PROVE  /\ Settled[m] = "owed" /\ m \in handled
             /\ Settled' = [Settled EXCEPT ![m] = "acked"]
             /\ UNCHANGED <<delivered, handled>>
  BY <1>3 DEF DC!Acknowledge, Settled
<1>4. ASSUME NEW m \in Messages, DC!GiveUp(m)
      PROVE  /\ Settled[m] = "owed" /\ delivered[m] = MaxDeliver
             /\ Settled' = [Settled EXCEPT ![m] = "givenup"]
             /\ UNCHANGED <<delivered, handled>>
  BY <1>4 DEF DC!GiveUp, Settled
<1> QED
  BY <1>1, <1>2, <1>3, <1>4 DEF DC!Next

LEMMA DurableKeepsItsPromise == DC!Spec => []SettledForAReason /\ SettledForGood
<1> DEFINE Inv == DOMAIN delivered = Messages /\ SettledForAReason
           Good == \A m \in Messages : Settled[m] # "owed" =>
                       Settled'[m] = Settled[m] /\ delivered'[m] = delivered[m]
           subscript == <<delivered, tried, handled, Settled>>
<1>1. DC!Init => Inv
  BY DEF DC!Init, Settled, SettledForAReason
<1>2. Inv /\ [DC!Next]_subscript => Inv' /\ Good
  <2> SUFFICES ASSUME Inv, [DC!Next]_subscript PROVE Inv' /\ Good
    OBVIOUS
  <2>1. DOMAIN Settled = Messages
    BY DEF Settled
  <2>2. CASE DC!Next
    BY <2>1, <2>2, DurableSteps DEF SettledForAReason
  <2>3. CASE UNCHANGED subscript
    BY <2>3 DEF SettledForAReason
  <2> QED
    BY <2>2, <2>3
<1>3. DC!Spec => DC!Init /\ [][DC!Next]_subscript
  BY DEF DC!Spec, Settled
<1> HIDE DEF Inv
<1>4. Inv => SettledForAReason
  BY DEF Inv
<1> QED
  BY <1>1, <1>2, <1>3, <1>4, PTL DEF SettledForGood

\* An acknowledged message was handled, one that is given up had max_deliver
\* deliveries, and neither is ever owed or delivered again, whichever replica
\* acknowledges, refuses or lets AckWait elapse when (broker.go:109-131).
THEOREM MessagesAreSettledForGood == PullSpec => []SettledForAReason /\ SettledForGood
BY ImplementsDurableConsumer, DurableKeepsItsPromise, PTL DEF RefinesDurableConsumer

-----------------------------------------------------------------------------
\* Deliveries no handler sees.

\* Nothing but handlers ever fails, as often as it may.
OnlyHandlersFail == NatsFaults \subseteq {"handler"}

GoingOn ==
    /\ dropped = {}
    /\ \A p \in Replicas : ctx[p] # "cancelled" /\ fetcher[p] # "wait"

\* Every delivery was handled or waits for a handler in one of the processes.
AllReachHandlers ==
    \A d \in Deliveries :
        d[2] <= delivered[d[1]] => d \in tried \/ \E p \in Replicas : d \in HeldBy(p)

LEMMA GoingOn_Next ==
    ASSUME OnlyHandlersFail, IInv, GoingOn, [PullNext]_pullVars
    PROVE  GoingOn'
<1> USE DEF OnlyHandlersFail, Fault, IInv, PullTypeOK, GoingOn
<1>1. ASSUME NEW m \in Messages, AckWaitElapses(m) PROVE GoingOn'
  BY <1>1 DEF AckWaitElapses, processVars
<1>2. ASSUME NEW p \in Replicas, FetcherStep(p) PROVE GoingOn'
  BY <1>2 DEF FetcherStep, CheckPlan, Fetch, FetchFails, Dispatch, DispatchStops, Close,
              FetcherGoes
<1>3. ASSUME NEW p \in Replicas, RunPullConsumer(p) PROVE GoingOn'
  BY <1>3 DEF RunPullConsumer, Start, Runtime
<1>4. ASSUME NEW p \in Replicas, Bootstrap(p) \/ CreateFails(p) PROVE GoingOn'
  BY <1>4 DEF Bootstrap, CreateFails, processVars
<1>5. ASSUME NEW p \in Replicas PROVE ~Exit(p) /\ ~Crash(p) /\ ~Stop(p)
  BY DEF Exit, Crash, Stop
<1>6. ASSUME NEW p \in Replicas, NEW w \in Workers, WorkerStep(p, w) PROVE GoingOn'
  BY <1>6 DEF WorkerStep, Take, WorkerStops, HandlerSucceeds, HandlerFails, Ack, Nak
<1>7. CASE UNCHANGED pullVars
  BY <1>7 DEF pullVars, processVars
<1> QED
  BY <1>1, <1>2, <1>3, <1>4, <1>5, <1>6, <1>7 DEF PullNext, MainStep

\* Without stops, crashes and failing calls no delivery is used up in vain, whatever
\* overtakes what: a message given up then was in the hands of a handler each of
\* its max_deliver times, or still waits for one (pull_consumer_runtime.go:94-163).
THEOREM OnlyFaultsWasteDeliveries ==
    ASSUME OnlyHandlersFail
    PROVE  PullSpec => []AllReachHandlers
<1>1. PullInit => GoingOn
  BY DEF PullInit, GoingOn
<1>2. IInv /\ GoingOn /\ [PullNext]_pullVars => GoingOn'
  BY GoingOn_Next
<1>3. IInv /\ Account /\ GoingOn => AllReachHandlers
  BY DEF Account, Shared, Counted, GoingOn, AllReachHandlers
<1> QED
  BY <1>1, <1>2, <1>3, Account_Always, PTL DEF PullSpec
=============================================================================
