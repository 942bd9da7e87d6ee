------------------------- MODULE ServiceProcessProofs -------------------------
(***************************************************************************)
(* The order of the stop hooks is safe: for any number of concurrent calls *)
(* and any set of consumers, whenever the process is stopped and whatever  *)
(* fails.                                                                  *)
(***************************************************************************)
EXTENDS ServiceProcess, FiniteSetTheorems, TLAPS

\* Where a consumer is, and where it has a reader that is open.
Places == {"off", "check", "open", "fetch", "claim", "handle", "sleep", "ended"}
Reading == {"fetch", "claim", "handle"}

USE DEF serverVars, loopVars, Places, Reading

LEMMA HookFacts ==
    /\ Len(HookOrder) = 9
    /\ HookOrder[1] = "db" /\ HookOrder[2] = "broker" /\ HookOrder[3] = "redis"
    /\ HookOrder[4] = "files" /\ HookOrder[5] = "saga" /\ HookOrder[6] = "relay"
    /\ HookOrder[7] = "subscriber" /\ HookOrder[8] = "recovery"
    /\ HookOrder[9] = "grpc"
BY DEF HookOrder

-----------------------------------------------------------------------------
\* The inductive invariant: what is done before each hook, and what is known of
\* a consumer by where it is.

BeforeStart ==
    process = "built" =>
        /\ server = "off" /\ ~served /\ ~refused /\ stores = AllStores
        /\ \A c \in Loops : ctx[c] = "none" /\ at[c] = "off" /\ readers[c] = <<>>

WhileRunning == process = "running" => ~refused /\ stores = AllStores

HooksDone ==
    process = "stopping" =>
        /\ \A c \in Loops : \A i \in (hook + 1)..9 :
              HookOrder[i] = HookOf(c) => ctx[c] = "cancelled"
        /\ hook < 9 => refused /\ Running = {}
        /\ hook >= 4 => stores = AllStores

ServerDone ==
    /\ server \in {"off", "listen", "serve"} => ~served
    /\ ~served => Running = {}
    /\ server = "broken" => "accept" \in ProcessFaults
    /\ process = "panicked" /\ server # "broken" => ~served

ConsumerInv(c) ==
    /\ \A i \in 1..(Len(readers[c]) - 1) : ~readers[c][i]
    /\ at[c] \in Reading => Len(readers[c]) > 0
    /\ at[c] \notin Reading =>
          \A i \in 1..Len(readers[c]) : ~readers[c][i]
    /\ Alive /\ at[c] \in Reading /\ ~Last(c) => ctx[c] = "cancelled"
    /\ late[c] = 0 \/ (late[c] = 1 /\ at[c] # "open" /\ ctx[c] = "cancelled")

IInv ==
    /\ ServiceTypeOK
    /\ BeforeStart
    /\ WhileRunning
    /\ HooksDone
    /\ ServerDone
    /\ \A c \in Loops : ConsumerInv(c)

LEMMA Init_IInv == ServiceInit => IInv
<1> SUFFICES ASSUME ServiceInit PROVE IInv
  OBVIOUS
<1> USE HookFacts DEF ServiceInit
<1>1. ServiceTypeOK
  <2>1. /\ readers \in [Loops -> Seq(BOOLEAN)]
        /\ ctx \in [Loops -> {"none", "live", "cancelled"}]
        /\ at \in [Loops -> Places]
        /\ late \in [Loops -> Nat]
    OBVIOUS
  <2>2. delay \in [Loops -> {1, 2, 4, 8, 16, 30}]
    OBVIOUS
  <2>3. /\ process = "built" /\ hook = 0 /\ stores = AllStores /\ server = "off"
        /\ refused = FALSE /\ served = FALSE
        /\ call \in [Calls -> BOOLEAN]
    OBVIOUS
  <2>4. hook \in 0..Len(HookOrder)
    BY <2>3, HookFacts
  <2> HIDE DEF ServiceInit
  <2> QED
    BY <2>1, <2>2, <2>3, <2>4, Zenon DEF ServiceTypeOK
<1>2. BeforeStart /\ WhileRunning /\ HooksDone
  BY DEF BeforeStart, WhileRunning, HooksDone
<1>3. ServerDone
  BY DEF ServerDone, Running
<1>4. \A c \in Loops : ConsumerInv(c)
  BY DEF ConsumerInv
<1> QED
  BY <1>1, <1>2, <1>3, <1>4 DEF IInv

-----------------------------------------------------------------------------
\* The consumers.

\* A consumer that is alone in changing, while the process is alive.
LEMMA Consumer_Step ==
    ASSUME IInv, NEW c \in Loops, Alive,
           UNCHANGED <<process, hook, stores, serverVars, ctx>>,
           at' \in [Loops -> Places],
           readers' \in [Loops -> Seq(BOOLEAN)],
           delay' \in [Loops -> {1, 2, 4, 8, 16, 30}],
           late' \in [Loops -> Nat],
           \A q \in Loops \ {c} : /\ at'[q] = at[q] /\ readers'[q] = readers[q]
                                  /\ late'[q] = late[q],
           ConsumerInv(c)'
    PROVE  IInv'
<1>1. ServiceTypeOK'
  BY DEF IInv, ServiceTypeOK
<1>2. BeforeStart' /\ WhileRunning' /\ HooksDone' /\ ServerDone'
  BY DEF IInv, Alive, BeforeStart, WhileRunning, HooksDone, ServerDone, Running
<1>3. ASSUME NEW q \in Loops, q # c PROVE ConsumerInv(q)'
  BY <1>3 DEF IInv, ConsumerInv, Last, Alive
<1> QED
  BY <1>1, <1>2, <1>3 DEF IInv

LEMMA Returns_Step ==
    ASSUME IInv, NEW c \in Loops, Alive, at[c] \in Reading,
           NEW err \in BOOLEAN, Returns(c, err)
    PROVE  IInv'
<1> DEFINE n == Len(readers[c])
           step == AfterReturn(c, err)
<1>1. /\ readers[c] \in Seq(BOOLEAN) /\ n \in Nat \ {0}
      /\ readers \in [Loops -> Seq(BOOLEAN)]
      /\ at \in [Loops -> Places]
      /\ \A i \in 1..(n - 1) : ~readers[c][i]
  BY DEF IInv, ServiceTypeOK, ConsumerInv
<1>2. step \in {"check", "sleep"}
  BY DEF AfterReturn
<1>3. /\ readers'[c] \in Seq(BOOLEAN)
      /\ Len(readers'[c]) = n
      /\ \A i \in 1..n : ~readers'[c][i]
      /\ readers' \in [Loops -> Seq(BOOLEAN)]
      /\ \A q \in Loops \ {c} : readers'[q] = readers[q]
  <2>1. readers'[c] = [readers[c] EXCEPT ![n] = FALSE]
    BY <1>1 DEF Returns
  <2>2. readers'[c] \in Seq(BOOLEAN) /\ Len(readers'[c]) = n
    BY <1>1, <2>1
  <2>3. \A i \in 1..n : ~readers'[c][i]
    BY <1>1, <2>1
  <2> QED
    BY <1>1, <2>2, <2>3 DEF Returns
<1>4. /\ at'[c] = step
      /\ \A q \in Loops \ {c} : at'[q] = at[q]
  BY <1>1 DEF Returns, Goes
<1>5. /\ at' \in [Loops -> Places]
      /\ UNCHANGED <<process, hook, stores, serverVars, ctx, delay, late>>
      /\ delay' \in [Loops -> {1, 2, 4, 8, 16, 30}]
      /\ late' \in [Loops -> Nat]
  BY <1>1, <1>2 DEF Returns, Goes, IInv, ServiceTypeOK
<1>6. ConsumerInv(c)'
  BY <1>2, <1>3, <1>4, <1>5 DEF IInv, ConsumerInv
<1> HIDE DEF n, step
<1> QED
  BY <1>3, <1>4, <1>5, <1>6, Consumer_Step

LEMMA Loop_IInv ==
    ASSUME IInv, NEW c \in Loops, LoopStep(c)
    PROVE  IInv'
<1> DEFINE Delays == {1, 2, 4, 8, 16, 30}
<1>1. /\ readers \in [Loops -> Seq(BOOLEAN)] /\ readers[c] \in Seq(BOOLEAN)
      /\ at \in [Loops -> Places]
      /\ delay \in [Loops -> Delays]
      /\ late \in [Loops -> Nat]
      /\ ctx \in [Loops -> {"none", "live", "cancelled"}]
      /\ ConsumerInv(c)
  BY DEF IInv, ServiceTypeOK
<1>2. ASSUME NEW step \in Places, Goes(c, step)
      PROVE  /\ at' \in [Loops -> Places] /\ at'[c] = step
             /\ \A q \in Loops \ {c} : at'[q] = at[q]
  BY <1>1, <1>2 DEF Goes
<1>3. CASE Check(c)
  <2>1. PICK step \in {"ended", "open"} :
             Goes(c, step) /\ (step = "open" => ctx[c] # "cancelled")
    BY <1>3 DEF Check
  <2>2. ConsumerInv(c)'
    BY <1>1, <1>2, <1>3, <2>1 DEF Check, ConsumerInv
  <2> QED
    BY <1>1, <1>2, <1>3, <2>1, <2>2, Consumer_Step DEF Check
<1>4. CASE Open(c)
  <2>1. /\ readers'[c] = Append(readers[c], TRUE)
        /\ readers' \in [Loops -> Seq(BOOLEAN)]
        /\ \A q \in Loops \ {c} : readers'[q] = readers[q]
    <3>1. Append(readers[c], TRUE) \in Seq(BOOLEAN)
      BY <1>1
    <3>2. readers' = [readers EXCEPT ![c] = Append(readers[c], TRUE)]
      BY <1>4 DEF Open
    <3> QED
      BY <1>1, <3>1, <3>2
  <2>2. /\ Len(readers'[c]) = Len(readers[c]) + 1
        /\ readers'[c][Len(readers'[c])] = TRUE
        /\ \A i \in 1..Len(readers[c]) : readers'[c][i] = readers[c][i]
    BY <1>1, <2>1
  <2>3. late[c] = 0
    BY <1>4 DEF Open, IInv, ConsumerInv
  <2>4. /\ late' \in [Loops -> Nat]
        /\ late'[c] = IF ctx[c] = "cancelled" THEN 1 ELSE 0
        /\ \A q \in Loops \ {c} : late'[q] = late[q]
    BY <1>1, <1>4, <2>3 DEF Open
  <2>5. at'[c] = "fetch" /\ UNCHANGED ctx
    BY <1>2, <1>4 DEF Open
  <2>6. \A i \in 1..Len(readers[c]) : ~readers[c][i]
    BY <1>4 DEF Open, IInv, ConsumerInv
  <2>7. ConsumerInv(c)'
    <3> DEFINE n == Len(readers[c])
    <3>1. n \in Nat /\ Len(readers'[c]) = n + 1
      BY <1>1, <2>2
    <3>2. \A i \in 1..(Len(readers'[c]) - 1) : ~readers'[c][i]
      BY <2>2, <2>6, <3>1
    <3>3. Last(c)'
      BY <2>2 DEF Last
    <3>4. late'[c] = 0 \/ (late'[c] = 1 /\ ctx'[c] = "cancelled")
      BY <2>4, <2>5
    <3> QED
      BY <2>5, <3>1, <3>2, <3>3, <3>4 DEF ConsumerInv
  <2> QED
    BY <1>1, <1>2, <1>4, <2>1, <2>4, <2>7, Consumer_Step DEF Open
<1>5. CASE FetchMessage(c) \/ Claim(c) \/ Handled(c)
  <2>1. PICK step \in Reading :
             Goes(c, step) /\ UNCHANGED <<process, hook, stores, serverVars, ctx,
                                          readers, delay, late>>
             /\ Alive /\ at[c] \in Reading
    BY <1>5 DEF FetchMessage, Claim, Handled
  <2>2. ConsumerInv(c)'
    BY <1>1, <1>2, <2>1 DEF ConsumerInv, Last, Alive
  <2> QED
    BY <1>1, <1>2, <2>1, <2>2, Consumer_Step
<1>6. CASE FetchFails(c) \/ ClaimFails(c) \/ HandleReturns(c)
  BY <1>6, Returns_Step DEF FetchFails, ClaimFails, HandleReturns
<1>7. CASE Wake(c)
  <2>1. /\ UNCHANGED <<process, hook, stores, serverVars, ctx, readers, late>>
        /\ Alive /\ at[c] = "sleep"
    BY <1>7 DEF Wake
  <2>2. PICK step \in {"check", "ended"} : Goes(c, step)
    BY <1>7 DEF Wake
  <2>3. \A seconds \in Delays : Doubled(seconds) \in Delays
    BY DEF Doubled
  <2>4. delay' = delay \/ delay' = [delay EXCEPT ![c] = Doubled(delay[c])]
    BY <1>7 DEF Wake
  <2>5. delay' \in [Loops -> Delays]
    <3>1. delay[c] \in Delays
      BY <1>1
    <3>2. Doubled(delay[c]) \in Delays
      BY <2>3, <3>1
    <3> HIDE DEF Delays
    <3> QED
      BY <1>1, <2>4, <3>2
  <2>6. ConsumerInv(c)'
    BY <1>1, <1>2, <2>1, <2>2 DEF ConsumerInv
  <2> QED
    BY <1>1, <1>2, <2>1, <2>2, <2>5, <2>6, Consumer_Step
<1> QED
  BY <1>3, <1>4, <1>5, <1>6, <1>7 DEF LoopStep

-----------------------------------------------------------------------------
\* The server.

LEMMA Server_IInv ==
    ASSUME IInv,
           \/ ServerStep
           \/ \E s \in Calls : Accept(s) \/ CallEnds(s)
    PROVE  IInv'
<1>1. /\ UNCHANGED <<hook, stores, refused, loopVars>>
      /\ process' = process \/ process' = "panicked"
      /\ Alive
  BY DEF ServerStep, Listen, ServeCall, ServeReturns, ListenerBreaks, ServeFails, Serving, Accept, CallEnds, Panic
<1>2. ServiceTypeOK'
  BY <1>1 DEF ServerStep, Listen, ServeCall, ServeReturns, ListenerBreaks, ServeFails, Serving, Accept, CallEnds, Panic,
              IInv, ServiceTypeOK
<1>3. \A c \in Loops : ConsumerInv(c)'
  BY <1>1 DEF IInv, ConsumerInv, Last, Alive
<1>4. BeforeStart' /\ WhileRunning'
  BY <1>1 DEF Alive, IInv, BeforeStart, WhileRunning
<1>5. HooksDone'
  <2>1. ASSUME process' = "stopping", hook < 9
        PROVE  Running' = {}
    <3>1. refused /\ Running = {} /\ process = "stopping"
      BY <1>1, <2>1 DEF IInv, HooksDone, Alive
    <3>2. \A s \in Calls : call'[s] => call[s]
      BY <3>1 DEF ServerStep, Listen, ServeCall, ServeReturns, ListenerBreaks, ServeFails, Serving, Accept, CallEnds,
                  IInv, ServiceTypeOK
    <3> QED
      BY <3>1, <3>2 DEF Running
  <2> QED
    BY <1>1, <2>1 DEF IInv, HooksDone, Alive
<1>6. ServerDone'
  <2>1. CASE ServerStep
    BY <2>1 DEF ServerStep, Listen, ServeCall, ServeReturns, ListenerBreaks, ServeFails, Panic, Running, Alive,
                IInv, ServerDone
  <2>2. ASSUME NEW s \in Calls, Accept(s)
        PROVE  ServerDone'
    BY <2>2 DEF Accept, Serving, IInv, ServerDone, Alive
  <2>3. ASSUME NEW s \in Calls, CallEnds(s)
        PROVE  ServerDone'
    <3>1. \A t \in Calls : call'[t] => call[t]
      BY <2>3 DEF CallEnds, IInv, ServiceTypeOK
    <3>2. Running # {}
      BY <2>3 DEF CallEnds, Running
    <3> QED
      BY <2>3, <3>1, <3>2 DEF CallEnds, Alive, IInv, ServerDone, Running
  <2> QED
    BY <2>1, <2>2, <2>3
<1> QED
  BY <1>2, <1>3, <1>4, <1>5, <1>6 DEF IInv

-----------------------------------------------------------------------------
\* Start, stop and exit.

LEMMA Start_IInv ==
    ASSUME IInv, StartApp \/ Signal \/ Exit
    PROVE  IInv'
<1> USE HookFacts
<1>1. ServiceTypeOK'
  BY DEF StartApp, Signal, Exit, IInv, ServiceTypeOK
<1>2. BeforeStart' /\ WhileRunning' /\ HooksDone' /\ ServerDone'
  BY DEF StartApp, Signal, Exit, IInv, ServiceTypeOK, BeforeStart, WhileRunning,
         HooksDone, ServerDone, Running
<1>3. ASSUME NEW c \in Loops
      PROVE  ConsumerInv(c)'
  <2>1. ConsumerInv(c)
    BY DEF IInv
  <2>2. CASE StartApp
    <3>1. at[c] = "off" /\ ctx[c] = "none" /\ readers[c] = <<>> /\ late[c] = 0
      BY <2>1, <2>2 DEF StartApp, IInv, BeforeStart, ConsumerInv
    <3>2. at'[c] = "check" /\ readers'[c] = <<>> /\ late'[c] = 0
      BY <2>2, <3>1 DEF StartApp
    <3> QED
      BY <3>2 DEF ConsumerInv
  <2>3. CASE Signal \/ Exit
    BY <2>1, <2>3 DEF Signal, Exit, ConsumerInv, Last, Alive
  <2> QED
    BY <2>2, <2>3
<1> QED
  BY <1>1, <1>2, <1>3 DEF IInv

LEMMA AllCancelled ==
    ASSUME IInv, process = "stopping", hook < 5
    PROVE  \A c \in Loops : ctx[c] = "cancelled"
<1> SUFFICES ASSUME NEW c \in Loops PROVE ctx[c] = "cancelled"
  OBVIOUS
<1>1. hook \in 0..4
  BY HookFacts DEF IInv, ServiceTypeOK
<1>2. \E i \in 5..8 : HookOrder[i] = HookOf(c)
  BY HookFacts, ProcessAssumption DEF HookOf, AllLoops
<1> QED
  BY <1>1, <1>2 DEF IInv, HooksDone

LEMMA Stop_IInv ==
    ASSUME IInv, StopStep
    PROVE  IInv'
<1> USE HookFacts
<1>0. process = "stopping" /\ UNCHANGED <<process, server, call, served>>
  BY DEF StopStep, Shutdown, ShutdownReturns, Cancel, CloseStore, CloseBroker, Turn
<1>1. BeforeStart' /\ WhileRunning' /\ ServerDone'
  BY <1>0 DEF IInv, BeforeStart, WhileRunning, ServerDone, Running
<1>2. hook \in 0..9
  BY DEF IInv, ServiceTypeOK
<1>3. CASE Shutdown
  <2>1. ServiceTypeOK' /\ HooksDone'
    BY <1>0, <1>3 DEF Shutdown, Turn, IInv, ServiceTypeOK, HooksDone, Running
  <2>2. \A c \in Loops : ConsumerInv(c)'
    BY <1>3 DEF Shutdown, IInv, ConsumerInv, Last, Alive
  <2> QED
    BY <1>1, <2>1, <2>2 DEF IInv
<1>4. CASE ShutdownReturns
  <2>1. hook = 9 /\ hook' = 8
    BY <1>2, <1>4 DEF ShutdownReturns, Turn, HookReturns
  <2>2. ServiceTypeOK'
    BY <1>4, <2>1 DEF ShutdownReturns, IInv, ServiceTypeOK
  <2>3. \A c \in Loops : HookOf(c) # "grpc"
    BY ProcessAssumption DEF HookOf, AllLoops
  <2>4. HooksDone'
    BY <1>0, <1>4, <2>1, <2>3 DEF ShutdownReturns, IInv, HooksDone, Running
  <2>5. \A c \in Loops : ConsumerInv(c)'
    BY <1>4 DEF ShutdownReturns, IInv, ConsumerInv, Last, Alive
  <2> QED
    BY <1>1, <2>2, <2>4, <2>5 DEF IInv
<1>5. CASE Cancel
  <2>1. /\ hook \in 5..8 /\ hook' = hook - 1
        /\ ctx' = [c \in Loops |-> IF HookOf(c) = HookOrder[hook]
                                   THEN "cancelled" ELSE ctx[c]]
        /\ UNCHANGED <<stores, refused, at, readers, delay, late>>
    BY <1>2, <1>5 DEF Cancel, Turn, HookReturns
  <2>2. \A c \in Loops : ctx'[c] = "cancelled" \/ ctx'[c] = ctx[c]
    BY <2>1
  <2>3. ServiceTypeOK'
    BY <1>0, <2>1 DEF IInv, ServiceTypeOK
  <2>4. HooksDone'
    <3>1. ASSUME NEW c \in Loops, NEW i \in hook..9, HookOrder[i] = HookOf(c)
          PROVE  ctx'[c] = "cancelled"
      BY <1>0, <2>1, <3>1 DEF IInv, HooksDone
    <3> QED
      BY <1>0, <2>1, <3>1 DEF IInv, HooksDone, Running
  <2>5. ASSUME NEW c \in Loops
        PROVE  ConsumerInv(c)'
    BY <1>0, <2>1, <2>2 DEF IInv, ConsumerInv, Last, Alive
  <2> QED
    BY <1>1, <2>3, <2>4, <2>5 DEF IInv
<1>6. CASE CloseStore
  <2>1. /\ hook \in {1, 3, 4} /\ hook' = hook - 1
        /\ stores' \subseteq stores
        /\ UNCHANGED <<refused, ctx, at, readers, delay, late>>
    BY <1>2, <1>6 DEF CloseStore, Turn, HookReturns, AllStores
  <2>2. ServiceTypeOK'
    BY <1>0, <2>1 DEF IInv, ServiceTypeOK
  <2>3. HooksDone'
    BY <1>0, <2>1, AllCancelled DEF IInv, HooksDone, Running
  <2>4. \A c \in Loops : ConsumerInv(c)'
    BY <1>0, <2>1 DEF IInv, ConsumerInv, Last, Alive
  <2> QED
    BY <1>1, <2>2, <2>3, <2>4 DEF IInv
<1>7. CASE CloseBroker
  <2>1. /\ hook = 2 /\ hook' = 1
        /\ readers' = [c \in Loops |-> [i \in DOMAIN readers[c] |-> FALSE]]
        /\ UNCHANGED <<stores, refused, ctx, at, delay, late>>
    BY <1>2, <1>7 DEF CloseBroker, Turn, HookReturns
  <2>2. ASSUME NEW c \in Loops
        PROVE  /\ readers'[c] \in Seq(BOOLEAN)
               /\ Len(readers'[c]) = Len(readers[c])
               /\ \A i \in 1..Len(readers[c]) : ~readers'[c][i]
    <3>1. readers[c] \in Seq(BOOLEAN)
      BY DEF IInv, ServiceTypeOK
    <3>2. readers'[c] = [i \in 1..Len(readers[c]) |-> FALSE]
      BY <2>1, <3>1
    <3> QED
      BY <3>1, <3>2
  <2>3. ServiceTypeOK'
    <3>1. readers' \in [Loops -> Seq(BOOLEAN)]
      BY <2>1, <2>2
    <3> QED
      BY <1>0, <2>1, <3>1 DEF IInv, ServiceTypeOK
  <2>4. HooksDone'
    BY <1>0, <2>1, AllCancelled DEF IInv, HooksDone, Running
  <2>5. ASSUME NEW c \in Loops
        PROVE  ConsumerInv(c)'
    <3>1. ctx'[c] = "cancelled"
      BY <1>0, <2>1, AllCancelled
    <3>2. Len(readers[c]) \in Nat
      BY DEF IInv, ServiceTypeOK
    <3> QED
      BY <2>1, <2>2, <3>1, <3>2 DEF IInv, ConsumerInv
  <2> QED
    BY <1>1, <2>3, <2>4, <2>5 DEF IInv
<1> QED
  BY <1>3, <1>4, <1>5, <1>6, <1>7 DEF StopStep

LEMMA Next_IInv == IInv /\ [ServiceNext]_serviceVars => IInv'
<1> SUFFICES ASSUME IInv, [ServiceNext]_serviceVars PROVE IInv'
  OBVIOUS
<1>1. CASE UNCHANGED serviceVars
  BY <1>1 DEF serviceVars, IInv, ServiceTypeOK, BeforeStart, WhileRunning, HooksDone,
              ServerDone, ConsumerInv, Running, Alive, Last
<1> QED
  BY <1>1, Loop_IInv, Server_IInv, Start_IInv, Stop_IInv DEF ServiceNext

LEMMA Always_IInv == ServiceSpec => []IInv
BY Init_IInv, Next_IInv, PTL DEF ServiceSpec

-----------------------------------------------------------------------------

\* The type invariant, for any set of consumers: the delays stay within 30 seconds
\* (fx/presentation.go:65-70).
THEOREM TypeCorrect == ServiceSpec => []ServiceTypeOK
<1>1. IInv => ServiceTypeOK
  BY DEF IInv
<1> QED
  BY <1>1, Always_IInv, PTL

\* However many calls run when the process is told to stop, none of them meets a
\* closed store (server.go:71-75, presentation.go:157-173).
THEOREM CallsKeepTheirStores == ServiceSpec => []CallsFindStoresOpen
<1>1. IInv => CallsFindStoresOpen
  BY HookFacts DEF IInv, ServiceTypeOK, CallsFindStoresOpen, Alive, WhileRunning, HooksDone
<1> QED
  BY <1>1, Always_IInv, PTL

\* The database, Redis, the files and the broker close only under consumers whose
\* context was cancelled (storage.go:50-74, messaging.go:52-57).
THEOREM StoresOutliveConsumers == ServiceSpec => []OnlyCancelledOutliveStores
<1>1. IInv => OnlyCancelledOutliveStores
  <2> SUFFICES ASSUME IInv, NEW c \in Loops
               PROVE  /\ Alive /\ stores # AllStores => ctx[c] = "cancelled"
                      /\ Alive /\ at[c] \in Reading /\ ~Last(c) =>
                            ctx[c] = "cancelled"
    BY DEF OnlyCancelledOutliveStores
  <2>1. Alive /\ stores # AllStores => process = "stopping" /\ hook < 5
    BY HookFacts DEF IInv, ServiceTypeOK, Alive, WhileRunning, HooksDone
  <2> QED
    BY <2>1, AllCancelled DEF IInv, ConsumerInv
<1> QED
  BY <1>1, Always_IInv, PTL

\* A consumer that was called any number of times has one reader open at most, and
\* opens at most one after its stop hook (broker.go:85-95, saga.go:71-77).
THEOREM OneReaderOpen == ServiceSpec => []ReadersAreBounded
<1>1. IInv => ReadersAreBounded
  <2> SUFFICES ASSUME IInv, NEW c \in Loops
               PROVE  /\ Cardinality({i \in DOMAIN readers[c] : readers[c][i]}) <= 1
                      /\ late[c] <= 1
    BY DEF ReadersAreBounded
  <2>1. late[c] <= 1
    BY DEF IInv, ConsumerInv
  <2> DEFINE n == Len(readers[c])
             open == {i \in DOMAIN readers[c] : readers[c][i]}
  <2>2. open = {} \/ open = {n}
    <3>1. readers[c] \in Seq(BOOLEAN) /\ n \in Nat /\ DOMAIN readers[c] = 1..n
      BY DEF IInv, ServiceTypeOK
    <3>2. \A i \in 1..(n - 1) : ~readers[c][i]
      BY DEF IInv, ConsumerInv
    <3>3. open \subseteq {n}
      BY <3>1, <3>2
    <3> QED
      BY <3>3
  <2>3. Cardinality(open) <= 1
    <3>1. Cardinality({}) = 0 /\ Cardinality({n}) = 1
      BY FS_EmptySet, FS_Singleton
    <3>2. Cardinality(open) \in {0, 1}
      <4> HIDE DEF open, n
      <4> QED
        BY <2>2, <3>1, Zenon
    <3> HIDE DEF open
    <3> QED
      BY <3>2
  <2> QED
    BY <2>1, <2>3
<1> QED
  BY <1>1, Always_IInv, PTL

\* Whenever the stop comes, the end of Serve is a panic only in a process that never
\* accepted a call, or whose listener broke (server.go:61-68, presentation.go:162-171).
THEOREM PanicsComeFirst == ServiceSpec => []PanicsBeforeServing
<1>1. IInv => PanicsBeforeServing
  BY DEF IInv, ServerDone, PanicsBeforeServing
<1> QED
  BY <1>1, Always_IInv, PTL

\* So a process whose listener does not fail cuts off no call by a panic.
THEOREM PanicsAreHarmless ==
    ASSUME "accept" \notin ProcessFaults
    PROVE  ServiceSpec => [](process = "panicked" => ~served /\ Running = {})
<1>1. IInv => (process = "panicked" => ~served /\ Running = {})
  BY DEF IInv, ServerDone
<1> QED
  BY <1>1, Always_IInv, PTL

-----------------------------------------------------------------------------
\* How a consumer ends.

\* How many steps a consumer whose context is cancelled still has at most.
StepsToEnd == [off |-> 0, ended |-> 0, check |-> 1, sleep |-> 2, claim |-> 2,
               fetch |-> 3, open |-> 4, handle |-> 4]

WindsDown(c) ==
    /\ at'[c] = at[c] \/ StepsToEnd[at'[c]] < StepsToEnd[at[c]]
    /\ at'[c] = "handle" => at[c] = "handle"

CancelledWindDown ==
    [][\A c \in Loops : ctx[c] = "cancelled" => ctx'[c] = "cancelled" /\ WindsDown(c)
      ]_serviceVars

\* A cancelled consumer takes four steps at most to its end.  It can be handed one
\* message more, which its reader had buffered, but handles none: the claim fails
\* with the context.  It opens a reader only if it had passed its check before,
\* wherever the cancellation hits it (kafka/broker.go:91-101, kafka/saga.go:66-91,
\* fx/presentation.go:43-71).
THEOREM CancelledConsumersEnd == ServiceSpec => CancelledWindDown
<1>1. ASSUME IInv, [ServiceNext]_serviceVars, NEW c \in Loops, ctx[c] = "cancelled"
      PROVE  ctx'[c] = "cancelled" /\ WindsDown(c)
  <2>1. /\ at \in [Loops -> Places]
        /\ ctx \in [Loops -> {"none", "live", "cancelled"}]
    BY <1>1 DEF IInv, ServiceTypeOK
  <2>2. ASSUME NEW d \in Loops, LoopStep(d)
        PROVE  UNCHANGED ctx
    BY <2>2 DEF LoopStep, Check, Open, FetchMessage, Claim, ClaimFails, Handled, FetchFails, HandleReturns,
                Returns, Wake
  <2>3. ASSUME NEW d \in Loops, d # c, LoopStep(d)
        PROVE  at'[c] = at[c]
    BY <2>1, <2>3 DEF LoopStep, Check, Open, FetchMessage, Claim, ClaimFails, Handled, FetchFails,
                      HandleReturns, Returns, Wake, Goes
  <2>4. ASSUME LoopStep(c)
        PROVE  StepsToEnd[at'[c]] < StepsToEnd[at[c]] /\ at'[c] # "handle"
    <3>1. \/ at[c] = "check" /\ at'[c] = "ended"
          \/ at[c] = "open" /\ at'[c] = "fetch"
          \/ at[c] = "handle" /\ at'[c] \in {"fetch", "check"}
          \/ at[c] = "fetch" /\ at'[c] \in {"claim", "check"}
          \/ at[c] = "claim" /\ at'[c] = "check"
          \/ at[c] = "sleep" /\ at'[c] \in {"check", "ended"}
      BY <1>1, <2>1, <2>4 DEF LoopStep, Check, Open, FetchMessage, Claim, ClaimFails, Handled, FetchFails,
                      HandleReturns, Returns, AfterReturn, Wake, Goes
    <3> QED
      BY <3>1 DEF StepsToEnd
  <2>5. ~StartApp
    BY <1>1 DEF StartApp, IInv, BeforeStart
  <2>6. ASSUME NEW s, Accept(s) \/ CallEnds(s)
        PROVE  UNCHANGED <<at, ctx>>
    BY <2>6 DEF Accept, CallEnds
  <2>7. CASE ServerStep \/ Signal \/ Exit \/ UNCHANGED serviceVars
    BY <1>1, <2>7 DEF ServerStep, Listen, ServeCall, ServeReturns, ListenerBreaks, ServeFails, Signal, Exit,
                      serviceVars, WindsDown
  <2>8. CASE StopStep
    BY <1>1, <2>1, <2>8 DEF StopStep, Shutdown, ShutdownReturns, Cancel, CloseStore,
                            CloseBroker, WindsDown
  <2> QED
    BY <1>1, <2>2, <2>3, <2>4, <2>5, <2>6, <2>7, <2>8 DEF ServiceNext, WindsDown
<1>2. IInv /\ [ServiceNext]_serviceVars =>
          \A c \in Loops : ctx[c] = "cancelled" => ctx'[c] = "cancelled" /\ WindsDown(c)
  BY <1>1
<1> QED
  BY <1>2, Always_IInv, PTL DEF ServiceSpec, CancelledWindDown

-----------------------------------------------------------------------------
\* What is left once every hook has run.

LeftOpen(c) == {i \in DOMAIN readers[c] : readers[c][i]}

\* The hooks that close something, each once its turn is over.
Closed ==
    process = "stopping" =>
        /\ \A i \in (hook + 1)..9 : HookOrder[i] \notin stores
        /\ hook < 2 => \A c \in Loops : LeftOpen(c) # {} => late[c] = 1

StopIsComplete ==
    process = "stopping" /\ hook = 0 =>
        /\ stores = {}
        /\ refused /\ Running = {}
        /\ \A c \in Loops : /\ ctx[c] = "cancelled"
                            /\ LeftOpen(c) # {} => late[c] = 1

LEMMA Closed_Next == ASSUME IInv, Closed, [ServiceNext]_serviceVars PROVE Closed'
<1> USE HookFacts
<1>0. /\ hook \in 0..9 /\ stores \subseteq AllStores
      /\ \A c \in Loops : readers[c] \in Seq(BOOLEAN) /\ late[c] \in Nat
  BY DEF IInv, ServiceTypeOK
<1>1. CASE UNCHANGED serviceVars
  BY <1>1 DEF serviceVars, loopVars, Closed, LeftOpen
<1>2. ASSUME process' # "stopping" PROVE Closed'
  BY <1>2 DEF Closed
<1>3. CASE Signal
  BY <1>0, <1>3 DEF Signal, Closed
<1>4. ASSUME \/ ServerStep \/ Exit
             \/ \E s \in Calls : Accept(s) \/ CallEnds(s)
      PROVE  Closed'
  <2>1. UNCHANGED <<hook, stores, readers, late>> /\ process' \in {process, "panicked", "exited"}
    BY <1>4
    DEF ServerStep, Listen, ServeCall, ServeReturns, ListenerBreaks, ServeFails, Panic, Exit, Accept, CallEnds, loopVars
  <2> QED
    BY <2>1 DEF Closed, LeftOpen
<1>5. ASSUME NEW c \in Loops, LoopStep(c) PROVE Closed'
  <2>1. UNCHANGED <<process, hook, stores>>
    BY <1>5 DEF LoopStep, Check, Open, FetchMessage, Claim, ClaimFails, Handled, FetchFails, HandleReturns,
                Returns, Wake
  <2>2. ASSUME process = "stopping", hook < 2, NEW d \in Loops, LeftOpen(d)' # {}
        PROVE  late'[d] = 1
    <3>1. CASE Open(c)
      <4>1. ctx[c] = "cancelled"
        BY <1>0, <2>2, AllCancelled
      <4>2. late' = [late EXCEPT ![c] = late[c] + 1] /\ late[c] = 0
        BY <3>1, <4>1 DEF Open, IInv, ConsumerInv
      <4>3. d # c => readers'[d] = readers[d]
        BY <3>1 DEF Open, IInv, ServiceTypeOK
      <4> QED
        BY <2>2, <4>2, <4>3 DEF IInv, ServiceTypeOK, Closed, LeftOpen
    <3>2. CASE FetchFails(c) \/ ClaimFails(c) \/ HandleReturns(c)
      <4>1. readers' = [readers EXCEPT ![c][Len(readers[c])] = FALSE] /\ late' = late
        BY <3>2 DEF FetchFails, ClaimFails, HandleReturns, Returns
      <4>2. DOMAIN readers'[d] = DOMAIN readers[d]
            /\ \A i \in DOMAIN readers[d] : readers'[d][i] => readers[d][i]
        BY <1>0, <4>1 DEF IInv, ServiceTypeOK
      <4>3. LeftOpen(d) # {}
        BY <2>2, <4>2 DEF LeftOpen
      <4> QED
        BY <2>2, <4>1, <4>3 DEF Closed
    <3>3. CASE Check(c) \/ FetchMessage(c) \/ Claim(c) \/ Handled(c) \/ Wake(c)
      BY <2>2, <3>3 DEF Check, FetchMessage, Claim, Handled, Wake, Closed, LeftOpen
    <3> QED
      BY <1>5, <3>1, <3>2, <3>3 DEF LoopStep
  <2> QED
    BY <2>1, <2>2 DEF Closed
<1>6. ASSUME StopStep PROVE Closed'
  <2>0. (process = "stopping" /\ hook > 0) \/ Shutdown
    BY <1>6 DEF StopStep, ShutdownReturns, Cancel, CloseStore, CloseBroker, Turn
  <2>1. CASE Shutdown
    BY <2>1 DEF Shutdown, Closed, LeftOpen, loopVars
  <2>2. CASE ShutdownReturns
    <3>1. hook = 9 /\ hook' = 8 /\ "grpc" \notin stores /\ stores' = stores
      BY <1>0, <2>2 DEF ShutdownReturns, Turn, HookReturns, AllStores
    <3> QED
      BY <2>2, <3>1 DEF ShutdownReturns, Turn, Closed
  <2>3. CASE Cancel
    <3>1. hook \in 5..8 /\ hook' = hook - 1 /\ HookOrder[hook] \notin stores
          /\ stores' = stores
      BY <1>0, <2>3 DEF Cancel, Turn, HookReturns, AllStores
    <3> QED
      BY <2>0, <2>3, <3>1 DEF Cancel, Turn, Closed
  <2>4. CASE CloseStore
    <3>1. hook \in {1, 3, 4} /\ hook' = hook - 1 /\ stores' = stores \ {HookOrder[hook]}
      BY <1>0, <2>4 DEF CloseStore, Turn, HookReturns, AllStores
    <3> QED
      BY <2>0, <2>4, <3>1 DEF CloseStore, Closed, LeftOpen
  <2>5. CASE CloseBroker
    <3>1. hook = 2 /\ hook' = 1 /\ stores' = stores
      BY <1>0, <2>5 DEF CloseBroker, Turn, HookReturns
    <3>2. \A c \in Loops : \A i \in DOMAIN readers'[c] : ~readers'[c][i]
      BY <2>5 DEF CloseBroker
    <3>3. "broker" \notin stores
      BY <1>0 DEF AllStores
    <3> QED
      BY <2>0, <2>5, <3>1, <3>2, <3>3 DEF CloseBroker, Closed, LeftOpen
  <2> QED
    BY <1>6, <2>1, <2>2, <2>3, <2>4, <2>5 DEF StopStep
<1>7. ~StartApp \/ process' # "stopping"
  BY DEF StartApp
<1> QED
  BY <1>1, <1>2, <1>3, <1>4, <1>5, <1>6, <1>7 DEF ServiceNext

\* When the last hook has run, the three stores are closed, no call runs and none
\* is accepted, every consumer is cancelled, and a reader is open only where a
\* consumer opened it after its own hook, behind the back of the broker that was
\* closed by then (messaging.go:52-57, saga.go:71-77, storage.go:50-74).
THEOREM StopsAreComplete == ServiceSpec => []StopIsComplete
<1>1. ServiceInit => Closed
  BY DEF ServiceInit, Closed
<1>2. IInv /\ Closed => StopIsComplete
  <2> SUFFICES ASSUME IInv, Closed, process = "stopping", hook = 0
               PROVE  /\ stores = {}
                      /\ refused /\ Running = {}
                      /\ \A c \in Loops : /\ ctx[c] = "cancelled"
                                          /\ LeftOpen(c) # {} => late[c] = 1
    BY DEF StopIsComplete
  <2>1. stores = {}
    <3>1. /\ HookOrder[1] \notin stores
          /\ HookOrder[3] \notin stores
          /\ HookOrder[4] \notin stores
      BY DEF Closed
    <3>2. "db" \notin stores /\ "redis" \notin stores /\ "files" \notin stores
      BY <3>1, HookFacts
    <3>3. stores \subseteq {"files", "redis", "db"}
      BY DEF IInv, ServiceTypeOK, AllStores
    <3> QED
      BY <3>2, <3>3
  <2> QED
    BY <2>1, AllCancelled DEF Closed, IInv, HooksDone
<1>3. IInv /\ Closed /\ [ServiceNext]_serviceVars => Closed'
  BY Closed_Next
<1> QED
  BY <1>1, <1>2, <1>3, Always_IInv, PTL DEF ServiceSpec
=============================================================================
