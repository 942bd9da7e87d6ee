---------------------------- MODULE ServiceProcess ----------------------------
(***************************************************************************)
(* One process of user-service from start to exit: the hooks of the FX     *)
(* lifecycle (fx/presentation.go, messaging.go, storage.go, outbound.go),  *)
(* the gRPC server (grpc/server.go 57-80) and the supervisors that keep the*)
(* Kafka consumers running (fx/presentation.go, kafka/saga.go 66-91).  What*)
(* a consumer does with a message is the subject of EventConsumer.         *)
(* FX is external: it runs the stop hooks one by one, the last first, goes *)
(* on after one that fails, and ends the process when they take too long.  *)
(***************************************************************************)
EXTENDS Naturals, Sequences, FiniteSets

CONSTANTS
    Loops,         \* the consumers this instance looks at
    Calls,         \* slots for gRPC calls
    ProcessFaults, \* what may go wrong: Kafka, the port, the open listener
    MaxReaders     \* bound on how many readers a consumer opens by itself

VARIABLES
    process,   \* "built", "running", "stopping", "exited" or "panicked"
    hook,      \* while stopping: the position of the hook whose turn it is
    stores,    \* the stores that are open
    server,    \* where the goroutine of the gRPC server is
    refused,   \* whether GracefulStop was called
    call,      \* call[s]: whether a gRPC call runs in slot s
    served,    \* history: whether a call was ever accepted
    ctx,       \* ctx[c]: the context of consumer c
    at,        \* at[c]: where its goroutine is
    readers,   \* readers[c]: open or not, the readers of c the broker remembers
    delay,     \* delay[c]: seconds before the next try
    late       \* history: readers c opened after its context was cancelled

serverVars == <<server, refused, call, served>>
loopVars == <<ctx, at, readers, delay, late>>
serviceVars == <<process, hook, stores, serverVars, loopVars>>

AllLoops == {"create", "delete", "relay", "subscriber", "recovery"}
AllStores == {"files", "redis", "db"}

\* Faulty: in the order in which they were added.
HookOrderReversed == <<"grpc", "recovery", "subscriber", "relay", "saga",
                       "files", "redis", "broker", "db">>

\* In the order of the constructors and of fx.Invoke.
HookOrder == <<"db", "broker", "redis", "files",
               "saga", "relay", "subscriber", "recovery", "grpc">>

HookOf(c) == IF c \in {"create", "delete"} THEN "saga" ELSE c

ASSUME ProcessAssumption ==
    /\ Loops \subseteq AllLoops
    /\ ProcessFaults \subseteq {"kafka", "port", "accept"}
    /\ MaxReaders \in Nat \ {0}

Alive == process \in {"running", "stopping"}
Running == {s \in Calls : call[s]}

-----------------------------------------------------------------------------
\* Start.  The hooks only start goroutines; a signal is looked at afterwards.

StartApp ==
    /\ process = "built"
    /\ process' = "running"
    /\ ctx' = [c \in Loops |-> "live"]
    /\ at' = [c \in Loops |-> "check"]
    /\ server' = "listen"
    /\ UNCHANGED <<hook, stores, refused, call, served, readers, delay, late>>

-----------------------------------------------------------------------------
\* The gRPC server; the goroutine of the hook panics with the error of Start.

Panic == process' = "panicked" /\ UNCHANGED server

\* Connections that are open take calls also after Serve gave up its listener.
Serving == server \in {"accept", "broken"}

Listen ==
    /\ Alive /\ server = "listen"
    /\ \/ server' = "serve" /\ UNCHANGED process
       \/ "port" \in ProcessFaults /\ Panic
    /\ UNCHANGED <<hook, stores, refused, call, served, loopVars>>

\* Serve fails with ErrServerStopped when GracefulStop came first.
ServeCall ==
    /\ Alive /\ server = "serve"
    /\ IF refused THEN Panic ELSE server' = "accept" /\ UNCHANGED process
    /\ UNCHANGED <<hook, stores, refused, call, served, loopVars>>

\* Faulty: the server goes on accepting while it is shut down.
AcceptAlways(s) ==
    /\ Alive /\ server \in {"accept", "returned"}
    /\ ~call[s]
    /\ call' = [call EXCEPT ![s] = TRUE]
    /\ served' = TRUE
    /\ UNCHANGED <<process, hook, stores, server, refused, loopVars>>

Accept(s) ==
    /\ Alive /\ Serving
    /\ ~call[s] /\ ~refused
    /\ call' = [call EXCEPT ![s] = TRUE]
    /\ served' = TRUE
    /\ UNCHANGED <<process, hook, stores, server, refused, loopVars>>

CallEnds(s) ==
    /\ Alive
    /\ call[s]
    /\ call' = [call EXCEPT ![s] = FALSE]
    /\ UNCHANGED <<process, hook, stores, server, refused, served, loopVars>>

\* Faulty: Serve reports its end after GracefulStop as an error.
ServeReturnsError ==
    /\ Alive /\ server = "accept"
    /\ refused
    /\ Panic
    /\ UNCHANGED <<hook, stores, refused, call, served, loopVars>>

\* After GracefulStop Serve returns nil, and so does Start.
ServeReturns ==
    /\ Alive /\ server = "accept"
    /\ refused /\ Running = {}
    /\ server' = "returned"
    /\ UNCHANGED <<process, hook, stores, refused, call, served, loopVars>>

\* The listener fails for good: Serve gives up with the error, unless GracefulStop
\* came first, and leaves the calls running.
ListenerBreaks ==
    /\ Alive /\ server = "accept"
    /\ "accept" \in ProcessFaults
    /\ ~refused
    /\ server' = "broken"
    /\ UNCHANGED <<process, hook, stores, refused, call, served, loopVars>>

\* Start passes the error on, and the process panics under what still runs in it.
ServeFails ==
    /\ Alive /\ server = "broken"
    /\ Panic
    /\ UNCHANGED <<hook, stores, refused, call, served, loopVars>>

ServerStep == Listen \/ ServeCall \/ ServeReturns \/ ListenerBreaks \/ ServeFails

-----------------------------------------------------------------------------
\* The supervisors.  Those of the saga and of the projection wait two seconds
\* after an error and none after a nil, which is what a dead letter returns; the
\* one of recovery waits always, and longer each time.

Goes(c, step) == at' = [at EXCEPT ![c] = step]

Check(c) ==
    /\ Alive /\ at[c] = "check"
    /\ Goes(c, IF ctx[c] = "cancelled" THEN "ended" ELSE "open")
    /\ UNCHANGED <<process, hook, stores, serverVars, ctx, readers, delay, late>>

\* RunPullConsumer starts one more retry runner, which ends with the context,
\* and opens one more reader, which the broker remembers.
Open(c) ==
    /\ Alive /\ at[c] = "open"
    /\ readers' = [readers EXCEPT ![c] = Append(readers[c], TRUE)]
    /\ late' = IF ctx[c] = "cancelled" THEN [late EXCEPT ![c] = late[c] + 1]
                                       ELSE late
    /\ Goes(c, "fetch")
    /\ UNCHANGED <<process, hook, stores, serverVars, ctx, delay>>

Last(c) == readers[c][Len(readers[c])]

\* Messages the reader has buffered are handed out also when the context is
\* cancelled or the reader closed: kafka-go picks either.
FetchMessage(c) ==
    /\ Alive /\ at[c] = "fetch"
    /\ Goes(c, "claim")
    /\ UNCHANGED <<process, hook, stores, serverVars, ctx, readers, delay, late>>

\* The claim lets the event be handled, or passes it over.  PostgreSQL is not
\* asked under a cancelled context.
Claim(c) ==
    /\ Alive /\ at[c] = "claim"
    /\ ctx[c] = "live"
    /\ Goes(c, "handle") \/ Goes(c, "fetch")
    /\ UNCHANGED <<process, hook, stores, serverVars, ctx, readers, delay, late>>

\* The message is done with, and the loop of RunPullConsumer goes on.
Handled(c) ==
    /\ Alive /\ at[c] = "handle"
    /\ Goes(c, "fetch")
    /\ UNCHANGED <<process, hook, stores, serverVars, ctx, readers, delay, late>>

\* Faulty: a consumer that returns nil is taken for done.
AfterReturnNilEnds(c, err) ==
    IF ctx[c] = "cancelled" THEN "check"
    ELSE IF err THEN "sleep" ELSE "ended"

\* Subscribe returned: what the supervisor does next.
AfterReturn(c, err) ==
    IF ctx[c] = "cancelled" THEN "check"
    ELSE IF err \/ c = "recovery" THEN "sleep" ELSE "check"

\* Bound: a live consumer with MaxReaders readers does not return any more.
MayReturn(c) == Len(readers[c]) < MaxReaders \/ ctx[c] = "cancelled"

\* Faulty: the reader is left to the garbage collector.
ReturnsUnclosed(c, err) ==
    /\ Goes(c, AfterReturn(c, err))
    /\ UNCHANGED <<process, hook, stores, serverVars, ctx, readers, delay, late>>

\* defer r.Close().
Returns(c, err) ==
    /\ readers' = [readers EXCEPT ![c][Len(readers[c])] = FALSE]
    /\ Goes(c, AfterReturn(c, err))
    /\ UNCHANGED <<process, hook, stores, serverVars, ctx, delay, late>>

\* FetchMessage fails: the context was cancelled, the reader closed, or Kafka.
FetchFails(c) ==
    /\ Alive /\ at[c] = "fetch"
    /\ MayReturn(c)
    /\ ctx[c] = "cancelled" \/ ~Last(c) \/ "kafka" \in ProcessFaults
    /\ Returns(c, TRUE)

\* ClaimDB fails with the context, or by itself.
ClaimFails(c) ==
    /\ Alive /\ at[c] = "claim"
    /\ MayReturn(c)
    /\ Returns(c, TRUE)

\* A requeue or a commit failed, or the message went to the dead letters: then
\* the loop returns what deadLetterMessage does, nil if it worked.
HandleReturns(c) ==
    /\ Alive /\ at[c] = "handle"
    /\ MayReturn(c)
    /\ \E err \in BOOLEAN : Returns(c, err)

\* Faulty: without the cap after the doubling.
DoubledUncapped(seconds) == IF seconds < 30 THEN seconds * 2 ELSE seconds

Doubled(seconds) == IF seconds * 2 > 30 THEN 30 ELSE seconds * 2

\* The timer fires, or for recovery the context ends first.
Wake(c) ==
    /\ Alive /\ at[c] = "sleep"
    /\ \/ /\ Goes(c, "check")
          /\ delay' = IF c = "recovery"
                      THEN [delay EXCEPT ![c] = Doubled(delay[c])] ELSE delay
       \/ /\ c = "recovery" /\ ctx[c] = "cancelled"
          /\ Goes(c, "ended")
          /\ UNCHANGED delay
    /\ UNCHANGED <<process, hook, stores, serverVars, ctx, readers, late>>

LoopStep(c) == \/ Check(c)
               \/ Open(c)
               \/ FetchMessage(c)
               \/ Claim(c)
               \/ ClaimFails(c)
               \/ Handled(c)
               \/ FetchFails(c)
               \/ HandleReturns(c)
               \/ Wake(c)

-----------------------------------------------------------------------------
\* Stop.

Signal ==
    /\ process = "running"
    /\ process' = "stopping"
    /\ hook' = Len(HookOrder)
    /\ UNCHANGED <<stores, serverVars, loopVars>>

Turn(h) == process = "stopping" /\ hook > 0 /\ HookOrder[hook] = h

HookReturns == hook' = hook - 1

\* GracefulStop, which knows of no timeout.
Shutdown ==
    /\ Turn("grpc")
    /\ ~refused
    /\ refused' = TRUE
    /\ UNCHANGED <<process, hook, stores, server, call, served, loopVars>>

\* GracefulStop returns once every call has; closing the listener again then
\* fails, and so does the hook, which stops no other.
ShutdownReturns ==
    /\ Turn("grpc")
    /\ refused
    /\ Running = {}
    /\ HookReturns
    /\ UNCHANGED <<process, stores, serverVars, loopVars>>

\* cancel(), without waiting for the goroutine.
Cancel ==
    /\ \E h \in {"saga", "relay", "subscriber", "recovery"} :
          /\ Turn(h)
          /\ ctx' = [c \in Loops |-> IF HookOf(c) = h THEN "cancelled" ELSE ctx[c]]
    /\ HookReturns
    /\ UNCHANGED <<process, stores, serverVars, at, readers, delay, late>>

CloseStore ==
    /\ \E h \in AllStores : Turn(h) /\ stores' = stores \ {h}
    /\ HookReturns
    /\ UNCHANGED <<process, serverVars, loopVars>>

\* Close of the broker: every reader it remembers.
CloseBroker ==
    /\ Turn("broker")
    /\ readers' = [c \in Loops |-> [i \in DOMAIN readers[c] |-> FALSE]]
    /\ HookReturns
    /\ UNCHANGED <<process, stores, serverVars, ctx, at, delay, late>>

\* Every hook ran, or the time for them is over.
Exit ==
    /\ process = "stopping"
    /\ process' = "exited"
    /\ UNCHANGED <<hook, stores, serverVars, loopVars>>

StopStep == Shutdown \/ ShutdownReturns \/ Cancel \/ CloseStore \/ CloseBroker

-----------------------------------------------------------------------------

ServiceInit ==
    /\ process = "built"
    /\ hook = 0
    /\ stores = AllStores
    /\ server = "off"
    /\ refused = FALSE
    /\ call = [s \in Calls |-> FALSE]
    /\ served = FALSE
    /\ ctx = [c \in Loops |-> "none"]
    /\ at = [c \in Loops |-> "off"]
    /\ readers = [c \in Loops |-> <<>>]
    /\ delay = [c \in Loops |-> IF c = "recovery" THEN 1 ELSE 2]
    /\ late = [c \in Loops |-> 0]

ServiceNext ==
    \/ StartApp
    \/ ServerStep
    \/ \E s \in Calls : Accept(s) \/ CallEnds(s)
    \/ \E c \in Loops : LoopStep(c)
    \/ Signal
    \/ StopStep
    \/ Exit

ServiceSpec == ServiceInit /\ [][ServiceNext]_serviceVars

\* The goroutines of the supervisors run; nothing else need ever happen.
FairServiceSpec ==
    /\ ServiceSpec
    /\ WF_serviceVars(StartApp)
    /\ \A c \in Loops : WF_serviceVars(LoopStep(c))

-----------------------------------------------------------------------------

\* Every variable has its type; the supervisors wait at most 30 seconds
\* (fx/presentation.go:65-70).
ServiceTypeOK ==
    /\ process \in {"built", "running", "stopping", "exited", "panicked"}
    /\ hook \in 0..Len(HookOrder)
    /\ stores \subseteq AllStores
    /\ server \in {"off", "listen", "serve", "accept", "broken", "returned"}
    /\ refused \in BOOLEAN
    /\ call \in [Calls -> BOOLEAN]
    /\ served \in BOOLEAN
    /\ ctx \in [Loops -> {"none", "live", "cancelled"}]
    /\ at \in [Loops -> {"off", "check", "open", "fetch", "claim", "handle", "sleep",
                        "ended"}]
    /\ readers \in [Loops -> Seq(BOOLEAN)]
    /\ delay \in [Loops -> {1, 2, 4, 8, 16, 30}]
    /\ late \in [Loops -> Nat]

\* A gRPC call that was accepted finds every store open until it returns, also
\* when the process is stopped under it: the server was added last, so it is shut
\* down first, and waits (server.go:71-75, presentation.go:157-173).
CallsFindStoresOpen == Alive /\ Running # {} => stores = AllStores

\* The stores close, and the broker closes its readers, only under consumers
\* whose contexts were cancelled before; a handler that is still at work then can
\* fail, but no live consumer takes another message (storage.go:50-55, 70-74,
\* messaging.go:52-57).
OnlyCancelledOutliveStores ==
    \A c \in Loops :
        /\ Alive /\ stores # AllStores => ctx[c] = "cancelled"
        /\ Alive /\ at[c] \in {"fetch", "claim", "handle"} /\ ~Last(c) =>
              ctx[c] = "cancelled"

\* However often a consumer returns and is called again, at most one of its
\* readers is open, so it is one member of its group; and after its hook it opens
\* at most one more, which passed the check before (broker.go:85-95, 168-174,
\* saga.go:71-77, presentation.go:51-71).
ReadersAreBounded ==
    \A c \in Loops :
        /\ Cardinality({i \in DOMAIN readers[c] : readers[c][i]}) <= 1
        /\ late[c] <= 1

\* Unless its listener broke, the process panics only if it never served: the
\* port was taken, or it was stopped before Serve.  A stop that comes at any moment
\* never turns the end of Serve into a panic that cuts off calls (server.go:61-68,
\* presentation.go:162-171).
PanicsBeforeServing ==
    process = "panicked" /\ server # "broken" => ~served /\ Running = {}

\* As long as the process runs, a consumer that returned, with an error or with
\* nil, comes back (presentation.go:51-71, 186-191, saga.go:71-88).
ConsumersComeBack ==
    \A c \in Loops :
        [](process = "running" => <>(at[c] \in {"fetch", "claim", "handle"} \/
                                     process # "running"))
=============================================================================
