---------------------------- MODULE NatsBootstrap ----------------------------
(***************************************************************************)
(* EnsureStream (pkg/messaging/nats/bootstrap.go): every replica, at each  *)
(* start, creates or updates the three JetStream streams one after another,*)
(* without a lock between replicas.  JetStream is external: AddStream fails*)
(* on a stream that exists with other settings, UpdateStream on one that   *)
(* does not exist, and either may fail after it was applied.               *)
(***************************************************************************)
EXTENDS Naturals, Sequences

CONSTANTS
    Replicas,    \* processes of user-service
    NatsFaults,  \* what may go wrong
    MaxFaults    \* bound on how often something goes wrong

VARIABLES
    streams,     \* the streams that exist
    boot,        \* boot[p]: [next, at]: the stream p works on, and how
    faults       \* how often something went wrong so far

bootVars == <<streams, boot, faults>>

StreamNames == <<"UserEventsStream", "SagaCommandsStream", "UserDetailedStream">>
AllStreams == {StreamNames[i] : i \in DOMAIN StreamNames}

ASSUME BootAssumption ==
    /\ NatsFaults \subseteq {"nats", "handler", "crash", "stop"}
    /\ MaxFaults \in Nat

\* down: not running.  add, update: the call for stream next is under way.
\* ready: EnsureStream returned nil.
BootSteps == {"down", "add", "update", "ready"}

Fault(kind) ==
    /\ kind \in NatsFaults
    /\ faults < MaxFaults
    /\ faults' = faults + 1

\* The call under way for p.
Stream(p) == StreamNames[boot[p].next]
Ensuring(p, call) == boot[p].at = call

StreamEnsured(p) ==
    boot' = [boot EXCEPT ![p] =
                 IF boot[p].next = Len(StreamNames)
                 THEN [next |-> 1, at |-> "ready"]
                 ELSE [next |-> boot[p].next + 1, at |-> "add"]]

-----------------------------------------------------------------------------

StartProcess(p) ==
    /\ Ensuring(p, "down")
    /\ boot' = [boot EXCEPT ![p] = [next |-> 1, at |-> "add"]]
    /\ UNCHANGED <<streams, faults>>

AddStream(p) ==
    /\ Ensuring(p, "add")
    /\ streams' = streams \cup {Stream(p)}
    /\ StreamEnsured(p)
    /\ UNCHANGED faults

\* The stream exists with the settings of another release, or NATS fails.
AddStreamFails(p) ==
    /\ Ensuring(p, "add")
    /\ boot' = [boot EXCEPT ![p] = [next |-> boot[p].next, at |-> "update"]]
    /\ \/ Stream(p) \in streams /\ UNCHANGED <<streams, faults>>
       \/ Fault("nats") /\ streams' \in {streams, streams \cup {Stream(p)}}

\* Faulty: an update that fails is taken for "nothing to update".
UpdateStreamIgnored(p) ==
    /\ Ensuring(p, "update")
    /\ StreamEnsured(p)
    /\ UNCHANGED <<streams, faults>>

UpdateStream(p) ==
    /\ Ensuring(p, "update")
    /\ Stream(p) \in streams
    /\ StreamEnsured(p)
    /\ UNCHANGED <<streams, faults>>

\* EnsureStream returns the error, and the start of the process fails with it.
EnsureFails(p) ==
    /\ Ensuring(p, "update")
    /\ \/ Stream(p) \notin streams /\ UNCHANGED faults
       \/ Fault("nats")
    /\ boot' = [boot EXCEPT ![p] = [next |-> 1, at |-> "down"]]
    /\ UNCHANGED streams

EnsureStream(p) == \/ AddStream(p)
                   \/ AddStreamFails(p)
                   \/ UpdateStream(p)
                   \/ EnsureFails(p)

BootInit ==
    /\ streams = {}
    /\ boot = [p \in Replicas |-> [next |-> 1, at |-> "down"]]
    /\ faults = 0

BootTypeOK ==
    /\ streams \subseteq AllStreams
    /\ boot \in [Replicas -> [next: DOMAIN StreamNames, at: BootSteps]]
    /\ faults \in 0..MaxFaults
=============================================================================
