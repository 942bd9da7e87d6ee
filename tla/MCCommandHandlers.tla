-------------------------- MODULE MCCommandHandlers --------------------------
(***************************************************************************)
(* CommandHandlers on small instances.                                     *)
(***************************************************************************)
EXTENDS CommandHandlers, TLC

CONSTANTS u1, u2, ann, pic, create, rival, remove, replay, blank

NothingImported == [id \in UserIDs |-> NoRow]
NoPadding == [n \in Names |-> n]
AllFaults == {"db", "redis", "broker", "death"}
LiveFaults == {"redis", "broker"}
Activation == {"ActivateUser"}
NoCalls == {}

\* Two sessions register one name, one of them is compensated; recovery replays
\* its creation, and a creation it has no user id for.
Orders ==
    (create :> [topic |-> "SagaCreateUserTopic", op |-> "CreateUser",
                id |-> u1, name |-> ann])
    @@ (rival :> [topic |-> "SagaCreateUserTopic", op |-> "CreateUser",
                  id |-> u2, name |-> ann])
    @@ (remove :> [topic |-> "SagaDeleteUserTopic", op |-> "DeleteUser",
                   id |-> u1, name |-> NoName])
    @@ (replay :> [topic |-> "RecoveryTopic", op |-> "CreateUser",
                   id |-> u1, name |-> ann])
    @@ (blank :> [topic |-> "RecoveryTopic", op |-> "CreateUser",
                  id |-> NoID, name |-> ann])
Session == [k \in Commanded |-> Orders[k]]

Lanes == Permutations(Handlers)
=============================================================================
