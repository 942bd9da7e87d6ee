------------------------- MODULE MCDetailedProjection -------------------------
(***************************************************************************)
(* DetailedProjection on a small instance.                                 *)
(***************************************************************************)
EXTENDS DetailedProjection, TLC

CONSTANTS u1, u2, ann, padded, pic

\* u1 was imported with an avatar; u2 takes its name once it is deleted.
ImportedAnn ==
    (u1 :> [user_id |-> u1, username |-> ann, avatar_id |-> pic,
            is_active |-> TRUE, status |-> "active"])
    @@ [id \in UserIDs |-> NoRow]

TrimBlanks == [n \in Names |-> IF n = padded THEN ann ELSE n]
AllFaults == {"db", "redis", "files", "broker", "death"}
Succession == {"CreateUser", "DeleteUser", "GetDetailedUserByUsername"}
Slots == Permutations(Requests)
=============================================================================
