---------------------------- MODULE MCUserService ----------------------------
(***************************************************************************)
(* UserService on small instances.                                         *)
(***************************************************************************)
EXTENDS UserService, TLC

CONSTANTS u1, u2, ann, padded, pic

\* u1 was imported, active and with an avatar; u2 is free.
ImportedAnn ==
    (u1 :> [user_id |-> u1, username |-> ann, avatar_id |-> pic,
            is_active |-> TRUE, status |-> "active"])
    @@ [id \in UserIDs |-> NoRow]

NothingImported == [id \in UserIDs |-> NoRow]

\* padded is ann with blanks around it.
TrimBlanks == [n \in Names |-> IF n = padded THEN ann ELSE n]

NoFaults == {}

Deactivation == {"DeactivateUser", "GetUserPreviewByID"}
Registration == {"CreateUser", "ExistsByUsername"}
DetailedCalls == {"CreateUser", "DeleteUser", "GetDetailedUserByUsername"}

Slots == Permutations(Requests)
=============================================================================
