---------------------------- MODULE UserLifecycle ----------------------------
(***************************************************************************)
(* What user-service promises about the life of a user, as the             *)
(* registration saga relies on it: a user is registered under a name nobody*)
(* holds and waits for its verification; it is completed or compensated    *)
(* only while it exists, keeps its name all the while, and gives the name  *)
(* back only by being removed.                                             *)
(***************************************************************************)
CONSTANTS UserIDs, Names, Absent, Initially

VARIABLE profile    \* profile[id]: Absent, or the name and status of the user

Present(id) == profile[id] # Absent
Holds(id, name) == Present(id) /\ profile[id].name = name

Register(id, name) ==
    /\ ~Present(id)
    /\ \A other \in UserIDs : ~Holds(other, name)
    /\ profile' = [profile EXCEPT
                     ![id] = [name |-> name, status |-> "pending_registration"]]

Settle(id, status) ==
    /\ Present(id)
    /\ profile' = [profile EXCEPT
                     ![id] = [name |-> profile[id].name, status |-> status]]

Remove(id) ==
    /\ Present(id)
    /\ profile' = [profile EXCEPT ![id] = Absent]

Init == profile = Initially

Next == \E id \in UserIDs :
            \/ \E name \in Names : Register(id, name)
            \/ Settle(id, "active")
            \/ Settle(id, "registration_failed")
            \/ Remove(id)

Spec == Init /\ [][Next]_profile
=============================================================================
