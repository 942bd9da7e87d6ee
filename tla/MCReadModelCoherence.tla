------------------------- MODULE MCReadModelCoherence -------------------------
(***************************************************************************)
(* ReadModelCoherence on a small instance.                                 *)
(***************************************************************************)
EXTENDS ReadModelCoherence, TLC

CONSTANTS u1, u2, ann, pic

ImportedAnn ==
    (u1 :> [user_id |-> u1, username |-> ann, avatar_id |-> pic,
            is_active |-> TRUE, status |-> "active"])
    @@ [id \in UserIDs |-> NoRow]

NoPadding == [n \in Names |-> n]

NoFileFaults == {"db", "redis", "broker", "death"}

PreviewCalls == Commands \cup PreviewQueries \cup {"ExistsByUsername"}

Slots == Permutations(Requests)
=============================================================================
