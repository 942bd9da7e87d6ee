-------------------------- MODULE ReadModelCoherence --------------------------
(***************************************************************************)
(* When may a cached preview disagree with PostgreSQL?  UserService with a *)
(* history variable that records the users whose preview the service left  *)
(* to chance: a command on the user was between its statement and its step *)
(* on Redis while another call held a copy of that user, or a command lost *)
(* its statement's answer, its Redis step or its process.  The property is *)
(* that nothing else ever makes a preview stale.                           *)
(***************************************************************************)
EXTENDS UserService

VARIABLE
    disturbed    \* users something above happened to

historyVars == <<vars, disturbed>>

\* A copy of the user is on its way from PostgreSQL, or from Redis, to Redis.
HoldsCopy(r, id) ==
    /\ call[r].pc \in {"project", "refresh", "fill"}
    /\ call[r].op # "GetDetailedUserByUsername"
    /\ call[r].id = id

\* The statement of a command on the user is committed, its read model is due.
ReadModelDue(r, id) ==
    /\ call[r].pc \in {"project", "purge"}
    /\ call[r].id = id

Overlapped(id) ==
    \E r, s \in Requests : r # s /\ ReadModelDue(r, id) /\ HoldsCopy(s, id)

\* A step of r that ends a command on the user without the step on Redis
\* answered, or that changes the row and does not learn of it.
Abandons(r, id) ==
    /\ call[r].id = id
    /\ \/ call[r].pc \in {"project", "purge"}
       \/ call[r].pc = "store" /\ users' # users
    /\ call'[r].reply \in {"error", "died"}

Disturbing ==
    {id \in UserIDs : Overlapped(id)' \/ \E r \in Requests : Abandons(r, id)}

HistoryInit == Init /\ disturbed = {}

HistoryNext == Next /\ disturbed' = disturbed \cup Disturbing

HistorySpec == HistoryInit /\ [][HistoryNext]_historyVars

-----------------------------------------------------------------------------

\* The row and what a preview shows of it; the URL belongs to the file service.
Agrees(c, row) ==
    /\ row # NoRow
    /\ c.username = row.username
    /\ c.avatar_id = row.avatar_id
    /\ c.is_active = row.is_active

Coherent(id) == PreviewHit(id) => Agrees(preview[id], users[id])

\* A preview that disagrees with its row is about to be replaced or removed by
\* the command that changed the row, or belongs to a disturbed user: calls on
\* other users, retries of refused commands and queries that merely overlap
\* each other never make one stale (service.go 77-111, 128-156, 179-207).
StaleOnlyIfDisturbed ==
    \A id \in UserIDs :
        Coherent(id) \/ id \in disturbed
                     \/ \E r \in Requests : ReadModelDue(r, id)

\* Why: every copy of an undisturbed user that is on its way to Redis agrees
\* with the row, whichever step took it and whatever happened since.
CopiesAgree ==
    \A id \in UserIDs \ disturbed, r \in Requests :
        HoldsCopy(r, id) => Agrees(call[r].user, users[id])
=============================================================================
