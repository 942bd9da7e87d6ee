------------------------------ MODULE UserStore ------------------------------
(***************************************************************************)
(* The write model: the users table of user-service, the statements        *)
(* internal/infra/write/postgres sends to it, and the trigger that copies  *)
(* every change of a row into outbox_events within the same transaction.   *)
(* A statement is one atomic step, as each repository method sends exactly *)
(* one autocommitted statement.                                            *)
(***************************************************************************)
EXTENDS Integers, Sequences

CONSTANTS
    UserIDs,     \* primary keys (UUIDs)
    Usernames,   \* non-blank user names, as they arrive
    NoName,      \* a blank user name
    Avatars,     \* ids of uploaded files
    NoAvatar,    \* the empty avatar id, and the empty avatar URL
    NoRow,       \* no row under this key
    Imported     \* the table as this service finds it at its first start

VARIABLES
    users,       \* users[id]: the row under this primary key, or NoRow
    outbox       \* outbox_events in commit order

storeVars == <<users, outbox>>

Names == Usernames \cup {NoName}
AvatarIDs == Avatars \cup {NoAvatar}

StatusPendingRegistration == "pending_registration"
StatusActive == "active"
StatusRegistrationFailed == "registration_failed"
Statuses == {StatusPendingRegistration, StatusActive, StatusRegistrationFailed}

\* UserRow, without the columns no decision of the code reads: first_name,
\* last_name, about, created_at and updated_at.
UserRow == [user_id: UserIDs, username: Names, avatar_id: AvatarIDs,
            is_active: BOOLEAN, status: Statuses]

OutboxEvent == [aggregate_id: UserIDs,
                operation: {"created", "updated", "deactivated"},
                payload: UserRow]

ASSUME StoreAssumption ==
    /\ NoRow \notin UserRow
    /\ NoName \notin Usernames
    /\ NoAvatar \notin Avatars
    /\ Imported \in [UserIDs -> UserRow \cup {NoRow}]
    /\ \A i \in UserIDs : Imported[i] # NoRow => Imported[i].user_id = i
    /\ \A i, j \in UserIDs :
          /\ Imported[i] # NoRow
          /\ Imported[j] # NoRow
          /\ Imported[i].username = Imported[j].username
          => i = j

-----------------------------------------------------------------------------

Stored(id) == users[id] # NoRow

\* The UNIQUE constraint users_username_key looks at the name as it is stored.
Owns(id, name) == Stored(id) /\ users[id].username = name
Taken(name) == \E id \in UserIDs : Owns(id, name)

\* capture_user_outbox_event: a deleted row is reported with its last content.
CaptureOutboxEvent(id, operation, row) ==
    outbox' = Append(outbox, [aggregate_id |-> id, operation |-> operation,
                              payload |-> row])

NewRow(id, name) == [user_id |-> id, username |-> name, avatar_id |-> NoAvatar,
                     is_active |-> FALSE, status |-> StatusPendingRegistration]
Settled(row, active, status) ==
    [user_id |-> row.user_id, username |-> row.username,
     avatar_id |-> row.avatar_id, is_active |-> active, status |-> status]
ActiveRow(row) == Settled(row, TRUE, StatusActive)
FailedRow(row) == Settled(row, FALSE, StatusRegistrationFailed)

WriteRow(id, operation, row) ==
    /\ users' = [users EXCEPT ![id] = row]
    /\ CaptureOutboxEvent(id, operation, row)

\* Faulty: without the unique name.
CreateUserIgnoringName(id, name) ==
    /\ ~Stored(id)
    /\ WriteRow(id, "created", NewRow(id, name))

CreateUserQuery(id, name) ==
    /\ ~Stored(id)
    /\ ~Taken(name)
    /\ WriteRow(id, "created", NewRow(id, name))

ActivateUserByID(id) ==
    /\ Stored(id)
    /\ WriteRow(id, "updated", ActiveRow(users[id]))

DeactivateUserByID(id) ==
    /\ Stored(id)
    /\ WriteRow(id, "updated", FailedRow(users[id]))

\* Faulty: a trigger that does not fire on DELETE, or reports NEW for it.
DeleteUserSilently(id) ==
    /\ Stored(id)
    /\ users' = [users EXCEPT ![id] = NoRow]
    /\ UNCHANGED outbox
DeleteUserReportingNew(id) ==
    /\ Stored(id)
    /\ WriteRow(id, "deactivated", NoRow)

DeleteUserByID(id) ==
    /\ Stored(id)
    /\ users' = [users EXCEPT ![id] = NoRow]
    /\ CaptureOutboxEvent(id, "deactivated", users[id])

-----------------------------------------------------------------------------

StoreInit ==
    /\ users = Imported
    /\ outbox = <<>>

StoreNext ==
    \E id \in UserIDs :
        \/ \E name \in Names : CreateUserQuery(id, name)
        \/ ActivateUserByID(id)
        \/ DeactivateUserByID(id)
        \/ DeleteUserByID(id)

\* What everything that uses the write model does to it.
StoreSpec == StoreInit /\ [][StoreNext]_storeVars
-----------------------------------------------------------------------------

StoreTypeOK ==
    /\ users \in [UserIDs -> UserRow \cup {NoRow}]
    /\ outbox \in Seq(OutboxEvent)

\* Every content the row of this user has ever been committed with.
Versions(id) ==
    ({Imported[id]} \ {NoRow})
      \cup {outbox[i].payload : i \in {j \in DOMAIN outbox :
                                          outbox[j].aggregate_id = id}}

\* Every row is stored under its own key, and no two users have one name.
TableConsistent ==
    \A i, j \in UserIDs :
        /\ Stored(i) => users[i].user_id = i
        /\ Stored(i) /\ Stored(j) /\ users[i].username = users[j].username
             => i = j

EventsAbout(id) == {i \in DOMAIN outbox : outbox[i].aggregate_id = id}

\* The row a consumer has of a user after the event e about it.
RowAfter(e) == IF e.operation = "deactivated" THEN NoRow ELSE e.payload

\* The event e may follow when row is what a consumer has of the user: a user
\* is created once, is updated and removed only while it exists, keeps its name
\* and its avatar, and is reported with its last content when it is removed.
Follows(e, row) ==
    /\ e.operation = "created" <=> row = NoRow
    /\ e.operation = "updated" => /\ e.payload.username = row.username
                                  /\ e.payload.avatar_id = row.avatar_id
    /\ e.operation = "deactivated" => e.payload = row

\* The outbox is a faithful log of the table: a consumer that keeps, for each
\* user, the payload of the last event about it, and drops the user on
\* "deactivated", holds exactly the rows of the table, and every event it meets
\* on the way fits what it holds by then (000005, the trigger).
OutboxReplaysTable ==
    \A id \in UserIDs :
        /\ EventsAbout(id) = {} => users[id] = Imported[id]
        /\ \A i \in EventsAbout(id) :
              LET before == {j \in EventsAbout(id) : j < i}
              IN /\ (\A j \in EventsAbout(id) : j <= i)
                      => users[id] = RowAfter(outbox[i])
                 /\ before = {} => Follows(outbox[i], Imported[id])
                 /\ \A j \in before :
                       (\A k \in before : k <= j)
                         => Follows(outbox[i], RowAfter(outbox[j]))
=============================================================================
