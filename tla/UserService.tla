----------------------------- MODULE UserService -----------------------------
(***************************************************************************)
(* internal/application: the operations of user-service over the write     *)
(* model (UserStore) and the read model (ReadModel), called concurrently   *)
(* by the gRPC server and by the Kafka consumers of any number of replicas.*)
(* A call is one slot of Requests.  Between two accesses to PostgreSQL,    *)
(* Redis or the broker, a call holds in call[r].user the copy of the user  *)
(* it works on; every such access is a step of its own, so that steps of   *)
(* other calls come between them, and may fail or be the call's last.      *)
(***************************************************************************)
EXTENDS ReadModel, FiniteSets

CONSTANTS
    Requests,    \* slots for concurrent calls
    NoID,        \* a blank user id
    NoUser,      \* nothing loaded
    Trimmed,     \* strings.TrimSpace on names
    Offered,     \* the operations callers use
    Faults,      \* which of the dependencies fail, and whether a call may die
    MaxWrites    \* bound on the commands issued in a behaviour

VARIABLES
    call,        \* call[r]: the call in slot r, or the last one that ended
    requested    \* users published on the detailed-user request topic

vars == <<users, outbox, preview, detailed, call, requested>>

Commands == {"CreateUser", "DeleteUser", "ActivateUser", "DeactivateUser"}
PreviewQueries == {"GetUserPreviewByID", "GetUserPreviewByIDNoCache"}
NameQueries == {"GetDetailedUserByUsername", "ExistsByUsername"}
Operations == Commands \cup PreviewQueries \cup NameQueries

\* What a call does next.
Steps == {"rest", "store", "project", "purge", "lookup", "refresh", "load",
          "fill", "publish", "query"}

Replies == {"none", "ok", "invalid", "user_id already taken",
            "username already taken", "user not found", "owned", "free",
            "error", "died"}

Call == [op: Operations, pc: Steps, id: UserIDs \cup {NoID}, name: Names,
         user: User \cup {NoUser}, reply: Replies]

ASSUME ServiceAssumption ==
    /\ NoID \notin UserIDs
    /\ NoUser \notin User
    /\ Trimmed \in [Names -> Names]
    /\ Trimmed[NoName] = NoName
    /\ \A n \in Names : Trimmed[Trimmed[n]] = Trimmed[n]
    /\ Offered \subseteq Operations
    /\ Faults \subseteq {"db", "redis", "files", "broker", "death"}
    /\ MaxWrites \in Nat

-----------------------------------------------------------------------------

At(r, pc) == call[r].pc = pc

Proceed(r, pc, reply, user) ==
    call' = [call EXCEPT ![r] = [op |-> call[r].op, pc |-> pc,
                                 id |-> call[r].id, name |-> call[r].name,
                                 user |-> user, reply |-> reply]]

Continue(r, pc, user) == Proceed(r, pc, "none", user)
Answer(r, reply, user) == Proceed(r, "rest", reply, user)

Begin(r, op, id, name, pc) ==
    /\ At(r, "rest")
    /\ call' = [call EXCEPT ![r] = [op |-> op, pc |-> pc, id |-> id,
                                    name |-> name, user |-> NoUser,
                                    reply |-> "none"]]
    /\ UNCHANGED <<storeVars, cacheVars, requested>>

\* An argument the service refuses before it touches anything.
Refuse(r, op, id, name) ==
    /\ At(r, "rest")
    /\ call' = [call EXCEPT ![r] = [op |-> op, pc |-> "rest", id |-> id,
                                    name |-> name, user |-> NoUser,
                                    reply |-> "invalid"]]
    /\ UNCHANGED <<storeVars, cacheVars, requested>>

\* The bound on commands: those that changed a row, and those that still may.
MayWrite == Len(outbox) + Cardinality({r \in Requests : At(r, "store")})
              < MaxWrites

\* CreateUser stores the name as it came; nothing trims or refuses it.
StartCommand(r, op, id, name) ==
    IF id = NoID THEN Refuse(r, op, id, name)
                 ELSE Begin(r, op, id, name, "store")
BeginCommand(r, op, id, name) ==
    /\ id = NoID \/ MayWrite
    /\ StartCommand(r, op, id, name)

BeginPreviewQuery(r, op, id) ==
    IF id = NoID THEN Refuse(r, op, id, NoName)
    ELSE Begin(r, op, id, NoName,
               IF op = "GetUserPreviewByID" THEN "lookup" ELSE "load")

BeginNameQuery(r, op, name) ==
    IF Trimmed[name] = NoName THEN Refuse(r, op, NoID, NoName)
    ELSE Begin(r, op, NoID, Trimmed[name],
               IF op = "ExistsByUsername" THEN "query" ELSE "lookup")

-----------------------------------------------------------------------------
\* Dependencies that may fail.  A command of Redis or PostgreSQL that reports
\* an error may nevertheless have been applied.

Broken(dependency) == dependency \in Faults

WithURL(u, url) ==
    [user_id |-> u.user_id, username |-> u.username,
     avatar_id |-> u.avatar_id, avatar_url |-> url,
     is_active |-> u.is_active, status |-> u.status]

\* GetFileURL: the copy as it goes on, with the URL or, on an error, without.
Resolve(u) ==
    IF u.avatar_id = NoAvatar THEN {u}
    ELSE {WithURL(u, u.avatar_id)} \cup (IF Broken("files") THEN {u} ELSE {})

Effect(r) ==
    \/ call[r].op = "CreateUser" /\ CreateUserQuery(call[r].id, call[r].name)
    \/ call[r].op = "ActivateUser" /\ ActivateUserByID(call[r].id)
    \/ call[r].op = "DeactivateUser" /\ DeactivateUserByID(call[r].id)
    \/ call[r].op = "DeleteUser" /\ DeleteUserByID(call[r].id)

StoreFails(r) ==
    /\ At(r, "store")
    /\ Broken("db")
    /\ Effect(r) \/ UNCHANGED storeVars
    /\ Answer(r, "error", NoUser)
    /\ UNCHANGED <<cacheVars, requested>>

-----------------------------------------------------------------------------
\* Commands: one statement, then the read model.

\* Faulty: each of the two constraints is translated to the error of the other.
InsertRowMistranslated(r) ==
    /\ At(r, "store")
    /\ call[r].op = "CreateUser"
    /\ LET id == call[r].id
           name == call[r].name
       IN \/ /\ CreateUserQuery(id, name)
             /\ Continue(r, "project", MapUserRowToDomain(NewRow(id, name)))
          \/ /\ Stored(id)
             /\ Answer(r, "username already taken", NoUser)
             /\ UNCHANGED storeVars
          \/ /\ ~Stored(id)
             /\ Taken(name)
             /\ Answer(r, "user_id already taken", NoUser)
             /\ UNCHANGED storeVars
    /\ UNCHANGED <<cacheVars, requested>>

InsertRow(r) ==
    /\ At(r, "store")
    /\ call[r].op = "CreateUser"
    /\ LET id == call[r].id
           name == call[r].name
       IN \/ /\ CreateUserQuery(id, name)
             /\ Continue(r, "project", MapUserRowToDomain(NewRow(id, name)))
          \/ /\ Stored(id)
             /\ Answer(r, "user_id already taken", NoUser)
             /\ UNCHANGED storeVars
          \/ /\ ~Stored(id)
             /\ Taken(name)
             /\ Answer(r, "username already taken", NoUser)
             /\ UNCHANGED storeVars
    /\ UNCHANGED <<cacheVars, requested>>

\* UPDATE and DELETE match no row.
NoRowMatches(r) ==
    /\ At(r, "store")
    /\ call[r].op # "CreateUser"
    /\ ~Stored(call[r].id)
    /\ Answer(r, "user not found", NoUser)
    /\ UNCHANGED <<storeVars, cacheVars, requested>>

\* Faulty: the row as it was before the statement goes to the read model.
ActivateRowKeepingOld(r) ==
    /\ At(r, "store")
    /\ call[r].op = "ActivateUser"
    /\ ActivateUserByID(call[r].id)
    /\ Continue(r, "project", MapUserRowToDomain(users[call[r].id]))
    /\ UNCHANGED <<cacheVars, requested>>

ActivateRow(r) ==
    /\ At(r, "store")
    /\ call[r].op = "ActivateUser"
    /\ ActivateUserByID(call[r].id)
    /\ Continue(r, "project",
                MapUserRowToDomain(ActiveRow(users[call[r].id])))
    /\ UNCHANGED <<cacheVars, requested>>

DeactivateRow(r) ==
    /\ At(r, "store")
    /\ call[r].op = "DeactivateUser"
    /\ DeactivateUserByID(call[r].id)
    /\ Continue(r, "purge", NoUser)
    /\ UNCHANGED <<cacheVars, requested>>

DeleteRow(r) ==
    /\ At(r, "store")
    /\ call[r].op = "DeleteUser"
    /\ DeleteUserByID(call[r].id)
    /\ Continue(r, "purge", NoUser)
    /\ UNCHANGED <<cacheVars, requested>>

\* CreateUser and ActivateUser write the row they got back to the read model;
\* when Redis fails they report the failure although the row is committed.
Project(r) ==
    /\ At(r, "project")
    /\ \/ Upsert(call[r].user) /\ Answer(r, "ok", call[r].user)
       \/ /\ Broken("redis")
          /\ Upsert(call[r].user) \/ UNCHANGED cacheVars
          /\ Answer(r, "error", NoUser)
    /\ UNCHANGED <<storeVars, requested>>

\* Faulty: the read model is forgotten.
PurgeNothing(r) ==
    /\ At(r, "purge")
    /\ Answer(r, "ok", NoUser)
    /\ UNCHANGED <<storeVars, cacheVars, requested>>

\* DeactivateUser and DeleteUser drop the preview; the detailed entry of the
\* user stays (nothing calls DeleteByUsername).
Purge(r) ==
    /\ At(r, "purge")
    /\ \/ DropPreview(call[r].id) /\ Answer(r, "ok", NoUser)
       \/ /\ Broken("redis")
          /\ DropPreview(call[r].id) \/ UNCHANGED cacheVars
          /\ Answer(r, "error", NoUser)
    /\ UNCHANGED <<storeVars, requested>>

-----------------------------------------------------------------------------
\* GetUserPreviewByID and GetUserPreviewByIDNoCache.

PreviewHit(id) == preview[id] # NoEntry

\* A cached preview that lacks the URL of its avatar is completed first.
NeedsURL(u) == u.avatar_url = NoAvatar /\ u.avatar_id # NoAvatar

\* Faulty: a cached preview is answered as it is.
LookupPreviewAsItIs(r) ==
    /\ At(r, "lookup")
    /\ call[r].op = "GetUserPreviewByID"
    /\ IF PreviewHit(call[r].id)
       THEN Answer(r, "ok", MapCacheToDomainUser(preview[call[r].id]))
       ELSE Continue(r, "load", NoUser)
    /\ UNCHANGED <<storeVars, cacheVars, requested>>

LookupPreview(r) ==
    /\ At(r, "lookup")
    /\ call[r].op = "GetUserPreviewByID"
    /\ LET id == call[r].id
           cached == MapCacheToDomainUser(preview[id])
       IN \/ /\ PreviewHit(id)
             /\ IF NeedsURL(cached)
                THEN \E u \in Resolve(cached) :
                        IF NeedsURL(u) THEN Answer(r, "ok", u)
                                       ELSE Continue(r, "refresh", u)
                ELSE Answer(r, "ok", cached)
          \/ /\ ~PreviewHit(id) \/ Broken("redis")
             /\ Continue(r, "load", NoUser)
    /\ UNCHANGED <<storeVars, cacheVars, requested>>

\* The completed copy is written back; a failure is only logged.
Refresh(r) ==
    /\ At(r, "refresh")
    /\ Upsert(call[r].user) \/ (Broken("redis") /\ UNCHANGED cacheVars)
    /\ Answer(r, "ok", call[r].user)
    /\ UNCHANGED <<storeVars, requested>>

LoadUserPreview(r) ==
    /\ At(r, "load")
    /\ call[r].op \in PreviewQueries
    /\ LET id == call[r].id
       IN \/ /\ Stored(id)
             /\ \E u \in Resolve(MapUserRowToDomain(users[id])) :
                   IF call[r].op = "GetUserPreviewByID"
                   THEN Continue(r, "fill", u)
                   ELSE Answer(r, "ok", u)
          \/ ~Stored(id) /\ Answer(r, "user not found", NoUser)
          \/ Broken("db") /\ Answer(r, "error", NoUser)
    /\ UNCHANGED <<storeVars, cacheVars, requested>>

FillPreview(r) ==
    /\ At(r, "fill")
    /\ call[r].op = "GetUserPreviewByID"
    /\ \/ Upsert(call[r].user) /\ Answer(r, "ok", call[r].user)
       \/ /\ Broken("redis")
          /\ Upsert(call[r].user) \/ UNCHANGED cacheVars
          /\ Answer(r, "error", NoUser)
    /\ UNCHANGED <<storeVars, requested>>

-----------------------------------------------------------------------------
\* GetDetailedUserByUsername and ExistsByUsername.

DetailedHit(name) == detailed[name] # NoEntry

\* A cached detailed user is returned as it is, with or without its URL.
LookupDetailed(r) ==
    /\ At(r, "lookup")
    /\ call[r].op = "GetDetailedUserByUsername"
    /\ LET name == call[r].name
       IN \/ /\ DetailedHit(name)
             /\ Answer(r, "ok", MapDetailedCacheToDomainUser(detailed[name]))
          \/ /\ ~DetailedHit(name) \/ Broken("redis")
             /\ Continue(r, "load", NoUser)
    /\ UNCHANGED <<storeVars, cacheVars, requested>>

LoadDetailed(r) ==
    /\ At(r, "load")
    /\ call[r].op = "GetDetailedUserByUsername"
    /\ LET name == call[r].name
       IN \/ \E id \in UserIDs :
                /\ Owns(id, name)
                /\ \E u \in Resolve(MapUserRowToDomain(users[id])) :
                      Continue(r, "fill", u)
          \/ ~Taken(name) /\ Answer(r, "user not found", NoUser)
          \/ Broken("db") /\ Answer(r, "error", NoUser)
    /\ UNCHANGED <<storeVars, cacheVars, requested>>

\* Faulty: a failure of Redis is only logged here too.
FillDetailedRegardless(r) ==
    /\ At(r, "fill")
    /\ call[r].op = "GetDetailedUserByUsername"
    /\ \/ UpsertByUsername(call[r].user)
       \/ Broken("redis") /\ UNCHANGED cacheVars
    /\ Continue(r, "publish", call[r].user)
    /\ UNCHANGED <<storeVars, requested>>

FillDetailed(r) ==
    /\ At(r, "fill")
    /\ call[r].op = "GetDetailedUserByUsername"
    /\ \/ /\ UpsertByUsername(call[r].user)
          /\ Continue(r, "publish", call[r].user)
       \/ /\ Broken("redis")
          /\ UpsertByUsername(call[r].user) \/ UNCHANGED cacheVars
          /\ Answer(r, "error", NoUser)
    /\ UNCHANGED <<storeVars, requested>>

\* A publish that fails is only logged.
PublishDetailedUserRequested(r) ==
    /\ At(r, "publish")
    /\ \/ requested' = requested \cup {call[r].user}
       \/ Broken("broker") /\ UNCHANGED requested
    /\ Answer(r, "ok", call[r].user)
    /\ UNCHANGED <<storeVars, cacheVars>>

ExistsByUsername(r) ==
    /\ At(r, "query")
    /\ \/ Taken(call[r].name) /\ Answer(r, "owned", NoUser)
       \/ ~Taken(call[r].name) /\ Answer(r, "free", NoUser)
       \/ Broken("db") /\ Answer(r, "error", NoUser)
    /\ UNCHANGED <<storeVars, cacheVars, requested>>

-----------------------------------------------------------------------------

\* The process dies, or the context of the call is cancelled, between steps.
Die(r) ==
    /\ ~At(r, "rest")
    /\ Broken("death")
    /\ Answer(r, "died", NoUser)
    /\ UNCHANGED <<storeVars, cacheVars, requested>>

Idle == [op |-> "ExistsByUsername", pc |-> "rest", id |-> NoID,
         name |-> NoName, user |-> NoUser, reply |-> "none"]

Init ==
    /\ StoreInit
    /\ CacheInit
    /\ call = [r \in Requests |-> Idle]
    /\ requested = {}

Calls(r) ==
    \/ \E op \in Offered \cap (Commands \ {"CreateUser"}),
          id \in UserIDs \cup {NoID} : BeginCommand(r, op, id, NoName)
    \/ \E op \in Offered \cap {"CreateUser"},
          id \in UserIDs \cup {NoID}, name \in Names :
            BeginCommand(r, op, id, name)
    \/ \E op \in Offered \cap PreviewQueries, id \in UserIDs \cup {NoID} :
          BeginPreviewQuery(r, op, id)
    \/ \E op \in Offered \cap NameQueries, name \in Names :
          BeginNameQuery(r, op, name)

CommandStep(r) ==
    \/ InsertRow(r)
    \/ ActivateRow(r)
    \/ DeactivateRow(r)
    \/ DeleteRow(r)
    \/ NoRowMatches(r)
    \/ StoreFails(r)
    \/ Project(r)
    \/ Purge(r)

QueryStep(r) ==
    \/ LookupPreview(r)
    \/ Refresh(r)
    \/ LoadUserPreview(r)
    \/ FillPreview(r)
    \/ LookupDetailed(r)
    \/ LoadDetailed(r)
    \/ FillDetailed(r)
    \/ PublishDetailedUserRequested(r)
    \/ ExistsByUsername(r)

Next == \E r \in Requests :
            Calls(r) \/ CommandStep(r) \/ QueryStep(r) \/ Die(r)

Spec == Init /\ [][Next]_vars
-----------------------------------------------------------------------------

\* What a call holds at each of its steps.
WellFormed(c) ==
    /\ c.pc \in {"store", "project", "purge"} =>
          c.op \in Commands /\ c.id \in UserIDs
    /\ c.pc = "refresh" => c.op = "GetUserPreviewByID" /\ c.id \in UserIDs
    /\ c.pc \in {"lookup", "load", "fill"} =>
          \/ c.op \in PreviewQueries /\ c.id \in UserIDs
          \/ c.op = "GetDetailedUserByUsername"
    /\ c.pc = "publish" => c.op = "GetDetailedUserByUsername"
    /\ c.pc \in {"project", "refresh", "fill", "publish"} => c.user \in User
    /\ c.pc \notin {"rest", "project", "refresh", "fill", "publish"}
          => c.user = NoUser

CallsOK ==
    /\ call \in [Requests -> Call]
    /\ \A r \in Requests : WellFormed(call[r])

TypeOK ==
    /\ StoreTypeOK
    /\ CacheTypeOK
    /\ CallsOK
    /\ requested \in SUBSET User

\* The copy e of a user shows the committed content v of that user's row.
IdentityOf(e, v) ==
    /\ e.user_id = v.user_id
    /\ e.username = v.username
    /\ e.avatar_id = v.avatar_id
    /\ e.avatar_url \in {NoAvatar, v.avatar_id}

ShowsVersion(e) ==
    \E v \in Versions(e.user_id) : IdentityOf(e, v) /\ e.is_active = v.is_active

ShowsIdentity(e) == \E v \in Versions(e.user_id) : IdentityOf(e, v)

\* A detailed user that was answered may come from Redis, and then its
\* activation is not the user's.
CallDerived(c) ==
    c.user # NoUser =>
        /\ ShowsIdentity(c.user)
        /\ \/ c.op = "GetDetailedUserByUsername" /\ c.pc = "rest"
           \/ ShowsVersion(c.user)

PreviewDerived ==
    \A id \in UserIDs : PreviewHit(id) =>
        preview[id].user_id = id /\ ShowsVersion(preview[id])

DetailedDerived ==
    \A name \in Names : DetailedHit(name) =>
        detailed[name].username = name /\ ShowsIdentity(detailed[name])

\* Redis, the copies calls hold or have answered with, and the requests put on
\* the broker never show anything PostgreSQL did not commit for that very user:
\* no mixture of two users or of two versions, and no URL of another file,
\* whatever calls overlap, fail or die (service.go 69-298).
ReadModelDerived ==
    /\ PreviewDerived
    /\ DetailedDerived
    /\ \A u \in requested : ShowsVersion(u)
    /\ \A r \in Requests : CallDerived(call[r])

\* While the file service answers, every preview a caller gets of a user with
\* an avatar has its URL, although commands cache previews without one
\* (GetUserPreviewByID completes what it finds, service.go 179-196).
PreviewHasURL ==
    \A r \in Requests :
        call[r].op \in PreviewQueries /\ call[r].reply = "ok"
          => ~NeedsURL(call[r].user)

\* application_test.go:250 "deactivates the write model and removes the read
\* model": when nothing is going on, no preview presents as active a user
\* PostgreSQL has as inactive.
InactiveIsNotPreviewedActive ==
    (\A r \in Requests : At(r, "rest")) =>
        \A id \in UserIDs :
            Stored(id) /\ PreviewHit(id) /\ ~users[id].is_active
              => ~preview[id].is_active

\* application_test.go:152 "deletes the write model and read model": when
\* nothing is going on, a user whose deletion was answered with success is in
\* neither keyspace of Redis, unless a row with that id was created again.
DeletedIsNotRead ==
    (\A r \in Requests : At(r, "rest")) =>
        \A r \in Requests :
            /\ call[r].op = "DeleteUser"
            /\ call[r].reply = "ok"
            /\ ~Stored(call[r].id)
            => /\ ~PreviewHit(call[r].id)
               /\ \A name \in Names :
                     DetailedHit(name) => detailed[name].user_id # call[r].id

\* server.go:82 "ExistsByUsername answers whether user-service already owns the
\* supplied username": a name a user was stored under is never answered with
\* "free".  The supplied name is the one the row holds.
OwnedNameIsNotFree ==
    [][\A r \in Requests, id \in UserIDs :
          /\ ExistsByUsername(r)
          /\ Stored(id)
          /\ Trimmed[users[id].username] = call[r].name
          => call'[r].reply # "free"]_vars

\* What UserLifecycle sees of a row.
NoProfile == [name |-> NoName, status |-> "absent"]
ProfileOf(row) == IF row = NoRow THEN NoProfile
                  ELSE [name |-> row.username, status |-> row.status]

Lifecycle == INSTANCE UserLifecycle WITH
    Absent <- NoProfile,
    Initially <- [id \in UserIDs |-> ProfileOf(Imported[id])],
    profile <- [id \in UserIDs |-> ProfileOf(users[id])]

\* The whole service, with its overlaps, failures and deaths, takes a user only
\* through the lifecycle of UserLifecycle.
RefinesLifecycle == Lifecycle!Spec
=============================================================================
