-------------------------- MODULE UserServiceProofs --------------------------
(***************************************************************************)
(* The theorems about UserService, for every set of users, names, calls,   *)
(* faults and offered operations.  Most are about the table and the        *)
(* outbox, and follow from UserStore: the first lemma shows that the       *)
(* service changes them only by the statements of UserStore.               *)
(***************************************************************************)
EXTENDS UserService, TLAPS

USE DEF storeVars, cacheVars

-----------------------------------------------------------------------------
\* The service and its store.

LEMMA RowsAreTyped ==
    ASSUME StoreTypeOK, NEW id \in UserIDs, NEW name \in Names
    PROVE  /\ NewRow(id, name) \in UserRow
           /\ Stored(id) => /\ users[id] \in UserRow
                            /\ ActiveRow(users[id]) \in UserRow
                            /\ FailedRow(users[id]) \in UserRow
BY DEF StoreTypeOK, UserRow, NewRow, Settled, ActiveRow, FailedRow, Stored, Statuses,
       AvatarIDs, StatusPendingRegistration, StatusActive,
       StatusRegistrationFailed

LEMMA StoreNextTyped ==
    ASSUME StoreTypeOK, StoreNext
    PROVE  StoreTypeOK'
<1>1. PICK id \in UserIDs :
        \/ \E name \in Names : CreateUserQuery(id, name)
        \/ ActivateUserByID(id)
        \/ DeactivateUserByID(id)
        \/ DeleteUserByID(id)
  BY DEF StoreNext
<1>2. ASSUME NEW row \in UserRow, NEW operation \in {"created", "updated"},
             WriteRow(id, operation, row)
      PROVE  StoreTypeOK'
  BY <1>2 DEF WriteRow, CaptureOutboxEvent, StoreTypeOK, OutboxEvent
<1>3. CASE \E name \in Names : CreateUserQuery(id, name)
  BY <1>2, <1>3, RowsAreTyped DEF CreateUserQuery
<1>4. CASE ActivateUserByID(id)
  <2>1. Names # {}
    BY DEF Names
  <2>2. QED
    BY <1>2, <1>4, <2>1, RowsAreTyped DEF ActivateUserByID
<1>5. CASE DeactivateUserByID(id)
  <2>1. Names # {}
    BY DEF Names
  <2>2. QED
    BY <1>2, <1>5, <2>1, RowsAreTyped DEF DeactivateUserByID
<1>6. CASE DeleteUserByID(id)
  BY <1>6 DEF DeleteUserByID, CaptureOutboxEvent, StoreTypeOK, OutboxEvent,
              Stored
<1>7. QED
  BY <1>1, <1>3, <1>4, <1>5, <1>6

\* The mappers between rows, entries and the domain entity are typed.
LEMMA MappersAreTyped ==
    /\ \A row \in UserRow : MapUserRowToDomain(row) \in User
    /\ \A u \in User : /\ MapDomainUserToCache(u) \in UserCache
                       /\ MapDomainUserToDetailedCache(u) \in UserDetailedCache
    /\ \A c \in UserCache : MapCacheToDomainUser(c) \in User
    /\ \A c \in UserDetailedCache : MapDetailedCacheToDomainUser(c) \in User
BY DEF UserRow, User, UserCache, UserDetailedCache, MapUserRowToDomain,
       MapDomainUserToCache, MapDomainUserToDetailedCache,
       MapCacheToDomainUser, MapDetailedCacheToDomainUser, AvatarIDs

LEMMA ResolvedIsTyped ==
    ASSUME NEW u \in User, NEW v \in Resolve(u)
    PROVE  /\ v \in User
           /\ v.user_id = u.user_id
           /\ v.username = u.username
           /\ v.avatar_id = u.avatar_id
           /\ v.is_active = u.is_active
           /\ v.avatar_url \in {u.avatar_url, u.avatar_id}
BY DEF Resolve, WithURL, User
LEMMA InitTyped == Init => TypeOK
<1> SUFFICES ASSUME Init PROVE TypeOK
  OBVIOUS
<1> USE DEF Init
<1>1. StoreTypeOK
  BY StoreAssumption DEF StoreInit, StoreTypeOK
<1>2. CacheTypeOK
  BY DEF CacheInit, CacheTypeOK
<1>3. CallsOK
  <2>1. Idle \in Call /\ WellFormed(Idle)
    BY DEF Idle, Call, WellFormed, Operations, NameQueries, Steps, Replies,
           Names
  <2>2. QED
    BY <2>1 DEF CallsOK
<1>4. QED
  BY <1>1, <1>2, <1>3 DEF TypeOK

\* Replacing the call of one slot by a well-formed one.
LEMMA ReplaceCall ==
    ASSUME CallsOK, NEW r \in Requests, NEW c \in Call, WellFormed(c),
           call' = [call EXCEPT ![r] = c]
    PROVE  CallsOK'
BY DEF CallsOK

LEMMA AnswerTyped ==
    ASSUME CallsOK, NEW r \in Requests, NEW reply \in Replies,
           NEW user \in User \cup {NoUser}, Answer(r, reply, user)
    PROVE  CallsOK'
<1> DEFINE c == [op |-> call[r].op, pc |-> "rest", id |-> call[r].id,
                 name |-> call[r].name, user |-> user, reply |-> reply]
<1>1. c \in Call /\ WellFormed(c)
  BY DEF CallsOK, Call, WellFormed, Steps
<1>2. QED
  BY <1>1, ReplaceCall DEF Answer, Proceed

LEMMA ContinueTyped ==
    ASSUME CallsOK, NEW r \in Requests, NEW pc \in Steps,
           NEW user \in User \cup {NoUser}, Continue(r, pc, user),
           \/ /\ pc \in {"project", "purge"}
              /\ call[r].op \in Commands
              /\ call[r].id \in UserIDs
           \/ /\ pc = "refresh"
              /\ call[r].op = "GetUserPreviewByID"
              /\ call[r].id \in UserIDs
           \/ /\ pc \in {"load", "fill"}
              /\ \/ call[r].op \in PreviewQueries /\ call[r].id \in UserIDs
                 \/ call[r].op = "GetDetailedUserByUsername"
           \/ /\ pc = "publish"
              /\ call[r].op = "GetDetailedUserByUsername",
           pc \in {"purge", "load"} <=> user = NoUser
    PROVE  CallsOK'
<1> DEFINE c == [op |-> call[r].op, pc |-> pc, id |-> call[r].id,
                 name |-> call[r].name, user |-> user, reply |-> "none"]
<1>1. c \in Call
  BY DEF CallsOK, Call, Replies
<1>2. WellFormed(c)
  BY ServiceAssumption DEF WellFormed
<1>3. QED
  BY <1>1, <1>2, ReplaceCall DEF Continue, Proceed
LEMMA CacheWritesTyped ==
    ASSUME CacheTypeOK, NEW u \in User, NEW id \in UserIDs,
           Upsert(u) \/ UpsertByUsername(u) \/ DropPreview(id)
             \/ UNCHANGED cacheVars
    PROVE  CacheTypeOK'
<1>1. MapDomainUserToCache(u) \in UserCache
  BY MappersAreTyped
<1>2. MapDomainUserToDetailedCache(u) \in UserDetailedCache
  BY MappersAreTyped
<1>3. u.user_id \in UserIDs /\ u.username \in Names
  BY DEF User
<1>4. QED
  BY <1>1, <1>2, <1>3
  DEF CacheTypeOK, Upsert, UpsertByUsername, DropPreview

LEMMA CallsTyped ==
    ASSUME TypeOK, NEW r \in Requests, Calls(r)
    PROVE  TypeOK'
<1>1. ASSUME NEW op \in Operations, NEW id \in UserIDs \cup {NoID},
             NEW name \in Names, Refuse(r, op, id, name)
      PROVE  TypeOK'
  <2> DEFINE c == [op |-> op, pc |-> "rest", id |-> id, name |-> name,
                   user |-> NoUser, reply |-> "invalid"]
  <2>1. c \in Call /\ WellFormed(c)
    BY DEF Call, WellFormed, Steps, Replies
  <2>2. CallsOK'
    BY <1>1, <2>1, ReplaceCall DEF Refuse, TypeOK
  <2>3. QED
    BY <1>1, <2>2 DEF Refuse, TypeOK, StoreTypeOK, CacheTypeOK
<1>2. ASSUME NEW op \in Operations, NEW id \in UserIDs \cup {NoID},
             NEW name \in Names, NEW pc \in {"store", "lookup", "load", "query"},
             Begin(r, op, id, name, pc),
             pc = "store" => op \in Commands /\ id \in UserIDs,
             pc \in {"lookup", "load"} =>
                \/ op \in PreviewQueries /\ id \in UserIDs
                \/ op = "GetDetailedUserByUsername"
      PROVE  TypeOK'
  <2> DEFINE c == [op |-> op, pc |-> pc, id |-> id, name |-> name,
                   user |-> NoUser, reply |-> "none"]
  <2>1. c \in Call
    BY DEF Call, Steps, Replies
  <2>2. WellFormed(c)
    BY <1>2 DEF WellFormed
  <2>3. CallsOK'
    BY <1>2, <2>1, <2>2, ReplaceCall DEF Begin, TypeOK
  <2>4. QED
    BY <1>2, <2>3 DEF Begin, TypeOK, StoreTypeOK, CacheTypeOK
<1>3. NoName \in Names
  BY DEF Names
<1>4. CASE \E op \in Commands, id \in UserIDs \cup {NoID}, name \in Names :
              BeginCommand(r, op, id, name)
  BY <1>1, <1>2, <1>4 DEF BeginCommand, StartCommand, Operations
<1>5. CASE \E op \in PreviewQueries, id \in UserIDs \cup {NoID} :
              BeginPreviewQuery(r, op, id)
  BY <1>1, <1>2, <1>3, <1>5 DEF BeginPreviewQuery, Operations
<1>6. CASE \E op \in NameQueries, name \in Names : BeginNameQuery(r, op, name)
  <2>1. PICK op \in NameQueries, name \in Names : BeginNameQuery(r, op, name)
    BY <1>6
  <2>2. Trimmed[name] \in Names
    BY ServiceAssumption
  <2>3. QED
    BY <1>1, <1>2, <1>3, <2>1, <2>2
    DEF BeginNameQuery, Operations, NameQueries
<1>7. QED
  BY <1>3, <1>4, <1>5, <1>6 DEF Calls, Commands

LEMMA CommandStepTyped ==
    ASSUME TypeOK, NEW r \in Requests, CommandStep(r)
    PROVE  TypeOK'
<1> USE DEF TypeOK
<1>1. call[r] \in Call /\ WellFormed(call[r])
  BY DEF CallsOK
<1>2. call[r].name \in Names
  BY <1>1 DEF Call
<1>3. ASSUME At(r, "store")
      PROVE  call[r].id \in UserIDs /\ call[r].op \in Commands
  BY <1>1, <1>3 DEF WellFormed, At
<1>4. CASE InsertRow(r)
  <2>1. MapUserRowToDomain(NewRow(call[r].id, call[r].name)) \in User
    BY <1>2, <1>3, <1>4, RowsAreTyped, MappersAreTyped DEF InsertRow
  <2>2. ASSUME Continue(r, "project",
                 MapUserRowToDomain(NewRow(call[r].id, call[r].name)))
        PROVE  CallsOK'
    BY <1>3, <1>4, <2>1, <2>2, ContinueTyped, ServiceAssumption
    DEF InsertRow, Steps
  <2>3. ASSUME \E reply \in Replies : Answer(r, reply, NoUser)
        PROVE  CallsOK'
    BY <2>3, AnswerTyped
  <2>4. CallsOK'
    BY <1>4, <2>2, <2>3 DEF InsertRow, Replies
  <2>5. StoreTypeOK'
    <3>1. StoreNext \/ UNCHANGED storeVars
      BY <1>2, <1>3, <1>4 DEF InsertRow, StoreNext
    <3>2. QED
      BY <3>1, StoreNextTyped DEF StoreTypeOK
  <2>6. QED
    BY <1>4, <2>4, <2>5 DEF InsertRow, CacheTypeOK
<1>5. CASE ActivateRow(r)
  <2>1. MapUserRowToDomain(ActiveRow(users[call[r].id])) \in User
    BY <1>2, <1>3, <1>5, RowsAreTyped, MappersAreTyped
    DEF ActivateRow, ActivateUserByID
  <2>2. CallsOK'
    BY <1>3, <1>5, <2>1, ContinueTyped, ServiceAssumption
    DEF ActivateRow, Steps
  <2>3. StoreTypeOK'
    BY <1>3, <1>5, StoreNextTyped DEF ActivateRow, StoreNext
  <2>4. QED
    BY <1>5, <2>2, <2>3 DEF ActivateRow, CacheTypeOK
<1>6. CASE DeactivateRow(r) \/ DeleteRow(r)
  <2>1. CallsOK'
    BY <1>3, <1>6, ContinueTyped DEF DeactivateRow, DeleteRow, Steps
  <2>2. StoreTypeOK'
    BY <1>3, <1>6, StoreNextTyped DEF DeactivateRow, DeleteRow, StoreNext
  <2>3. QED
    BY <1>6, <2>1, <2>2 DEF DeactivateRow, DeleteRow, CacheTypeOK
<1>7. CASE NoRowMatches(r)
  <2>1. CallsOK'
    BY <1>7, AnswerTyped DEF NoRowMatches, Replies
  <2>2. QED
    BY <1>7, <2>1 DEF NoRowMatches, CacheTypeOK, StoreTypeOK
<1>8. CASE StoreFails(r)
  <2>1. CallsOK'
    BY <1>8, AnswerTyped DEF StoreFails, Replies
  <2>2. StoreNext \/ UNCHANGED storeVars
    BY <1>2, <1>3, <1>8 DEF StoreFails, Effect, StoreNext
  <2>3. StoreTypeOK'
    BY <2>2, StoreNextTyped DEF StoreTypeOK
  <2>4. QED
    BY <1>8, <2>1, <2>3 DEF StoreFails, CacheTypeOK
<1>9. CASE Project(r)
  <2>1. call[r].user \in User
    BY <1>1, <1>9 DEF Project, At, WellFormed
  <2>2. call[r].id \in UserIDs
    BY <1>1, <1>9 DEF Project, At, WellFormed
  <2>3. CallsOK'
    BY <1>9, <2>1, AnswerTyped DEF Project, Replies
  <2>4. CacheTypeOK'
    BY <1>9, <2>1, <2>2, CacheWritesTyped DEF Project
  <2>5. QED
    BY <1>9, <2>3, <2>4 DEF Project, StoreTypeOK
<1>10. CASE Purge(r)
  <2>1. call[r].id \in UserIDs
    BY <1>1, <1>10 DEF Purge, At, WellFormed
  <2>2. CallsOK'
    BY <1>10, AnswerTyped DEF Purge, Replies
  <2>3. CacheTypeOK'
    BY <1>10, <2>1 DEF Purge, DropPreview, CacheTypeOK
  <2>4. QED
    BY <1>10, <2>2, <2>3 DEF Purge, StoreTypeOK
<1>11. QED
  BY <1>4, <1>5, <1>6, <1>7, <1>8, <1>9, <1>10 DEF CommandStep
LEMMA QueryStepTyped ==
    ASSUME TypeOK, NEW r \in Requests, QueryStep(r)
    PROVE  TypeOK'
<1> USE DEF TypeOK
<1>1. call[r] \in Call /\ WellFormed(call[r])
  BY DEF CallsOK
<1>2. ASSUME call[r].pc \in {"refresh", "fill", "publish"}
      PROVE  call[r].user \in User
  BY <1>1, <1>2 DEF WellFormed
<1>3. ASSUME NEW id \in UserIDs, Stored(id),
             NEW u \in Resolve(MapUserRowToDomain(users[id]))
      PROVE  u \in User
  <2>1. users[id] \in UserRow
    BY <1>3 DEF Stored, StoreTypeOK
  <2>2. QED
    BY <1>3, <2>1, MappersAreTyped, ResolvedIsTyped
<1>4. ASSUME CallsOK', UNCHANGED <<storeVars, cacheVars, requested>>
      PROVE  TypeOK'
  BY <1>4 DEF StoreTypeOK, CacheTypeOK
<1>5. CASE LookupPreview(r)
  <2> DEFINE id == call[r].id
             cached == MapCacheToDomainUser(preview[id])
  <2>1. id \in UserIDs /\ call[r].op \in PreviewQueries
    BY <1>1, <1>5 DEF LookupPreview, At, WellFormed, PreviewQueries
  <2>2. CASE PreviewHit(id)
               /\ \/ \E u \in Resolve(cached) : \/ Answer(r, "ok", u)
                                               \/ Continue(r, "refresh", u)
                  \/ Answer(r, "ok", cached)
    <3>1. cached \in User
      BY <2>1, <2>2, MappersAreTyped DEF PreviewHit, CacheTypeOK
    <3>2. \A u \in Resolve(cached) : u \in User
      BY <3>1, ResolvedIsTyped
    <3>3. ASSUME NEW u \in User, Answer(r, "ok", u)
          PROVE  CallsOK'
      BY <3>3, AnswerTyped DEF Replies
    <3>4. ASSUME NEW u \in User, Continue(r, "refresh", u)
          PROVE  CallsOK'
      BY <1>5, <2>1, <3>4, ContinueTyped, ServiceAssumption
      DEF LookupPreview, Steps
    <3>5. CallsOK'
      BY <2>2, <3>1, <3>2, <3>3, <3>4
    <3>6. QED
      BY <1>4, <1>5, <3>5 DEF LookupPreview
  <2>3. CASE Continue(r, "load", NoUser)
    <3>1. CallsOK'
      BY <2>1, <2>3, ContinueTyped DEF Steps
    <3>2. QED
      BY <1>4, <1>5, <3>1 DEF LookupPreview
  <2>4. QED
    BY <1>5, <2>2, <2>3 DEF LookupPreview
<1>6. CASE Refresh(r)
  <2>1. call[r].user \in User /\ call[r].id \in UserIDs
    BY <1>1, <1>2, <1>6 DEF Refresh, At, WellFormed
  <2>2. CallsOK'
    BY <1>6, <2>1, AnswerTyped DEF Refresh, Replies
  <2>3. CacheTypeOK'
    BY <1>6, <2>1, CacheWritesTyped DEF Refresh
  <2>4. QED
    BY <1>6, <2>2, <2>3 DEF Refresh, StoreTypeOK
<1>7. CASE LoadUserPreview(r)
  <2>1. call[r].id \in UserIDs
    BY <1>1, <1>7 DEF LoadUserPreview, At, WellFormed, PreviewQueries
  <2>2. ASSUME NEW u \in User, Continue(r, "fill", u)
        PROVE  CallsOK'
    BY <1>7, <2>1, <2>2, ContinueTyped, ServiceAssumption
    DEF LoadUserPreview, Steps
  <2>3. ASSUME NEW u \in User \cup {NoUser}, NEW reply \in Replies,
               Answer(r, reply, u)
        PROVE  CallsOK'
    BY <2>3, AnswerTyped
  <2>4. CallsOK'
    BY <1>3, <1>7, <2>1, <2>2, <2>3 DEF LoadUserPreview, Replies
  <2>5. QED
    BY <1>4, <1>7, <2>4 DEF LoadUserPreview
<1>8. CASE FillPreview(r)
  <2>1. call[r].user \in User /\ call[r].id \in UserIDs
    BY <1>1, <1>2, <1>8 DEF FillPreview, At, WellFormed
  <2>2. CallsOK'
    BY <1>8, <2>1, AnswerTyped DEF FillPreview, Replies
  <2>3. CacheTypeOK'
    BY <1>8, <2>1, CacheWritesTyped DEF FillPreview
  <2>4. QED
    BY <1>8, <2>2, <2>3 DEF FillPreview, StoreTypeOK
<1>9. CASE LookupDetailed(r)
  <2>1. call[r].name \in Names
    BY <1>1 DEF Call
  <2>2. CASE DetailedHit(call[r].name)
               /\ Answer(r, "ok",
                         MapDetailedCacheToDomainUser(detailed[call[r].name]))
    <3>1. MapDetailedCacheToDomainUser(detailed[call[r].name]) \in User
      BY <2>1, <2>2, MappersAreTyped DEF DetailedHit, CacheTypeOK
    <3>2. CallsOK'
      BY <2>2, <3>1, AnswerTyped DEF Replies
    <3>3. QED
      BY <1>4, <1>9, <3>2 DEF LookupDetailed
  <2>3. CASE Continue(r, "load", NoUser)
    <3>1. CallsOK'
      BY <1>9, <2>3, ContinueTyped DEF LookupDetailed, Steps
    <3>2. QED
      BY <1>4, <1>9, <3>1 DEF LookupDetailed
  <2>4. QED
    BY <1>9, <2>2, <2>3 DEF LookupDetailed
<1>10. CASE LoadDetailed(r)
  <2>1. ASSUME NEW u \in User, Continue(r, "fill", u)
        PROVE  CallsOK'
    BY <1>10, <2>1, ContinueTyped, ServiceAssumption
    DEF LoadDetailed, Steps
  <2>2. ASSUME NEW reply \in Replies, Answer(r, reply, NoUser)
        PROVE  CallsOK'
    BY <2>2, AnswerTyped
  <2>3. CallsOK'
    BY <1>3, <1>10, <2>1, <2>2 DEF LoadDetailed, Owns, Replies
  <2>4. QED
    BY <1>4, <1>10, <2>3 DEF LoadDetailed
<1>11. CASE FillDetailed(r)
  <2>1. call[r].user \in User
    BY <1>2, <1>11 DEF FillDetailed, At
  <2>2. ASSUME Continue(r, "publish", call[r].user)
        PROVE  CallsOK'
    BY <1>11, <2>1, <2>2, ContinueTyped, ServiceAssumption
    DEF FillDetailed, Steps
  <2>3. CallsOK'
    BY <1>11, <2>2, AnswerTyped DEF FillDetailed, Replies
  <2>4. CacheTypeOK'
    <3>1. call[r].user.user_id \in UserIDs
      BY <2>1 DEF User
    <3>2. QED
      BY <1>11, <2>1, <3>1, CacheWritesTyped DEF FillDetailed
  <2>5. QED
    BY <1>11, <2>3, <2>4 DEF FillDetailed, StoreTypeOK
<1>12. CASE PublishDetailedUserRequested(r)
  <2>1. call[r].user \in User
    BY <1>2, <1>12 DEF PublishDetailedUserRequested, At
  <2>2. CallsOK'
    BY <1>12, <2>1, AnswerTyped DEF PublishDetailedUserRequested, Replies
  <2>3. requested' \in SUBSET User
    BY <1>12, <2>1 DEF PublishDetailedUserRequested
  <2>4. QED
    BY <1>12, <2>2, <2>3
    DEF PublishDetailedUserRequested, StoreTypeOK, CacheTypeOK
<1>13. CASE ExistsByUsername(r)
  <2>1. CallsOK'
    BY <1>13, AnswerTyped DEF ExistsByUsername, Replies
  <2>2. QED
    BY <1>4, <1>13, <2>1 DEF ExistsByUsername
<1>14. QED
  BY <1>5, <1>6, <1>7, <1>8, <1>9, <1>10, <1>11, <1>12, <1>13 DEF QueryStep

LEMMA DieTyped ==
    ASSUME TypeOK, NEW r \in Requests, Die(r)
    PROVE  TypeOK'
<1>1. CallsOK'
  BY AnswerTyped DEF TypeOK, Die, Replies
<1>2. QED
  BY <1>1 DEF TypeOK, Die, StoreTypeOK, CacheTypeOK

LEMMA StutterTyped ==
    ASSUME TypeOK, UNCHANGED vars
    PROVE  TypeOK'
BY DEF TypeOK, StoreTypeOK, CacheTypeOK, CallsOK, WellFormed, vars

LEMMA NextTyped ==
    ASSUME TypeOK, [Next]_vars
    PROVE  TypeOK'
<1>1. ASSUME NEW r \in Requests,
             Calls(r) \/ CommandStep(r) \/ QueryStep(r) \/ Die(r)
      PROVE  TypeOK'
  BY <1>1, CallsTyped, CommandStepTyped, QueryStepTyped, DieTyped
<1>2. QED
  BY <1>1, StutterTyped DEF Next

Replaces(r, c) == call' = [call EXCEPT ![r] = c]

\* Every step is a step of one call, which replaces it.
LEMMA OthersStay ==
    ASSUME TypeOK, NEW r \in Requests,
           Calls(r) \/ CommandStep(r) \/ QueryStep(r) \/ Die(r)
    PROVE  \A s \in Requests \ {r} : call'[s] = call[s]
<1>1. \E c : Replaces(r, c)
  <2>1. Calls(r) => \E c : Replaces(r, c)
    BY DEF Calls, BeginCommand, StartCommand, BeginPreviewQuery, BeginNameQuery, Begin,
           Refuse, Replaces
  <2>2. CommandStep(r) => \E c : Replaces(r, c)
    BY DEF CommandStep, InsertRow, ActivateRow, DeactivateRow, DeleteRow,
           NoRowMatches, StoreFails, Project, Purge, Continue, Answer, Proceed,
           Replaces
  <2>3. QueryStep(r) => \E c : Replaces(r, c)
    BY DEF QueryStep, LookupPreview, Refresh, LoadUserPreview, FillPreview,
           LookupDetailed, LoadDetailed, FillDetailed,
           PublishDetailedUserRequested, ExistsByUsername, Continue, Answer,
           Proceed, Replaces
  <2>4. Die(r) => \E c : Replaces(r, c)
    BY DEF Die, Answer, Proceed, Replaces
  <2>5. QED
    BY <2>1, <2>2, <2>3, <2>4
<1>2. QED
  BY <1>1 DEF Replaces, TypeOK, CallsOK

\* Type correctness: every value the service stores, caches, holds or publishes
\* is of its type, and a call has what the step it is at needs.
THEOREM TypeCorrect == Spec => []TypeOK
<1>1. Init => TypeOK
  BY InitTyped
<1>2. TypeOK /\ [Next]_vars => TypeOK'
  BY NextTyped
<1>3. QED
  BY <1>1, <1>2, PTL DEF Spec
-----------------------------------------------------------------------------
\* The table and the outbox.

LEMMA CommandIsStatement ==
    ASSUME TypeOK, NEW r \in Requests, CommandStep(r)
    PROVE  StoreNext \/ UNCHANGED storeVars
<1>1. call[r] \in Call /\ WellFormed(call[r])
  BY DEF TypeOK, CallsOK
<1>2. At(r, "store") => call[r].id \in UserIDs /\ call[r].name \in Names
  BY <1>1 DEF WellFormed, At, Call
<1>3. InsertRow(r) \/ ActivateRow(r) \/ DeactivateRow(r) \/ DeleteRow(r)
        => StoreNext \/ UNCHANGED storeVars
  BY <1>2 DEF InsertRow, ActivateRow, DeactivateRow, DeleteRow, StoreNext
<1>4. StoreFails(r) => StoreNext \/ UNCHANGED storeVars
  BY <1>2 DEF StoreFails, Effect, StoreNext
<1>5. QED
  BY <1>3, <1>4 DEF CommandStep, NoRowMatches, Project, Purge

\* Whatever a call does, and however it fails, the table and the outbox change
\* together by one statement, or not at all.
LEMMA OnlyStatements ==
    ASSUME TypeOK, [Next]_vars
    PROVE  StoreNext \/ UNCHANGED storeVars
<1>1. ASSUME NEW r \in Requests, CommandStep(r)
      PROVE  StoreNext \/ UNCHANGED storeVars
  BY <1>1, CommandIsStatement
<1>2. ASSUME NEW r \in Requests, Calls(r) \/ QueryStep(r) \/ Die(r)
      PROVE  UNCHANGED storeVars
  <2>1. Calls(r) => UNCHANGED storeVars
    BY DEF Calls, BeginCommand, StartCommand, BeginPreviewQuery, BeginNameQuery, Begin,
           Refuse
  <2>2. QueryStep(r) => UNCHANGED storeVars
    BY DEF QueryStep, LookupPreview, Refresh, LoadUserPreview, FillPreview,
           LookupDetailed, LoadDetailed, FillDetailed,
           PublishDetailedUserRequested, ExistsByUsername
  <2>3. QED
    BY <1>2, <2>1, <2>2 DEF Die
<1>3. QED
  BY <1>1, <1>2 DEF Next, vars

\* The service implements its write model: of the table and the outbox nothing is
\* ever seen but the statements of the four repository methods, one at a time.
THEOREM ServiceIsStatements == Spec => StoreSpec
<1>1. Init => StoreInit
  BY DEF Init
<1>2. TypeOK /\ [Next]_vars => [StoreNext]_storeVars
  BY OnlyStatements
<1>3. QED
  BY <1>1, <1>2, TypeCorrect, PTL DEF Spec, StoreSpec

LEMMA StoreTyped == StoreSpec => []StoreTypeOK
<1>1. StoreInit => StoreTypeOK
  BY StoreAssumption DEF StoreInit, StoreTypeOK
<1>2. StoreTypeOK /\ [StoreNext]_storeVars => StoreTypeOK'
  BY StoreNextTyped DEF StoreTypeOK
<1>3. QED
  BY <1>1, <1>2, PTL DEF StoreSpec

\* A statement about one user adds one event about it, which follows from the
\* row, and keeps the others.
StatementOn(id, e) ==
    /\ e.aggregate_id = id
    /\ outbox' = Append(outbox, e)
    /\ users' = [users EXCEPT ![id] = RowAfter(e)]
    /\ Follows(e, users[id])

LEMMA StatementShape ==
    ASSUME StoreTypeOK, StoreNext
    PROVE  \E id \in UserIDs, e \in OutboxEvent : StatementOn(id, e)
<1>1. PICK id \in UserIDs :
        \/ \E name \in Names : CreateUserQuery(id, name)
        \/ ActivateUserByID(id)
        \/ DeactivateUserByID(id)
        \/ DeleteUserByID(id)
  BY DEF StoreNext
<1> DEFINE Event(operation, row) ==
             [aggregate_id |-> id, operation |-> operation, payload |-> row]
<1>2. ASSUME NEW row \in UserRow, NEW operation \in {"created", "updated"},
             WriteRow(id, operation, row), Follows(Event(operation, row), users[id])
      PROVE  \E e \in OutboxEvent : StatementOn(id, e)
  <2>1. Event(operation, row) \in OutboxEvent
    BY DEF OutboxEvent
  <2>2. StatementOn(id, Event(operation, row))
    BY <1>2 DEF StatementOn, RowAfter, WriteRow, CaptureOutboxEvent
  <2>3. QED
    BY <2>1, <2>2
<1>3. CASE \E name \in Names : CreateUserQuery(id, name)
  <2>1. PICK name \in Names : CreateUserQuery(id, name)
    BY <1>3
  <2>2. Follows(Event("created", NewRow(id, name)), users[id])
    BY <2>1 DEF CreateUserQuery, Follows, Stored
  <2>3. QED
    BY <1>2, <2>1, <2>2, RowsAreTyped DEF CreateUserQuery
<1>4. CASE ActivateUserByID(id) \/ DeactivateUserByID(id)
  <2>1. Stored(id)
    BY <1>4 DEF ActivateUserByID, DeactivateUserByID
  <2>2. PICK row \in {ActiveRow(users[id]), FailedRow(users[id])} :
           WriteRow(id, "updated", row)
    BY <1>4 DEF ActivateUserByID, DeactivateUserByID
  <2>3. row \in UserRow
    <3>1. Names # {}
      BY DEF Names
    <3>2. QED
      BY <2>1, <2>2, <3>1, RowsAreTyped
  <2>4. Follows(Event("updated", row), users[id])
    BY <2>1, <2>2 DEF Follows, Stored, ActiveRow, FailedRow, Settled
  <2>5. QED
    BY <1>2, <2>2, <2>3, <2>4
<1>5. CASE DeleteUserByID(id)
  <2>1. Event("deactivated", users[id]) \in OutboxEvent
    BY <1>5 DEF DeleteUserByID, OutboxEvent, StoreTypeOK, Stored
  <2>2. StatementOn(id, Event("deactivated", users[id]))
    BY <1>5 DEF DeleteUserByID, Stored, StatementOn, Follows, RowAfter, CaptureOutboxEvent
  <2>3. QED
    BY <2>1, <2>2
<1>6. QED
  BY <1>1, <1>3, <1>4, <1>5

\* What OutboxReplaysTable says of the event at i about the user id.
Replays(id, i) ==
    LET before == {j \in EventsAbout(id) : j < i}
    IN /\ (\A j \in EventsAbout(id) : j <= i) => users[id] = RowAfter(outbox[i])
       /\ before = {} => Follows(outbox[i], Imported[id])
       /\ \A j \in before :
             (\A k \in before : k <= j) => Follows(outbox[i], RowAfter(outbox[j]))

LEMMA StatementIsReplayed ==
    ASSUME StoreTypeOK, OutboxReplaysTable, StoreNext
    PROVE  OutboxReplaysTable'
<1>0. \A other \in UserIDs : /\ EventsAbout(other) = {} => users[other] = Imported[other]
                             /\ \A i \in EventsAbout(other) : Replays(other, i)
  BY DEF OutboxReplaysTable, Replays
<1>1. PICK id \in UserIDs, e \in OutboxEvent : StatementOn(id, e)
  BY StatementShape
<1>2. outbox \in Seq(OutboxEvent) /\ users \in [UserIDs -> UserRow \cup {NoRow}]
  BY DEF StoreTypeOK
<1>3. PICK last : last = Len(outbox) + 1
  OBVIOUS
<1>4. /\ last \in Nat
      /\ DOMAIN outbox' = 1 .. last
      /\ DOMAIN outbox = 1 .. last - 1
      /\ outbox'[last] = e
      /\ \A i \in 1 .. last - 1 : outbox'[i] = outbox[i]
  BY <1>1, <1>2, <1>3 DEF StatementOn
<1>5. EventsAbout(id)' = EventsAbout(id) \cup {last}
  BY <1>1, <1>4 DEF EventsAbout, StatementOn
<1>6. \A other \in UserIDs \ {id} : EventsAbout(other)' = EventsAbout(other)
  BY <1>1, <1>4 DEF EventsAbout, StatementOn
<1>7. \A other \in UserIDs : EventsAbout(other) \subseteq 1 .. last - 1
  BY <1>4 DEF EventsAbout
<1>8. users'[id] = RowAfter(e) /\ \A other \in UserIDs \ {id} : users'[other] = users[other]
  BY <1>1, <1>2 DEF StatementOn
\* The new event follows from the row, which is what the last one left.
<1>9. Replays(id, last)'
  <2>1. {j \in EventsAbout(id)' : j < last} = EventsAbout(id)
    BY <1>4, <1>5, <1>7
  <2>2. EventsAbout(id) = {} => Follows(e, Imported[id])
    BY <1>0, <1>1 DEF StatementOn
  <2>3. ASSUME NEW j \in EventsAbout(id), \A k \in EventsAbout(id) : k <= j
        PROVE  Follows(e, RowAfter(outbox'[j]))
    BY <1>0, <1>1, <1>4, <1>7, <2>3 DEF StatementOn, Replays
  <2>4. users'[id] = RowAfter(outbox'[last])
    BY <1>4, <1>8
  <2>5. QED
    BY <1>3, <1>4, <2>1, <2>2, <2>3, <2>4 DEF Replays
\* The events that were there keep what was before them.
<1>10. ASSUME NEW i \in EventsAbout(id)
       PROVE  Replays(id, i)'
  <2>1. i \in 1 .. last - 1 /\ last \in EventsAbout(id)'
    BY <1>5, <1>7
  <2>2. {j \in EventsAbout(id)' : j < i} = {j \in EventsAbout(id) : j < i}
    BY <1>4, <1>5, <2>1
  <2>3. ~ \A j \in EventsAbout(id)' : j <= i
    BY <1>4, <2>1
  <2>4. \A j \in {i} \cup EventsAbout(id) : outbox'[j] = outbox[j]
    BY <1>4, <1>7
  <2>5. QED
    BY <1>0, <2>2, <2>3, <2>4 DEF Replays
<1>11. ASSUME NEW other \in UserIDs \ {id}
       PROVE  /\ EventsAbout(other)' = {} => users'[other] = Imported[other]
              /\ \A i \in EventsAbout(other)' : Replays(other, i)'
  <2>1. \A j \in EventsAbout(other) : outbox'[j] = outbox[j]
    BY <1>4, <1>7
  <2>2. QED
    BY <1>0, <1>6, <1>8, <2>1 DEF Replays
<1>12. ASSUME NEW other \in UserIDs
       PROVE  /\ EventsAbout(other)' = {} => users'[other] = Imported[other]
              /\ \A i \in EventsAbout(other)' : Replays(other, i)'
  <2>1. CASE other = id
    BY <1>5, <1>9, <1>10, <2>1
  <2>2. CASE other # id
    BY <1>11, <2>2
  <2>3. QED
    BY <2>1, <2>2
<1>13. QED
  BY <1>12 DEF OutboxReplaysTable, Replays

LEMMA StoreIsReplayed == StoreSpec => []OutboxReplaysTable
<1>1. StoreInit => OutboxReplaysTable
  BY DEF StoreInit, OutboxReplaysTable, EventsAbout
<1>2. StoreTypeOK /\ OutboxReplaysTable /\ [StoreNext]_storeVars => OutboxReplaysTable'
  <2>1. OutboxReplaysTable /\ UNCHANGED storeVars => OutboxReplaysTable'
    BY DEF OutboxReplaysTable, EventsAbout
  <2>2. QED
    BY <2>1, StatementIsReplayed
<1>3. QED
  BY <1>1, <1>2, StoreTyped, PTL DEF StoreSpec

\* The outbox replays the table at every moment, and every event in it follows
\* from the ones before it, whatever calls overlap or fail.
THEOREM OutboxIsFaithful == Spec => []OutboxReplaysTable
BY ServiceIsStatements, StoreIsReplayed, PTL

LEMMA StatementIsConsistent ==
    ASSUME StoreTypeOK, TableConsistent, StoreNext
    PROVE  TableConsistent'
<1>1. PICK id \in UserIDs :
        \/ \E name \in Names : CreateUserQuery(id, name)
        \/ ActivateUserByID(id)
        \/ DeactivateUserByID(id)
        \/ DeleteUserByID(id)
  BY DEF StoreNext
<1> USE DEF StoreTypeOK
<1>2. CASE \E name \in Names : CreateUserQuery(id, name)
  <2>1. PICK name \in Names : CreateUserQuery(id, name)
    BY <1>2
  <2>2. users' = [users EXCEPT ![id] = NewRow(id, name)]
    BY <2>1 DEF CreateUserQuery, WriteRow
  <2>3. \A other \in UserIDs : ~Owns(other, name)
    BY <2>1 DEF CreateUserQuery, Taken
  <2>4. QED
    BY <2>2, <2>3 DEF TableConsistent, Stored, NewRow, Owns
<1>3. CASE ActivateUserByID(id) \/ DeactivateUserByID(id)
  <2>1. PICK active \in BOOLEAN, status \in Statuses :
           users' = [users EXCEPT ![id] = Settled(users[id], active, status)]
    BY <1>3 DEF ActivateUserByID, DeactivateUserByID, WriteRow, ActiveRow,
                FailedRow, Statuses, StatusActive, StatusRegistrationFailed
  <2>2. Stored(id)
    BY <1>3 DEF ActivateUserByID, DeactivateUserByID
  <2>3. QED
    BY <2>1, <2>2 DEF TableConsistent, Stored, Settled
<1>4. CASE DeleteUserByID(id)
  BY <1>4 DEF DeleteUserByID, TableConsistent, Stored
<1>5. QED
  BY <1>1, <1>2, <1>3, <1>4

LEMMA StoreIsConsistent == StoreSpec => []TableConsistent
<1>1. StoreInit => TableConsistent
  BY StoreAssumption DEF StoreInit, TableConsistent, Stored
<1>2. StoreTypeOK /\ TableConsistent /\ [StoreNext]_storeVars => TableConsistent'
  <2>1. TableConsistent /\ UNCHANGED storeVars => TableConsistent'
    BY DEF TableConsistent, Stored
  <2>2. QED
    BY <2>1, StatementIsConsistent
<1>3. QED
  BY <1>1, <1>2, StoreTyped, PTL DEF StoreSpec

\* No two users ever have one stored name, and every row is under its own key.
THEOREM NamesStayUnique == Spec => []TableConsistent
BY ServiceIsStatements, StoreIsConsistent, PTL

-----------------------------------------------------------------------------
\* A name in the outbox.

\* The event e says that user id is removed.
Releases(e, id) == e.aggregate_id = id /\ e.operation = "deactivated"

\* A name is in the outbox with two users only if the first was removed between:
\* the events of other users that carry its name, or the row it was imported
\* with, are followed by its removal before an event of the next one.
NamesAreFreedFirst ==
    \A j \in DOMAIN outbox :
        \A id \in UserIDs \ {outbox[j].aggregate_id} :
            LET name == outbox[j].payload.username
            IN /\ /\ Imported[id] # NoRow
                  /\ Imported[id].username = name
                  => \E k \in 1..(j - 1) : Releases(outbox[k], id)
               /\ \A i \in EventsAbout(id) :
                     i < j /\ outbox[i].payload.username = name
                       => \E k \in i..(j - 1) : Releases(outbox[k], id)

\* Who had a name has it, or was removed since.
HeldOrFreed ==
    \A id \in UserIDs :
        /\ \/ Imported[id] = NoRow
           \/ Owns(id, Imported[id].username)
           \/ \E k \in DOMAIN outbox : Releases(outbox[k], id)
        /\ \A i \in EventsAbout(id) :
              \/ Owns(id, outbox[i].payload.username)
              \/ \E k \in DOMAIN outbox : i <= k /\ Releases(outbox[k], id)

LEMMA StatementFreesNames ==
    ASSUME StoreTypeOK, TableConsistent, TableConsistent', HeldOrFreed, NamesAreFreedFirst,
           StoreNext
    PROVE  HeldOrFreed' /\ NamesAreFreedFirst'
<1> DEFINE HeldLater(id, name) == users'[id] # NoRow /\ users'[id].username = name
<1>1. PICK owner \in UserIDs, e \in OutboxEvent : StatementOn(owner, e)
  BY StatementShape
<1>2. outbox \in Seq(OutboxEvent) /\ users \in [UserIDs -> UserRow \cup {NoRow}]
  BY DEF StoreTypeOK
<1>3. PICK last : last = Len(outbox) + 1
  OBVIOUS
<1>4. /\ last \in Nat \ {0}
      /\ DOMAIN outbox' = 1 .. last
      /\ DOMAIN outbox = 1 .. last - 1
      /\ outbox'[last] = e
      /\ \A i \in 1 .. last - 1 : outbox'[i] = outbox[i]
  BY <1>1, <1>2, <1>3 DEF StatementOn
<1>5. /\ e.aggregate_id = owner
      /\ users'[owner] = RowAfter(e)
      /\ \A other \in UserIDs \ {owner} : users'[other] = users[other]
      /\ Follows(e, users[owner])
  BY <1>1, <1>2 DEF StatementOn
<1>6. e.payload \in UserRow /\ e.payload # NoRow
      /\ e.operation \in {"created", "updated", "deactivated"}
  BY StoreAssumption DEF OutboxEvent
\* What was released stays so.
<1>7. ASSUME NEW i \in 1 .. last, NEW id \in UserIDs,
             \E k \in DOMAIN outbox : i <= k /\ Releases(outbox[k], id)
      PROVE  \E k \in DOMAIN outbox' : i <= k /\ Releases(outbox'[k], id)
  BY <1>4, <1>7
\* The owner has the name of its event before the statement or after it.
<1>8. ASSUME NEW id \in UserIDs \ {owner}
      PROVE  ~Owns(id, e.payload.username)
  <2>1. CASE e.operation = "deactivated"
    BY <1>5, <1>6, <2>1 DEF Follows, TableConsistent, Owns, Stored
  <2>2. CASE e.operation # "deactivated"
    <3>1. users'[owner] = e.payload /\ users'[id] = users[id]
      BY <1>5, <2>2 DEF RowAfter
    <3>2. QED
      BY <1>6, <3>1 DEF TableConsistent, Owns, Stored
  <2>3. QED
    BY <2>1, <2>2
\* Who has a name keeps it or is removed.
<1>9. ASSUME NEW id \in UserIDs, NEW name, Owns(id, name)
      PROVE  HeldLater(id, name) \/ Releases(outbox'[last], id)
  <2>1. CASE id # owner
    BY <1>5, <1>9, <2>1 DEF Owns, Stored
  <2>2. CASE id = owner /\ e.operation # "deactivated"
    <3>1. users'[id] = e.payload /\ e.payload.username = name
      BY <1>5, <1>6, <1>9, <2>2 DEF RowAfter, Follows, Owns, Stored
    <3>2. QED
      BY <1>6, <3>1 DEF Owns, Stored
  <2>3. CASE id = owner /\ e.operation = "deactivated"
    BY <1>4, <1>5, <2>3 DEF Releases
  <2>4. QED
    BY <2>1, <2>2, <2>3
<1>10. ASSUME NEW id \in UserIDs, NEW i \in 1 .. last, NEW name,
              \/ Owns(id, name)
              \/ \E k \in DOMAIN outbox : i <= k /\ Releases(outbox[k], id)
       PROVE  \/ HeldLater(id, name)
              \/ \E k \in DOMAIN outbox' : i <= k /\ Releases(outbox'[k], id)
  <2>1. CASE Owns(id, name)
    <3>1. last \in DOMAIN outbox' /\ i <= last
      BY <1>4
    <3>2. QED
      BY <1>9, <2>1, <3>1
  <2>2. CASE \E k \in DOMAIN outbox : i <= k /\ Releases(outbox[k], id)
    BY <1>7, <2>2
  <2>3. QED
    BY <1>10, <2>1, <2>2
<1>11. HeldOrFreed'
  <2> SUFFICES ASSUME NEW id \in UserIDs
               PROVE  /\ \/ Imported[id] = NoRow
                         \/ HeldLater(id, Imported[id].username)
                         \/ \E k \in DOMAIN outbox' : Releases(outbox'[k], id)
                      /\ \A i \in EventsAbout(id)' :
                            \/ HeldLater(id, outbox'[i].payload.username)
                            \/ \E k \in DOMAIN outbox' : i <= k /\ Releases(outbox'[k], id)
    BY DEF HeldOrFreed, Owns, Stored
  <2>1. \/ Imported[id] = NoRow
        \/ HeldLater(id, Imported[id].username)
        \/ \E k \in DOMAIN outbox' : Releases(outbox'[k], id)
    <3>1. CASE Owns(id, Imported[id].username)
      <4>1. last \in DOMAIN outbox'
        BY <1>4
      <4>2. QED
        BY <1>9, <3>1, <4>1
    <3>2. CASE \E k \in DOMAIN outbox : Releases(outbox[k], id)
      BY <1>4, <3>2
    <3>3. QED
      BY <3>1, <3>2 DEF HeldOrFreed
  <2>2. ASSUME NEW i \in EventsAbout(id)'
        PROVE  \/ HeldLater(id, outbox'[i].payload.username)
               \/ \E k \in DOMAIN outbox' : i <= k /\ Releases(outbox'[k], id)
    <3>1. i \in 1 .. last /\ outbox'[i].aggregate_id = id
      BY <1>4 DEF EventsAbout
    <3>2. CASE i = last
      <4>1. id = owner
        BY <1>4, <1>5, <3>1, <3>2
      <4>2. CASE e.operation = "deactivated"
        BY <1>4, <1>5, <3>1, <3>2, <4>1, <4>2 DEF Releases
      <4>3. CASE e.operation # "deactivated"
        <5>1. users'[id] = e.payload /\ outbox'[i] = e
          BY <1>4, <1>5, <3>2, <4>1, <4>3 DEF RowAfter
        <5>2. QED
          BY <1>6, <5>1 DEF Owns, Stored
      <4>4. QED
        BY <4>2, <4>3
    <3>3. CASE i # last
      <4>1. i \in EventsAbout(id) /\ outbox'[i] = outbox[i]
        BY <1>4, <3>1, <3>3 DEF EventsAbout
      <4>2. QED
        BY <1>10, <3>1, <4>1 DEF HeldOrFreed
    <3>4. QED
      BY <3>2, <3>3
  <2>3. QED
    BY <2>1, <2>2
<1>12. NamesAreFreedFirst'
  <2> SUFFICES ASSUME NEW j \in DOMAIN outbox',
                      NEW id \in UserIDs \ {outbox'[j].aggregate_id}
               PROVE  /\ /\ Imported[id] # NoRow
                         /\ Imported[id].username = outbox'[j].payload.username
                         => \E k \in 1..(j - 1) : Releases(outbox'[k], id)
                      /\ \A i \in EventsAbout(id)' :
                            i < j /\ outbox'[i].payload.username = outbox'[j].payload.username
                              => \E k \in i..(j - 1) : Releases(outbox'[k], id)
    BY DEF NamesAreFreedFirst
  <2>1. CASE j # last
    <3>1. /\ j \in DOMAIN outbox /\ outbox'[j] = outbox[j]
          /\ \A k \in 1 .. j : outbox'[k] = outbox[k]
      BY <1>4, <2>1
    <3>2. \A i \in EventsAbout(id)' : i < j =>
             i \in EventsAbout(id) /\ outbox'[i] = outbox[i] /\ i \in 1 .. last
      BY <1>4, <3>1 DEF EventsAbout
    <3>3. QED
      BY <1>4, <3>1, <3>2 DEF NamesAreFreedFirst
  <2>2. CASE j = last
    <3>1. id \in UserIDs \ {owner} /\ outbox'[j] = e
      BY <1>4, <1>5, <2>2
    <3>2. ~Owns(id, outbox'[j].payload.username)
      BY <1>8, <3>1
    <3>3. \A i \in EventsAbout(id)' : i < j =>
             i \in EventsAbout(id) /\ outbox'[i] = outbox[i] /\ i \in 1 .. last
      BY <1>4, <2>2 DEF EventsAbout
    <3>4. \A k \in DOMAIN outbox : k \in 1 .. j - 1 /\ outbox'[k] = outbox[k]
      BY <1>4, <2>2
    <3>5. QED
      BY <1>4, <2>2, <3>2, <3>3, <3>4 DEF HeldOrFreed
  <2>3. QED
    BY <2>1, <2>2
<1>13. QED
  BY <1>11, <1>12

LEMMA StoreFreesNames == StoreSpec => []NamesAreFreedFirst
<1>1. StoreInit => HeldOrFreed /\ NamesAreFreedFirst
  BY DEF StoreInit, HeldOrFreed, NamesAreFreedFirst, EventsAbout, Owns, Stored
<1>2. /\ StoreTypeOK /\ TableConsistent /\ TableConsistent'
      /\ HeldOrFreed /\ NamesAreFreedFirst /\ [StoreNext]_storeVars
      => HeldOrFreed' /\ NamesAreFreedFirst'
  <2>1. HeldOrFreed /\ NamesAreFreedFirst /\ UNCHANGED storeVars
        => HeldOrFreed' /\ NamesAreFreedFirst'
    BY DEF HeldOrFreed, NamesAreFreedFirst, EventsAbout, Owns, Stored
  <2>2. QED
    BY <2>1, StatementFreesNames
<1>3. QED
  BY <1>1, <1>2, StoreTyped, StoreIsConsistent, PTL DEF StoreSpec

\* A consumer of the outbox that keeps names unique, as the table does, never
\* meets a name that is still another user's: in the log, too, a name changes
\* hands only by a removal (000005, the trigger; users_username_key).
THEOREM NamesChangeHandsByRemoval == Spec => []NamesAreFreedFirst
BY ServiceIsStatements, StoreFreesNames, PTL

-----------------------------------------------------------------------------
\* The lifecycle.

Profiles == [id \in UserIDs |-> ProfileOf(users[id])]

LEMMA ProfileUpdate ==
    ASSUME StoreTypeOK, NEW id \in UserIDs, NEW row \in UserRow \cup {NoRow},
           users' = [users EXCEPT ![id] = row]
    PROVE  Profiles' = [Profiles EXCEPT ![id] = ProfileOf(row)]
BY DEF StoreTypeOK, Profiles, ProfileOf

LEMMA StatementIsLifecycleStep ==
    ASSUME StoreTypeOK, StoreNext
    PROVE  Lifecycle!Next
<1> USE DEF Lifecycle!Next, Lifecycle!Register, Lifecycle!Settle,
            Lifecycle!Remove, Lifecycle!Present, Lifecycle!Holds
<1>1. PICK id \in UserIDs :
        \/ \E name \in Names : CreateUserQuery(id, name)
        \/ ActivateUserByID(id)
        \/ DeactivateUserByID(id)
        \/ DeleteUserByID(id)
  BY DEF StoreNext
<1>2. \A i \in UserIDs : Profiles[i] = ProfileOf(users[i])
  BY DEF Profiles
<1>3. \A i \in UserIDs :
        /\ ~Stored(i) => Profiles[i] = NoProfile
        /\ Stored(i) => /\ Profiles[i] # NoProfile
                        /\ Profiles[i].name = users[i].username
  <2> SUFFICES ASSUME NEW i \in UserIDs, Stored(i)
               PROVE  /\ Profiles[i] # NoProfile
                      /\ Profiles[i].name = users[i].username
    BY <1>2 DEF Stored, ProfileOf
  <2>1. users[i] \in UserRow
    BY DEF Stored, StoreTypeOK
  <2>2. users[i].status # "absent"
    BY <2>1 DEF UserRow, Statuses, StatusActive, StatusPendingRegistration,
                StatusRegistrationFailed
  <2>3. Profiles[i] = [name |-> users[i].username, status |-> users[i].status]
    BY <1>2 DEF Stored, ProfileOf
  <2>4. Profiles[i].status # NoProfile.status
    BY <2>2, <2>3 DEF NoProfile
  <2>5. QED
    BY <2>3, <2>4
<1>4. CASE \E name \in Names : CreateUserQuery(id, name)
  <2>1. PICK name \in Names : CreateUserQuery(id, name)
    BY <1>4
  <2>2. NewRow(id, name) \in UserRow
    BY RowsAreTyped
  <2>3. Profiles' = [Profiles EXCEPT ![id] = ProfileOf(NewRow(id, name))]
    BY <2>1, <2>2, ProfileUpdate DEF CreateUserQuery, WriteRow
  <2>4. ProfileOf(NewRow(id, name))
          = [name |-> name, status |-> "pending_registration"]
    BY <2>2, StoreAssumption
    DEF ProfileOf, NewRow, StatusPendingRegistration
  <2>5. Profiles[id] = NoProfile
    BY <1>2, <2>1 DEF CreateUserQuery, Stored, ProfileOf
  <2>6. \A other \in UserIDs :
           ~(Profiles[other] # NoProfile /\ Profiles[other].name = name)
    BY <1>3, <2>1 DEF CreateUserQuery, Taken, Owns
  <2>7. Lifecycle!Register(id, name)
    BY <2>3, <2>4, <2>5, <2>6 DEF Profiles
  <2>8. QED
    BY <2>7
<1>5. CASE \/ ActivateUserByID(id)
           \/ DeactivateUserByID(id)
  <2>1. PICK active \in BOOLEAN,
             status \in {"active", "registration_failed"} :
           users' = [users EXCEPT ![id] = Settled(users[id], active, status)]
    BY <1>5 DEF ActivateUserByID, DeactivateUserByID, WriteRow, ActiveRow,
                FailedRow, StatusActive, StatusRegistrationFailed
  <2>2. users[id] # NoRow /\ users[id] \in UserRow
    BY <1>5 DEF ActivateUserByID, DeactivateUserByID, Stored, StoreTypeOK
  <2>3. Settled(users[id], active, status) \in UserRow
    BY <2>2 DEF Settled, UserRow, Statuses, StatusActive,
                StatusRegistrationFailed
  <2>4. Profiles' = [Profiles EXCEPT ![id] =
                       ProfileOf(Settled(users[id], active, status))]
    BY <2>1, <2>3, ProfileUpdate
  <2>5. Profiles[id] # NoProfile
    BY <1>3, <2>2 DEF Stored
  <2>6. ProfileOf(Settled(users[id], active, status))
          = [name |-> Profiles[id].name, status |-> status]
    <3>1. Profiles[id] = [name |-> users[id].username,
                          status |-> users[id].status]
      BY <1>2, <2>2 DEF ProfileOf
    <3>2. ProfileOf(Settled(users[id], active, status))
            = [name |-> users[id].username, status |-> status]
      BY <2>3, StoreAssumption DEF ProfileOf, Settled
    <3>3. QED
      BY <3>1, <3>2
  <2>7. QED
    BY <2>4, <2>5, <2>6 DEF Profiles, ProfileOf
<1>6. CASE DeleteUserByID(id)
  <2>1. Profiles' = [Profiles EXCEPT ![id] = NoProfile]
    BY <1>6, ProfileUpdate DEF DeleteUserByID, ProfileOf
  <2>2. Profiles[id] # NoProfile
    BY <1>6, <1>3 DEF DeleteUserByID
  <2>3. QED
    BY <2>1, <2>2 DEF Profiles, ProfileOf
<1>7. QED
  BY <1>1, <1>4, <1>5, <1>6

LEMMA StoreIsLifecycle == StoreSpec => RefinesLifecycle
<1>1. StoreInit => Lifecycle!Init
  BY DEF StoreInit, Lifecycle!Init
<1>2. StoreTypeOK /\ [StoreNext]_storeVars => [Lifecycle!Next]_Profiles
  <2>1. UNCHANGED storeVars => UNCHANGED Profiles
    BY DEF Profiles, ProfileOf
  <2>2. QED
    BY <2>1, StatementIsLifecycleStep
<1>3. QED
  BY <1>1, <1>2, StoreTyped, PTL
  DEF StoreSpec, RefinesLifecycle, Lifecycle!Spec, Profiles, ProfileOf

\* The service implements UserLifecycle: whatever overlaps or fails, a user is
\* registered, completed, compensated and removed only as the saga may assume.
THEOREM ImplementsLifecycle == Spec => RefinesLifecycle
BY ServiceIsStatements, StoreIsLifecycle, PTL
-----------------------------------------------------------------------------
\* The read model shows only what was committed.

\* The row of a stored user is one of its versions, and knows its own id.
RowIsVersion ==
    \A id \in UserIDs : Stored(id) =>
        users[id] \in Versions(id) /\ users[id].user_id = id

LEMMA VersionsGrow ==
    ASSUME StoreTypeOK, StoreNext \/ UNCHANGED storeVars, NEW id \in UserIDs
    PROVE  Versions(id) \subseteq Versions(id)'
<1>1. CASE UNCHANGED storeVars
  BY <1>1 DEF Versions
<1>2. CASE StoreNext
  <2>1. PICK e \in OutboxEvent : outbox' = Append(outbox, e)
    BY <1>2, StatementShape DEF StatementOn
  <2>2. /\ DOMAIN outbox \subseteq DOMAIN outbox'
        /\ \A i \in DOMAIN outbox : outbox'[i] = outbox[i]
    BY <2>1 DEF StoreTypeOK
  <2>3. QED
    BY <2>2 DEF Versions
<1>3. QED
  BY <1>1, <1>2

\* What a statement wrote is a version from then on.
LEMMA WrittenIsVersion ==
    ASSUME StoreTypeOK, NEW id \in UserIDs, NEW row \in UserRow,
           NEW operation, WriteRow(id, operation, row)
    PROVE  row \in Versions(id)'
<1> DEFINE e == [aggregate_id |-> id, operation |-> operation, payload |-> row]
<1>1. outbox' = Append(outbox, e)
  BY DEF WriteRow, CaptureOutboxEvent
<1>2. Len(outbox) + 1 \in DOMAIN outbox' /\ outbox'[Len(outbox) + 1] = e
  BY <1>1 DEF StoreTypeOK
<1>3. QED
  BY <1>2 DEF Versions

LEMMA RowStaysVersion ==
    ASSUME StoreTypeOK, RowIsVersion, StoreNext \/ UNCHANGED storeVars
    PROVE  RowIsVersion'
<1>1. ASSUME NEW other \in UserIDs, Stored(other)',
             users'[other] = users[other]
      PROVE  users'[other] \in Versions(other)' /\ users'[other].user_id = other
  BY <1>1, VersionsGrow DEF RowIsVersion, Stored
<1>2. CASE UNCHANGED storeVars
  BY <1>1, <1>2 DEF RowIsVersion, Stored
<1>3. CASE StoreNext
  <2>1. PICK id \in UserIDs :
          \/ \E name \in Names : CreateUserQuery(id, name)
          \/ ActivateUserByID(id)
          \/ DeactivateUserByID(id)
          \/ DeleteUserByID(id)
    BY <1>3 DEF StoreNext
  <2>2. ASSUME NEW row \in UserRow, NEW operation, row.user_id = id,
               WriteRow(id, operation, row)
        PROVE  RowIsVersion'
    BY <1>1, <2>2, WrittenIsVersion
    DEF RowIsVersion, WriteRow, StoreTypeOK, Stored
  <2>3. Names # {}
    BY DEF Names
  <2>4. Stored(id) => users[id].user_id = id
    BY DEF RowIsVersion
  <2>5. CASE \E name \in Names : CreateUserQuery(id, name)
    BY <2>2, <2>5, RowsAreTyped DEF CreateUserQuery, NewRow
  <2>6. CASE ActivateUserByID(id) \/ DeactivateUserByID(id)
    BY <2>2, <2>3, <2>4, <2>6, RowsAreTyped
    DEF ActivateUserByID, DeactivateUserByID, ActiveRow, FailedRow, Settled
  <2>7. CASE DeleteUserByID(id)
    BY <1>1, <2>7 DEF RowIsVersion, DeleteUserByID, StoreTypeOK, Stored
  <2>8. QED
    BY <2>1, <2>5, <2>6, <2>7
<1>4. QED
  BY <1>2, <1>3

\* Copies keep showing a version as the table moves on.
LEMMA ShownStaysShown ==
    ASSUME StoreTypeOK, StoreNext \/ UNCHANGED storeVars,
           NEW e, e.user_id \in UserIDs
    PROVE  /\ ShowsVersion(e) => ShowsVersion(e)'
           /\ ShowsIdentity(e) => ShowsIdentity(e)'
BY VersionsGrow DEF ShowsVersion, ShowsIdentity

\* The mappers and the file service keep what a copy shows.
LEMMA MappersKeepVersion ==
    ASSUME NEW u, ShowsVersion(u)
    PROVE  /\ ShowsIdentity(u)
           /\ ShowsVersion(MapDomainUserToCache(u))
           /\ ShowsVersion(MapCacheToDomainUser(u))
           /\ ShowsIdentity(MapDomainUserToDetailedCache(u))
           /\ ShowsIdentity(MapDetailedCacheToDomainUser(u))
           /\ \A w \in Resolve(u) : ShowsVersion(w)
BY DEF ShowsVersion, ShowsIdentity, IdentityOf, MapDomainUserToCache,
       MapCacheToDomainUser, MapDomainUserToDetailedCache,
       MapDetailedCacheToDomainUser, Resolve, WithURL

LEMMA RowCopyShowsVersion ==
    ASSUME NEW id \in UserIDs, NEW row \in UserRow, row.user_id = id,
           row \in Versions(id)
    PROVE  ShowsVersion(MapUserRowToDomain(row))
BY DEF ShowsVersion, IdentityOf, MapUserRowToDomain
LEMMA CallsStayDerived ==
    ASSUME TypeOK, ReadModelDerived, StoreNext \/ UNCHANGED storeVars,
           NEW r \in Requests, NEW c, call' = [call EXCEPT ![r] = c],
           CallDerived(c)'
    PROVE  (\A s \in Requests : CallDerived(call[s]))'
<1>1. \A d : CallDerived(d) /\ (d.user = NoUser \/ d.user.user_id \in UserIDs)
                => CallDerived(d)'
  BY ShownStaysShown DEF CallDerived, TypeOK
<1>2. ASSUME NEW s \in Requests \ {r}
      PROVE  CallDerived(call[s])'
  <2>1. call'[s] = call[s]
    BY DEF TypeOK, CallsOK
  <2>2. call[s].user = NoUser \/ call[s].user.user_id \in UserIDs
    BY DEF TypeOK, CallsOK, Call, User
  <2>3. CallDerived(call[s])
    BY DEF ReadModelDerived
  <2>4. QED
    BY <1>1, <2>1, <2>2, <2>3 DEF CallDerived
<1>3. CallDerived(call[r])'
  <2>1. call'[r] = c
    BY DEF TypeOK, CallsOK
  <2>2. QED
    BY <2>1 DEF CallDerived
<1>4. QED
  BY <1>2, <1>3

LEMMA CacheStaysDerived ==
    ASSUME TypeOK, ReadModelDerived, StoreNext \/ UNCHANGED storeVars,
           \/ UNCHANGED cacheVars
           \/ \E u \in User : ShowsVersion(u) /\ (Upsert(u) \/ UpsertByUsername(u))
           \/ \E id \in UserIDs : DropPreview(id)
    PROVE  PreviewDerived' /\ DetailedDerived'
<1>1. \A e : e.user_id \in UserIDs =>
         /\ ShowsVersion(e) => ShowsVersion(e)'
         /\ ShowsIdentity(e) => ShowsIdentity(e)'
  BY ShownStaysShown DEF TypeOK
<1>2. \A id \in UserIDs : preview[id] # NoEntry =>
         /\ preview[id].user_id = id
         /\ ShowsVersion(preview[id])
  BY DEF ReadModelDerived, PreviewDerived, PreviewHit
<1>3. \A name \in Names : detailed[name] # NoEntry =>
         /\ detailed[name].username = name
         /\ detailed[name].user_id \in UserIDs
         /\ ShowsIdentity(detailed[name])
  BY DEF ReadModelDerived, DetailedDerived, DetailedHit, TypeOK, CacheTypeOK,
         UserDetailedCache
<1>4. SUFFICES
        /\ \A id \in UserIDs : preview'[id] # NoEntry =>
              \E e : e = preview'[id] /\ e.user_id = id /\ ShowsVersion(e)
        /\ \A name \in Names : detailed'[name] # NoEntry =>
              \E e : /\ e = detailed'[name]
                    /\ e.username = name
                    /\ e.user_id \in UserIDs
                    /\ ShowsIdentity(e)
  BY <1>1 DEF PreviewDerived, DetailedDerived, PreviewHit, DetailedHit
<1>5. CASE UNCHANGED cacheVars
  BY <1>2, <1>3, <1>5
<1>6. CASE \E u \in User : ShowsVersion(u) /\ Upsert(u)
  BY <1>2, <1>3, <1>6, MappersKeepVersion
  DEF Upsert, MapDomainUserToCache, TypeOK, CacheTypeOK
<1>7. CASE \E u \in User : ShowsVersion(u) /\ UpsertByUsername(u)
  <2>1. PICK u \in User : ShowsVersion(u) /\ UpsertByUsername(u)
    BY <1>7
  <2>2. /\ MapDomainUserToDetailedCache(u).username = u.username
        /\ MapDomainUserToDetailedCache(u).user_id = u.user_id
        /\ u.user_id \in UserIDs
    BY DEF MapDomainUserToDetailedCache, User
  <2>3. ShowsIdentity(MapDomainUserToDetailedCache(u))
    BY <2>1, MappersKeepVersion
  <2>4. QED
    BY <1>2, <1>3, <2>1, <2>2, <2>3
    DEF UpsertByUsername, TypeOK, CacheTypeOK
<1>8. CASE \E id \in UserIDs : DropPreview(id)
  BY <1>2, <1>3, <1>8 DEF DropPreview, TypeOK, CacheTypeOK
<1>9. QED
  BY <1>5, <1>6, <1>7, <1>8

\* The frame of every step: the replaced call is derived, and so is whatever
\* is written to Redis and whatever is published.
LEMMA DerivedStep ==
    ASSUME TypeOK, ReadModelDerived, StoreNext \/ UNCHANGED storeVars,
           NEW r \in Requests, NEW c, call' = [call EXCEPT ![r] = c],
           CallDerived(c)',
           \/ UNCHANGED cacheVars
           \/ \E u \in User : ShowsVersion(u) /\ (Upsert(u) \/ UpsertByUsername(u))
           \/ \E id \in UserIDs : DropPreview(id),
           \/ UNCHANGED requested
           \/ \E u \in User : ShowsVersion(u) /\ requested' = requested \cup {u}
    PROVE  ReadModelDerived'
<1>1. PreviewDerived' /\ DetailedDerived'
  BY CacheStaysDerived
<1>2. (\A s \in Requests : CallDerived(call[s]))'
  BY CallsStayDerived
<1>3. \A u \in User : ShowsVersion(u) => ShowsVersion(u)'
  BY ShownStaysShown DEF User, TypeOK
<1>4. \A u \in requested' : u \in User /\ ShowsVersion(u)
  BY DEF ReadModelDerived, TypeOK
<1>5. QED
  BY <1>1, <1>2, <1>3, <1>4 DEF ReadModelDerived
CacheStepOK ==
    \/ UNCHANGED cacheVars
    \/ \E u \in User : ShowsVersion(u) /\ (Upsert(u) \/ UpsertByUsername(u))
    \/ \E id \in UserIDs : DropPreview(id)

\* A step after which the call holds nothing.
LEMMA EmptyHanded ==
    ASSUME TypeOK, ReadModelDerived, StoreNext \/ UNCHANGED storeVars,
           NEW r \in Requests, NEW pc, NEW reply, Proceed(r, pc, reply, NoUser),
           CacheStepOK, UNCHANGED requested
    PROVE  ReadModelDerived'
<1> DEFINE c == [op |-> call[r].op, pc |-> pc, id |-> call[r].id,
                 name |-> call[r].name, user |-> NoUser, reply |-> reply]
<1>1. PICK d : d = c
  OBVIOUS
<1>2. CallDerived(d)'
  <2>1. d.user = NoUser
    BY <1>1
  <2>2. QED
    BY <2>1 DEF CallDerived
<1>3. QED
  BY <1>1, <1>2, DerivedStep DEF Proceed, CacheStepOK

\* A step after which the call holds a copy that shows a version.
LEMMA HoldingCopy ==
    ASSUME TypeOK, ReadModelDerived, StoreNext \/ UNCHANGED storeVars,
           NEW r \in Requests, NEW pc, NEW reply, NEW u \in User,
           Proceed(r, pc, reply, u),
           ShowsVersion(u) \/ ShowsVersion(u)',
           CacheStepOK,
           \/ UNCHANGED requested
           \/ ShowsVersion(u) /\ requested' = requested \cup {u}
    PROVE  ReadModelDerived'
<1> DEFINE c == [op |-> call[r].op, pc |-> pc, id |-> call[r].id,
                 name |-> call[r].name, user |-> u, reply |-> reply]
<1>1. ShowsVersion(u)'
  BY ShownStaysShown DEF TypeOK, User
<1>2. ShowsIdentity(u)'
  BY <1>1 DEF ShowsVersion, ShowsIdentity
<1>3. PICK d : d = c
  OBVIOUS
<1>4. CallDerived(d)'
  <2>1. d.user = u
    BY <1>3
  <2>2. QED
    BY <1>1, <1>2, <2>1 DEF CallDerived
<1>5. QED
  BY <1>3, <1>4, DerivedStep DEF Proceed, CacheStepOK

\* A step that only puts a call that holds nothing in the slot.
LEMMA FreshCallDerived ==
    ASSUME TypeOK, ReadModelDerived, NEW r \in Requests,
           NEW op, NEW pc, NEW id, NEW name, NEW reply,
           call' = [call EXCEPT ![r] = [op |-> op, pc |-> pc, id |-> id, name |-> name,
                                        user |-> NoUser, reply |-> reply]],
           UNCHANGED <<storeVars, cacheVars, requested>>
    PROVE  ReadModelDerived'
<1>1. PICK c : c = [op |-> op, pc |-> pc, id |-> id, name |-> name,
                    user |-> NoUser, reply |-> reply]
  OBVIOUS
<1>2. CallDerived(c)'
  <2>1. c.user = NoUser
    BY <1>1
  <2>2. QED
    BY <2>1 DEF CallDerived
<1>3. QED
  BY <1>1, <1>2, DerivedStep

LEMMA CallsDerived ==
    ASSUME TypeOK, ReadModelDerived, NEW r \in Requests, Calls(r)
    PROVE  ReadModelDerived'
<1>1. PICK op, pc, id, name, reply :
        /\ call' = [call EXCEPT ![r] =
              [op |-> op, pc |-> pc, id |-> id, name |-> name,
               user |-> NoUser, reply |-> reply]]
        /\ UNCHANGED <<storeVars, cacheVars, requested>>
  BY DEF Calls, BeginCommand, StartCommand, BeginPreviewQuery, BeginNameQuery, Begin,
         Refuse
<1>2. QED
  BY <1>1, FreshCallDerived

LEMMA CommandStepDerived ==
    ASSUME TypeOK, RowIsVersion, ReadModelDerived, NEW r \in Requests,
           CommandStep(r), StoreNext \/ UNCHANGED storeVars
    PROVE  ReadModelDerived'
<1>1. call[r] \in Call /\ WellFormed(call[r]) /\ CallDerived(call[r])
  BY DEF TypeOK, CallsOK, ReadModelDerived
<1>2. CASE InsertRow(r)
  <2>1. PICK id \in UserIDs, name \in Names :
           id = call[r].id /\ name = call[r].name
    BY <1>1, <1>2 DEF InsertRow, At, WellFormed, Call
  <2> DEFINE row == NewRow(id, name)
  <2>2. CASE CreateUserQuery(id, name)
               /\ Continue(r, "project", MapUserRowToDomain(row))
    <3>1. row \in UserRow /\ row.user_id = id
      BY <2>1, RowsAreTyped DEF TypeOK, NewRow
    <3>2. row \in Versions(id)'
      BY <2>1, <2>2, <3>1, WrittenIsVersion DEF CreateUserQuery, TypeOK
    <3>3. PICK u \in User : u = MapUserRowToDomain(row)
      BY <3>1, MappersAreTyped
    <3>4. ShowsVersion(u)'
      BY <3>1, <3>2, <3>3 DEF ShowsVersion, IdentityOf, MapUserRowToDomain
    <3>5. QED
      BY <1>2, <2>2, <3>3, <3>4, HoldingCopy
      DEF InsertRow, Continue, CacheStepOK
  <2>3. CASE \E reply : Answer(r, reply, NoUser)
    BY <1>2, <2>3, EmptyHanded DEF InsertRow, Answer, CacheStepOK
  <2>4. QED
    BY <1>2, <2>1, <2>2, <2>3 DEF InsertRow
<1>3. CASE ActivateRow(r)
  <2>1. PICK id \in UserIDs : id = call[r].id
    BY <1>1, <1>3 DEF ActivateRow, At, WellFormed
  <2>2. PICK row \in UserRow : row = ActiveRow(users[id]) /\ row.user_id = id
    <3>1. Names # {}
      BY DEF Names
    <3>2. Stored(id)
      BY <1>3, <2>1 DEF ActivateRow, ActivateUserByID
    <3>3. QED
      BY <3>1, <3>2, RowsAreTyped DEF TypeOK, RowIsVersion, ActiveRow, Settled
  <2>3. row \in Versions(id)'
    BY <1>3, <2>1, <2>2, WrittenIsVersion
    DEF ActivateRow, ActivateUserByID, TypeOK
  <2>4. PICK u \in User : u = MapUserRowToDomain(row)
    BY MappersAreTyped
  <2>5. ShowsVersion(u)'
    BY <2>2, <2>3, <2>4 DEF ShowsVersion, IdentityOf, MapUserRowToDomain
  <2>6. QED
    BY <1>3, <2>1, <2>2, <2>4, <2>5, HoldingCopy
    DEF ActivateRow, Continue, CacheStepOK
<1>4. CASE DeactivateRow(r) \/ DeleteRow(r)
  BY <1>4, EmptyHanded DEF DeactivateRow, DeleteRow, Continue, CacheStepOK
<1>5. CASE NoRowMatches(r)
  BY <1>5, EmptyHanded DEF NoRowMatches, Answer, CacheStepOK
<1>6. CASE StoreFails(r)
  BY <1>6, EmptyHanded DEF StoreFails, Answer, CacheStepOK
<1>7. CASE Project(r)
  <2>1. call[r].user \in User /\ call[r].op \in Commands
    BY <1>1, <1>7 DEF Project, At, WellFormed
  <2>2. ShowsVersion(call[r].user)
    BY <1>1, <1>7, <2>1, ServiceAssumption
    DEF CallDerived, Commands, Project, At
  <2>3. CacheStepOK
    BY <1>7, <2>1, <2>2 DEF Project, CacheStepOK
  <2>4. QED
    BY <1>7, <2>1, <2>2, <2>3, HoldingCopy, EmptyHanded DEF Project, Answer
<1>8. CASE Purge(r)
  <2>1. CacheStepOK
    BY <1>1, <1>8 DEF Purge, At, WellFormed, CacheStepOK
  <2>2. QED
    BY <1>8, <2>1, EmptyHanded DEF Purge, Answer
<1>9. QED
  BY <1>2, <1>3, <1>4, <1>5, <1>6, <1>7, <1>8 DEF CommandStep

LEMMA QueryStepDerived ==
    ASSUME TypeOK, RowIsVersion, ReadModelDerived, NEW r \in Requests,
           QueryStep(r), UNCHANGED storeVars
    PROVE  ReadModelDerived'
<1>1. call[r] \in Call /\ WellFormed(call[r]) /\ CallDerived(call[r])
  BY DEF TypeOK, CallsOK, ReadModelDerived
<1>2. ASSUME call[r].pc \in {"refresh", "fill", "publish"}
      PROVE  call[r].user \in User /\ ShowsVersion(call[r].user)
  BY <1>1, <1>2, ServiceAssumption DEF WellFormed, CallDerived
<1>3. ASSUME NEW id \in UserIDs, Stored(id)
      PROVE  \A u \in Resolve(MapUserRowToDomain(users[id])) :
               u \in User /\ ShowsVersion(u)
  <2>1. users[id] \in UserRow /\ users[id].user_id = id
    BY <1>3 DEF Stored, TypeOK, StoreTypeOK, RowIsVersion
  <2>2. ShowsVersion(MapUserRowToDomain(users[id]))
    BY <1>3, <2>1, RowCopyShowsVersion DEF RowIsVersion
  <2>3. MapUserRowToDomain(users[id]) \in User
    BY <2>1, MappersAreTyped
  <2>4. QED
    BY <2>2, <2>3, ResolvedIsTyped, MappersKeepVersion
<1>4. CASE LookupPreview(r)
  <2> DEFINE id == call[r].id
             cached == MapCacheToDomainUser(preview[id])
  <2>1. id \in UserIDs
    BY <1>1, <1>4 DEF LookupPreview, At, WellFormed, PreviewQueries
  <2>2. ASSUME PreviewHit(id)
        PROVE  /\ cached \in User /\ ShowsVersion(cached)
               /\ \A u \in Resolve(cached) : u \in User /\ ShowsVersion(u)
    <3>1. cached \in User
      BY <2>1, <2>2, MappersAreTyped DEF PreviewHit, TypeOK, CacheTypeOK
    <3>2. ShowsVersion(cached)
      BY <2>1, <2>2, MappersKeepVersion DEF ReadModelDerived, PreviewDerived
    <3>3. QED
      BY <3>1, <3>2, ResolvedIsTyped, MappersKeepVersion
  <2>3. ASSUME NEW u \in User, ShowsVersion(u),
               Answer(r, "ok", u) \/ Continue(r, "refresh", u)
        PROVE  ReadModelDerived'
    BY <1>4, <2>3, HoldingCopy
    DEF LookupPreview, Answer, Continue, CacheStepOK
  <2>4. ASSUME Continue(r, "load", NoUser)
        PROVE  ReadModelDerived'
    BY <1>4, <2>4, EmptyHanded DEF LookupPreview, Continue, CacheStepOK
  <2>5. QED
    BY <1>4, <2>2, <2>3, <2>4 DEF LookupPreview
<1>5. CASE Refresh(r)
  <2>1. CacheStepOK
    BY <1>2, <1>5 DEF Refresh, At, CacheStepOK
  <2>2. QED
    BY <1>2, <1>5, <2>1, HoldingCopy DEF Refresh, At, Answer
<1>6. CASE LoadUserPreview(r)
  <2>1. call[r].id \in UserIDs
    BY <1>1, <1>6 DEF LoadUserPreview, At, WellFormed, PreviewQueries
  <2>2. ASSUME NEW u \in User, ShowsVersion(u),
               Answer(r, "ok", u) \/ Continue(r, "fill", u)
        PROVE  ReadModelDerived'
    BY <1>6, <2>2, HoldingCopy
    DEF LoadUserPreview, Answer, Continue, CacheStepOK
  <2>3. ASSUME NEW reply, Answer(r, reply, NoUser)
        PROVE  ReadModelDerived'
    BY <1>6, <2>3, EmptyHanded DEF LoadUserPreview, Answer, CacheStepOK
  <2>4. QED
    BY <1>3, <1>6, <2>1, <2>2, <2>3 DEF LoadUserPreview
<1>7. CASE FillPreview(r)
  <2>1. CacheStepOK
    BY <1>2, <1>7 DEF FillPreview, At, CacheStepOK
  <2>2. QED
    BY <1>2, <1>7, <2>1, HoldingCopy, EmptyHanded DEF FillPreview, At, Answer
<1>8. CASE LookupDetailed(r)
  <2> DEFINE name == call[r].name
             cached == MapDetailedCacheToDomainUser(detailed[name])
  <2>1. CASE DetailedHit(name) /\ Answer(r, "ok", cached)
    <3> DEFINE c == [op |-> call[r].op, pc |-> "rest", id |-> call[r].id,
                     name |-> call[r].name, user |-> cached, reply |-> "ok"]
    <3>1. ShowsIdentity(detailed[name])
      BY <1>1, <2>1 DEF ReadModelDerived, DetailedDerived, Call
    <3>2. ShowsIdentity(cached)
      BY <3>1 DEF ShowsIdentity, IdentityOf, MapDetailedCacheToDomainUser
    <3>3. PICK d : d = c
      OBVIOUS
    <3>4. CallDerived(d)'
      <4>1. /\ d.user = cached
            /\ d.op = "GetDetailedUserByUsername"
            /\ d.pc = "rest"
        BY <1>8, <3>3 DEF LookupDetailed
      <4>2. ShowsIdentity(d.user)'
        BY <3>2, <4>1 DEF ShowsIdentity, Versions
      <4>3. QED
        BY <4>1, <4>2 DEF CallDerived
    <3>5. QED
      BY <1>8, <2>1, <3>3, <3>4, DerivedStep
      DEF LookupDetailed, Answer, Proceed
  <2>2. CASE Continue(r, "load", NoUser)
    BY <1>8, <2>2, EmptyHanded DEF LookupDetailed, Continue, CacheStepOK
  <2>3. QED
    BY <1>8, <2>1, <2>2 DEF LookupDetailed
<1>9. CASE LoadDetailed(r)
  <2>1. ASSUME NEW u \in User, ShowsVersion(u), Continue(r, "fill", u)
        PROVE  ReadModelDerived'
    BY <1>9, <2>1, HoldingCopy DEF LoadDetailed, Continue, CacheStepOK
  <2>2. ASSUME NEW reply, Answer(r, reply, NoUser)
        PROVE  ReadModelDerived'
    BY <1>9, <2>2, EmptyHanded DEF LoadDetailed, Answer, CacheStepOK
  <2>3. QED
    BY <1>3, <1>9, <2>1, <2>2 DEF LoadDetailed, Owns
<1>10. CASE FillDetailed(r)
  <2>1. CacheStepOK
    BY <1>2, <1>10 DEF FillDetailed, At, CacheStepOK
  <2>2. QED
    BY <1>2, <1>10, <2>1, HoldingCopy, EmptyHanded
    DEF FillDetailed, At, Answer, Continue
<1>11. CASE PublishDetailedUserRequested(r)
  BY <1>2, <1>11, HoldingCopy
  DEF PublishDetailedUserRequested, At, Answer, CacheStepOK
<1>12. CASE ExistsByUsername(r)
  BY <1>12, EmptyHanded DEF ExistsByUsername, Answer, CacheStepOK
<1>13. QED
  BY <1>4, <1>5, <1>6, <1>7, <1>8, <1>9, <1>10, <1>11, <1>12 DEF QueryStep

LEMMA CallStepDerived ==
    ASSUME TypeOK, RowIsVersion, ReadModelDerived, NEW r \in Requests,
           Calls(r) \/ CommandStep(r) \/ QueryStep(r) \/ Die(r)
    PROVE  ReadModelDerived'
<1>1. QueryStep(r) => UNCHANGED storeVars
  BY DEF QueryStep, LookupPreview, Refresh, LoadUserPreview, FillPreview,
         LookupDetailed, LoadDetailed, FillDetailed,
         PublishDetailedUserRequested, ExistsByUsername
<1>2. Die(r) => ReadModelDerived'
  BY EmptyHanded DEF Die, Answer, CacheStepOK
<1>3. QED
  BY <1>1, <1>2, CallsDerived, CommandStepDerived, QueryStepDerived, CommandIsStatement

LEMMA StutterDerived ==
    ASSUME ReadModelDerived, UNCHANGED vars
    PROVE  ReadModelDerived'
BY DEF vars, ReadModelDerived, PreviewDerived, DetailedDerived, PreviewHit,
       DetailedHit, CallDerived, ShowsVersion, ShowsIdentity, Versions

LEMMA NextDerived ==
    ASSUME TypeOK, RowIsVersion, ReadModelDerived, [Next]_vars
    PROVE  ReadModelDerived'
BY CallStepDerived, StutterDerived DEF Next

LEMMA InitDerived == Init => RowIsVersion /\ ReadModelDerived
BY StoreAssumption
DEF Init, StoreInit, CacheInit, RowIsVersion, Stored, Versions,
    ReadModelDerived, PreviewDerived, DetailedDerived, PreviewHit,
    DetailedHit, CallDerived, Idle

\* Nothing is ever cached, answered or published that PostgreSQL did not commit
\* for the user it is about.
THEOREM ReadModelIsDerived == Spec => []ReadModelDerived
<1>1. Init => RowIsVersion /\ ReadModelDerived
  BY InitDerived
<1>2. TypeOK /\ RowIsVersion /\ [Next]_vars => RowIsVersion'
  BY OnlyStatements, RowStaysVersion DEF TypeOK
<1>3. TypeOK /\ RowIsVersion /\ ReadModelDerived /\ [Next]_vars
        => ReadModelDerived'
  BY NextDerived
<1>4. QED
  BY <1>1, <1>2, <1>3, TypeCorrect, PTL DEF Spec

-----------------------------------------------------------------------------
\* The URL of a preview, while the file service answers.

\* What holds of a preview query from the lookup of the URL on.
HasURL(c) ==
    c.op \in PreviewQueries /\ (c.reply = "ok" \/ c.pc \in {"refresh", "fill"})
        => ~NeedsURL(c.user)

LEMMA ResolvedHasURL ==
    ASSUME "files" \notin Faults, NEW u \in User, u.avatar_url = NoAvatar,
           NEW v \in Resolve(u)
    PROVE  ~NeedsURL(v)
BY DEF Resolve, Broken, WithURL, NeedsURL

\* Only the call of r changes, and it goes on as Proceed says.
LEMMA ProceedHasURL ==
    ASSUME TypeOK, NEW r \in Requests, NEW pc, NEW reply, NEW user,
           \A q \in Requests : HasURL(call[q]),
           Proceed(r, pc, reply, user),
           call[r].op \in PreviewQueries /\ (reply = "ok" \/ pc \in {"refresh", "fill"})
               => ~NeedsURL(user)
    PROVE  \A q \in Requests : HasURL(call[q])'
<1> DEFINE c == [op |-> call[r].op, pc |-> pc, id |-> call[r].id,
                 name |-> call[r].name, user |-> user, reply |-> reply]
<1>1. /\ call'[r] = c
      /\ \A q \in Requests \ {r} : call'[q] = call[q]
  BY DEF Proceed, TypeOK, CallsOK
<1>2. HasURL(c)
  BY DEF HasURL
<1> HIDE DEF c
<1> QED
  BY <1>1, <1>2 DEF HasURL, NeedsURL

LEMMA FreshCallHasURL ==
    ASSUME TypeOK, NEW r \in Requests, NEW op, NEW pc, NEW id, NEW name, NEW reply,
           call' = [call EXCEPT ![r] = [op |-> op, pc |-> pc, id |-> id, name |-> name,
                                        user |-> NoUser, reply |-> reply]],
           pc \in {"rest", "store", "lookup", "load", "query"},
           reply \in {"none", "invalid"},
           \A q \in Requests : HasURL(call[q])
    PROVE  \A q \in Requests : HasURL(call[q])'
<1>1. /\ call'[r].pc = pc /\ call'[r].reply = reply
      /\ \A q \in Requests \ {r} : call'[q] = call[q]
  BY DEF TypeOK, CallsOK
<1> QED
  BY <1>1 DEF HasURL, NeedsURL

LEMMA BeginHasURL ==
    ASSUME TypeOK, NEW r \in Requests, Calls(r),
           \A q \in Requests : HasURL(call[q])
    PROVE  \A q \in Requests : HasURL(call[q])'
<1>1. PICK op, pc, id, name, reply :
        /\ call' = [call EXCEPT ![r] = [op |-> op, pc |-> pc, id |-> id, name |-> name,
                                        user |-> NoUser, reply |-> reply]]
        /\ pc \in {"rest", "store", "lookup", "load", "query"}
        /\ reply \in {"none", "invalid"}
  BY DEF Calls, BeginCommand, StartCommand, BeginPreviewQuery, BeginNameQuery, Begin, Refuse
<1> QED
  BY <1>1, FreshCallHasURL

LEMMA NextHasURL ==
    ASSUME "files" \notin Faults, TypeOK, [Next]_vars,
           \A q \in Requests : HasURL(call[q])
    PROVE  \A q \in Requests : HasURL(call[q])'
<1>1. ASSUME NEW r \in Requests, CommandStep(r)
      PROVE  \A q \in Requests : HasURL(call[q])'
  <2>1. call[r].op \notin PreviewQueries
    <3>1. WellFormed(call[r]) /\ call[r].pc \in {"store", "project", "purge"}
      BY <1>1 DEF CommandStep, InsertRow, ActivateRow, DeactivateRow, DeleteRow,
                  NoRowMatches, StoreFails, Project, Purge, At, TypeOK, CallsOK
    <3> QED
      BY <3>1 DEF WellFormed, Commands, PreviewQueries
  <2>2. \E pc, reply, user : Proceed(r, pc, reply, user)
    BY <1>1 DEF CommandStep, InsertRow, ActivateRow, DeactivateRow, DeleteRow,
                NoRowMatches, StoreFails, Project, Purge, Answer, Continue
  <2> QED
    BY <2>1, <2>2, ProceedHasURL
<1>2. ASSUME NEW r \in Requests, QueryStep(r)
      PROVE  \A q \in Requests : HasURL(call[q])'
  <2>0. call[r] \in Call /\ WellFormed(call[r]) /\ HasURL(call[r])
    BY DEF TypeOK, CallsOK
  <2>1. CASE LookupPreview(r)
    <3>1. PICK id \in UserIDs : id = call[r].id
      BY <2>0, <2>1 DEF LookupPreview, At, WellFormed, PreviewQueries
    <3> DEFINE cached == MapCacheToDomainUser(preview[id])
    <3>2. PreviewHit(id) => cached \in User
      BY MappersAreTyped DEF PreviewHit, TypeOK, CacheTypeOK
    <3>3. \/ \E u : ~NeedsURL(u) /\ Proceed(r, "rest", "ok", u)
          \/ \E u : ~NeedsURL(u) /\ Proceed(r, "refresh", "none", u)
          \/ Proceed(r, "load", "none", NoUser)
      <4>1. PreviewHit(id) /\ NeedsURL(cached) =>
               \A u \in Resolve(cached) : ~NeedsURL(u)
        BY <3>2, ResolvedHasURL DEF NeedsURL
      <4> HIDE DEF cached
      <4> QED
        BY <2>1, <3>1, <4>1 DEF LookupPreview, Answer, Continue, cached
    <3> QED
      BY <3>3, ProceedHasURL
  <2>2. CASE Refresh(r) \/ FillPreview(r)
    <3>1. call[r].pc \in {"refresh", "fill"}
      BY <2>2 DEF Refresh, FillPreview, At
    <3>2. \/ Proceed(r, "rest", "ok", call[r].user)
          \/ Proceed(r, "rest", "error", NoUser)
      BY <2>2 DEF Refresh, FillPreview, Answer
    <3> QED
      BY <2>0, <3>1, <3>2, ProceedHasURL DEF HasURL
  <2>3. CASE LoadUserPreview(r)
    <3>1. PICK id \in UserIDs : id = call[r].id
      BY <2>0, <2>3 DEF LoadUserPreview, At, WellFormed, PreviewQueries
    <3>2. ASSUME Stored(id), NEW u \in Resolve(MapUserRowToDomain(users[id]))
          PROVE  ~NeedsURL(u)
      <4>1. MapUserRowToDomain(users[id]) \in User
        BY <3>2, MappersAreTyped DEF Stored, TypeOK, StoreTypeOK
      <4>2. MapUserRowToDomain(users[id]).avatar_url = NoAvatar
        BY DEF MapUserRowToDomain
      <4> QED
        BY <3>2, <4>1, <4>2, ResolvedHasURL
    <3>3. \/ \E u : /\ ~NeedsURL(u)
                    /\ \/ Proceed(r, "fill", "none", u)
                       \/ Proceed(r, "rest", "ok", u)
          \/ Proceed(r, "rest", "user not found", NoUser)
          \/ Proceed(r, "rest", "error", NoUser)
      BY <2>3, <3>1, <3>2 DEF LoadUserPreview, Answer, Continue
    <3> QED
      BY <3>3, ProceedHasURL
  <2>4. CASE \/ LookupDetailed(r)
             \/ LoadDetailed(r)
             \/ FillDetailed(r)
             \/ PublishDetailedUserRequested(r)
    <3>1. call[r].op \notin PreviewQueries
      BY <2>0, <2>4 DEF LookupDetailed, LoadDetailed, FillDetailed,
         PublishDetailedUserRequested, At, WellFormed, PreviewQueries
    <3>2. \E pc, reply, user : Proceed(r, pc, reply, user)
      BY <2>4 DEF LookupDetailed, LoadDetailed, FillDetailed,
         PublishDetailedUserRequested, Answer, Continue
    <3> QED
      BY <3>1, <3>2, ProceedHasURL
  <2>5. CASE ExistsByUsername(r)
    <3>1. \E reply \in {"owned", "free", "error"} : Proceed(r, "rest", reply, NoUser)
      BY <2>5 DEF ExistsByUsername, Answer
    <3> QED
      BY <3>1, ProceedHasURL
  <2> QED
    BY <1>2, <2>1, <2>2, <2>3, <2>4, <2>5 DEF QueryStep
<1>3. ASSUME NEW r \in Requests, Die(r)
      PROVE  \A q \in Requests : HasURL(call[q])'
  <2>1. Proceed(r, "rest", "died", NoUser)
    BY <1>3 DEF Die, Answer
  <2> QED
    BY <2>1, ProceedHasURL
<1>4. CASE UNCHANGED vars
  BY <1>4 DEF vars, HasURL, NeedsURL
<1> QED
  BY <1>1, <1>2, <1>3, <1>4, BeginHasURL DEF Next

\* While the file service answers, every preview a caller is given of a user with
\* an avatar has its URL, for any number of users and calls and with all other
\* dependencies failing (service.go 179-214).
THEOREM PreviewsHaveURLs ==
    ASSUME "files" \notin Faults
    PROVE  Spec => []PreviewHasURL
<1> DEFINE Inv == \A q \in Requests : HasURL(call[q])
<1>1. Init => Inv
  BY DEF Init, Idle, HasURL, PreviewQueries
<1>2. TypeOK /\ Inv /\ [Next]_vars => Inv'
  BY NextHasURL
<1>3. Inv => PreviewHasURL
  BY DEF HasURL, PreviewHasURL
<1> HIDE DEF Inv
<1> QED
  BY <1>1, <1>2, <1>3, TypeCorrect, PTL DEF Spec
-----------------------------------------------------------------------------
\* Calls come to an end.

\* The requests a call still makes at most of PostgreSQL, Redis, the file service
\* and the broker.
RequestsLeft(pc) ==
    CASE pc = "lookup" -> 5
      [] pc = "load" -> 4
      [] pc \in {"fill", "store"} -> 2
      [] pc \in {"publish", "refresh", "project", "purge", "query"} -> 1
      [] OTHER -> 0

\* The requests of the step from pc to next: a row that is loaded and an entry that
\* answers may need the URL of the avatar as well.
RequestsMade(pc, next) ==
    IF pc = "load" \/ (pc = "lookup" /\ next # "load") THEN 2 ELSE 1

\* The step pays for its requests.
Pays(r) ==
    RequestsMade(call[r].pc, call'[r].pc) + RequestsLeft(call'[r].pc)
        <= RequestsLeft(call[r].pc)

LEMMA StepPays ==
    ASSUME TypeOK, NEW r \in Requests, CommandStep(r) \/ QueryStep(r) \/ Die(r)
    PROVE  Pays(r)
<1>1. ASSUME NEW pc, NEW reply, NEW user, Proceed(r, pc, reply, user)
      PROVE  call'[r].pc = pc
  BY <1>1 DEF Proceed, TypeOK, CallsOK
<1>2. ASSUME CommandStep(r)
      PROVE  \/ call[r].pc = "store" /\ call'[r].pc \in {"project", "purge", "rest"}
             \/ call[r].pc \in {"project", "purge"} /\ call'[r].pc = "rest"
  <2>1. CASE InsertRow(r) \/ NoRowMatches(r) \/ StoreFails(r)
    BY <1>1, <2>1 DEF InsertRow, NoRowMatches, StoreFails, At, Answer, Continue
  <2>2. CASE ActivateRow(r) \/ DeactivateRow(r) \/ DeleteRow(r)
    BY <1>1, <2>2 DEF ActivateRow, DeactivateRow, DeleteRow, At, Continue
  <2>3. CASE Project(r) \/ Purge(r)
    BY <1>1, <2>3 DEF Project, Purge, At, Answer
  <2>4. QED
    BY <1>2, <2>1, <2>2, <2>3 DEF CommandStep
<1>3. ASSUME QueryStep(r)
      PROVE  \/ call[r].pc = "lookup" /\ call'[r].pc \in {"refresh", "load", "rest"}
             \/ call[r].pc = "load" /\ call'[r].pc \in {"fill", "rest"}
             \/ call[r].pc = "fill" /\ call'[r].pc \in {"publish", "rest"}
             \/ call[r].pc \in {"refresh", "publish", "query"} /\ call'[r].pc = "rest"
  <2>1. CASE LookupPreview(r)
    <3>1. \E pc \in {"refresh", "load", "rest"} : \E reply, user : Proceed(r, pc, reply, user)
      BY <2>1 DEF LookupPreview, Answer, Continue
    <3>2. QED
      BY <1>1, <2>1, <3>1 DEF LookupPreview, At
  <2>2. CASE LookupDetailed(r)
    BY <1>1, <2>2 DEF LookupDetailed, At, Answer, Continue
  <2>3. CASE LoadUserPreview(r) \/ LoadDetailed(r)
    <3>1. \E pc \in {"fill", "rest"} : \E reply, user : Proceed(r, pc, reply, user)
      BY <2>3 DEF LoadUserPreview, LoadDetailed, Answer, Continue
    <3>2. QED
      BY <1>1, <2>3, <3>1 DEF LoadUserPreview, LoadDetailed, At
  <2>4. CASE FillPreview(r) \/ FillDetailed(r)
    BY <1>1, <2>4 DEF FillPreview, FillDetailed, At, Answer, Continue
  <2>5. CASE Refresh(r) \/ PublishDetailedUserRequested(r) \/ ExistsByUsername(r)
    BY <1>1, <2>5
    DEF Refresh, PublishDetailedUserRequested, ExistsByUsername, At, Answer
  <2>6. QED
    BY <1>3, <2>1, <2>2, <2>3, <2>4, <2>5 DEF QueryStep
<1>4. ASSUME Die(r)
      PROVE  /\ call'[r].pc = "rest"
             /\ call[r].pc \in Steps \ {"rest"}
  BY <1>1, <1>4 DEF Die, At, Answer, TypeOK, CallsOK, Call
<1>5. CASE CommandStep(r)
  BY <1>2, <1>5 DEF Pays, RequestsMade, RequestsLeft
<1>6. CASE QueryStep(r)
  BY <1>3, <1>6 DEF Pays, RequestsMade, RequestsLeft
<1>7. CASE Die(r)
  BY <1>4, <1>7 DEF Pays, RequestsMade, RequestsLeft, Steps
<1>8. QED
  BY <1>5, <1>6, <1>7

\* A call makes no request but out of those it has left, and nothing gives it more.
CallsRunDown ==
    [][\A r \in Requests :
          /\ CommandStep(r) \/ QueryStep(r) \/ Die(r) => Pays(r)
          /\ call[r].pc # "rest"
               => RequestsLeft(call'[r].pc) <= RequestsLeft(call[r].pc)]_vars

\* No call loops: it makes at most five requests of its dependencies, the file
\* service among them, as a detailed query does that finds nothing in Redis; and no
\* other caller, no failure and no refresh of an entry makes it start over
\* (service.go 69-298).
THEOREM CallsComeToAnEnd ==
    /\ \A pc : RequestsLeft(pc) \in 0..5
    /\ Spec => CallsRunDown
<1>1. \A pc : RequestsLeft(pc) \in 0..5
  BY DEF RequestsLeft
<1>2. ASSUME TypeOK, [Next]_vars
      PROVE  [\A r \in Requests :
                 /\ CommandStep(r) \/ QueryStep(r) \/ Die(r) => Pays(r)
                 /\ call[r].pc # "rest"
                      => RequestsLeft(call'[r].pc) <= RequestsLeft(call[r].pc)]_vars
  <2> SUFFICES ASSUME Next, NEW r \in Requests, call[r].pc # "rest"
               PROVE  RequestsLeft(call'[r].pc) <= RequestsLeft(call[r].pc)
    BY <1>2, StepPays
  <2>1. PICK q \in Requests : Calls(q) \/ CommandStep(q) \/ QueryStep(q) \/ Die(q)
    BY DEF Next
  <2>2. CASE q # r
    <3>1. call'[r] = call[r]
      BY <1>2, <2>1, <2>2, OthersStay
    <3>2. QED
      BY <1>1, <3>1
  <2>3. CASE q = r
    <3>1. ~Calls(r)
      BY DEF Calls, BeginCommand, StartCommand, BeginPreviewQuery, BeginNameQuery,
             Begin, Refuse, At
    <3>2. Pays(r)
      BY <1>2, <2>1, <2>3, <3>1, StepPays
    <3>3. QED
      BY <1>1, <3>2 DEF Pays, RequestsMade
  <2>4. QED
    BY <2>2, <2>3
<1>3. Spec => CallsRunDown
  BY <1>2, TypeCorrect, PTL DEF Spec, CallsRunDown
<1>4. QED
  BY <1>1, <1>3
=============================================================================
