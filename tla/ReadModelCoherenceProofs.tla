----------------------- MODULE ReadModelCoherenceProofs -----------------------
(***************************************************************************)
(* Why only disturbed users have stale previews, for any number of calls   *)
(* and users.  The invariant is about one user at a time: while the user is*)
(* not disturbed, every copy on its way to Redis agrees with the row, no   *)
(* command on it overlaps such a copy, and its preview agrees with the row *)
(* or is due to be replaced.                                               *)
(***************************************************************************)
EXTENDS ReadModelCoherence, UserServiceProofs

USE DEF storeVars, cacheVars

Undisturbed(id) ==
    /\ \A r \in Requests : HoldsCopy(r, id) => Agrees(call[r].user, users[id])
    /\ ~Overlapped(id)
    /\ Coherent(id) \/ \E r \in Requests : ReadModelDue(r, id)

\* A copy on its way to Redis goes under the id the call was made with.
CopiesKeyed ==
    \A r \in Requests, id \in UserIDs :
        HoldsCopy(r, id) => call[r].user.user_id = id

CoherenceInv == \A id \in UserIDs \ disturbed : Undisturbed(id)

\* A step of r that touches neither the row nor the preview of the user, ends
\* no command on it, and takes at most a copy that agrees.
LEMMA QuietStep ==
    ASSUME NEW id \in UserIDs, NEW r \in Requests, Undisturbed(id),
           \A s \in Requests \ {r} : call'[s] = call[s],
           users'[id] = users[id], preview'[id] = preview[id],
           ~ReadModelDue(r, id),
           HoldsCopy(r, id)' => Agrees(call'[r].user, users[id]),
           ~Overlapped(id)'
    PROVE  Undisturbed(id)'
<1>1. \A s \in Requests : HoldsCopy(s, id)' => Agrees(call[s].user, users[id])'
  BY DEF Undisturbed, HoldsCopy, Agrees
<1>2. Coherent(id) => Coherent(id)'
  BY DEF Coherent, PreviewHit, Agrees
<1>3. ASSUME NEW s \in Requests, ReadModelDue(s, id)
      PROVE  ReadModelDue(s, id)'
  BY <1>3 DEF ReadModelDue
<1>4. QED
  BY <1>1, <1>2, <1>3 DEF Undisturbed

\* A step of r that commits a statement about the user.
LEMMA StatementStep ==
    ASSUME NEW id \in UserIDs, NEW r \in Requests,
           ReadModelDue(r, id)',
           HoldsCopy(r, id)' => Agrees(call'[r].user, users'[id]),
           ~Overlapped(id)'
    PROVE  Undisturbed(id)'
<1>1. \A s \in Requests : HoldsCopy(s, id)' => Agrees(call[s].user, users[id])'
  <2>1. \A s \in Requests \ {r} : ~HoldsCopy(s, id)'
    BY DEF Overlapped
  <2>2. QED
    BY <2>1 DEF Agrees
<1>2. QED
  BY <1>1 DEF Undisturbed

\* A step of r that ends with the preview agreeing with the row, or gone.
LEMMA CacheStep ==
    ASSUME NEW id \in UserIDs, NEW r \in Requests, Undisturbed(id),
           \A s \in Requests \ {r} : call'[s] = call[s],
           users'[id] = users[id], Coherent(id)',
           ~HoldsCopy(r, id)', ~Overlapped(id)'
    PROVE  Undisturbed(id)'
<1>1. \A s \in Requests : HoldsCopy(s, id)' => Agrees(call[s].user, users[id])'
  BY DEF Undisturbed, HoldsCopy, Agrees
<1>2. QED
  BY <1>1 DEF Undisturbed

LEMMA UpsertedAgrees ==
    ASSUME TypeOK, NEW u \in User, Upsert(u), UNCHANGED users,
           Agrees(u, users[u.user_id])
    PROVE  Coherent(u.user_id)'
BY DEF Upsert, MapDomainUserToCache, Agrees, Coherent, PreviewHit, TypeOK,
       CacheTypeOK, User
\* Beginning a call.
LEMMA CallsCoherent ==
    ASSUME NEW id \in UserIDs, NEW r \in Requests, TypeOK, Undisturbed(id),
           ~Overlapped(id)', Calls(r)
    PROVE  Undisturbed(id)'
<1>1. /\ ~ReadModelDue(r, id)
      /\ UNCHANGED <<users, preview>>
      /\ call'[r].pc \in {"rest", "store", "lookup", "load", "query"}
  BY DEF Calls, BeginCommand, StartCommand, BeginPreviewQuery, BeginNameQuery, Begin, Refuse,
         At, ReadModelDue, TypeOK, CallsOK
<1>2. ~HoldsCopy(r, id)'
  BY <1>1 DEF HoldsCopy
<1>3. QED
  BY <1>1, <1>2, QuietStep, OthersStay

\* A command on its way through PostgreSQL and Redis.
LEMMA CommandStepCoherent ==
    ASSUME NEW id \in UserIDs, NEW r \in Requests, TypeOK, RowIsVersion,
           CopiesKeyed, Undisturbed(id), ~Overlapped(id)', ~Abandons(r, id),
           CommandStep(r)
    PROVE  Undisturbed(id)'
<1>1. \A s \in Requests \ {r} : call'[s] = call[s]
  BY OthersStay
<1>2. WellFormed(call[r]) /\ call \in [Requests -> Call]
  BY DEF TypeOK, CallsOK
<1>3. users \in [UserIDs -> UserRow \cup {NoRow}]
  BY DEF TypeOK, StoreTypeOK
<1>4. ASSUME At(r, "store"), call[r].id # id \/ UNCHANGED users,
             UNCHANGED cacheVars, ~HoldsCopy(r, id)',
             \/ UNCHANGED users
             \/ \E row : users' = [users EXCEPT ![call[r].id] = row]
      PROVE  Undisturbed(id)'
  <2>1. users'[id] = users[id] /\ preview'[id] = preview[id]
    BY <1>3, <1>4
  <2>2. ~ReadModelDue(r, id)
    BY <1>4 DEF At, ReadModelDue
  <2>3. QED
    BY <1>1, <1>4, <2>1, <2>2, QuietStep
<1>5. CASE InsertRow(r)
  <2>1. CASE CreateUserQuery(call[r].id, call[r].name)
               /\ Continue(r, "project", MapUserRowToDomain(
                                          NewRow(call[r].id, call[r].name)))
    <3>1. /\ call'[r].pc = "project"
          /\ call'[r].id = call[r].id
          /\ call'[r].user = MapUserRowToDomain(NewRow(call[r].id, call[r].name))
          /\ users' = [users EXCEPT ![call[r].id] =
                          NewRow(call[r].id, call[r].name)]
      BY <1>2, <2>1 DEF Continue, Proceed, CreateUserQuery, WriteRow
    <3>2. CASE call[r].id = id
      <4>1. call[r].name \in Names
        BY <1>2 DEF Call
      <4>2. NewRow(id, call[r].name) # NoRow
        BY <4>1, RowsAreTyped, StoreAssumption DEF TypeOK
      <4>3. Agrees(call'[r].user, users'[id])
        BY <1>3, <3>1, <3>2, <4>2 DEF Agrees, MapUserRowToDomain
      <4>4. QED
        BY <3>1, <3>2, <4>3, StatementStep DEF ReadModelDue
    <3>3. CASE call[r].id # id
      BY <1>4, <1>5, <3>1, <3>3 DEF InsertRow, HoldsCopy
    <3>4. QED
      BY <3>2, <3>3
  <2>2. CASE UNCHANGED storeVars /\ \E reply : Answer(r, reply, NoUser)
    <3>1. call'[r].pc = "rest"
      BY <1>2, <2>2 DEF Answer, Proceed
    <3>2. QED
      BY <1>4, <1>5, <2>2, <3>1 DEF InsertRow, HoldsCopy
  <2>3. QED
    BY <1>5, <2>1, <2>2 DEF InsertRow
<1>6. CASE ActivateRow(r)
  <2>1. /\ call'[r].pc = "project"
        /\ call'[r].id = call[r].id
        /\ call'[r].user = MapUserRowToDomain(ActiveRow(users[call[r].id]))
        /\ users' = [users EXCEPT ![call[r].id] = ActiveRow(users[call[r].id])]
    BY <1>2, <1>6
    DEF ActivateRow, Continue, Proceed, ActivateUserByID, WriteRow
  <2>2. CASE call[r].id = id
    <3>1. ActiveRow(users[id]) # NoRow
      <4>1. Names # {} /\ Stored(id)
        BY <1>6, <2>2 DEF Names, ActivateRow, ActivateUserByID
      <4>2. QED
        BY <4>1, RowsAreTyped, StoreAssumption DEF TypeOK
    <3>2. Agrees(call'[r].user, users'[id])
      BY <1>3, <2>1, <2>2, <3>1 DEF Agrees, MapUserRowToDomain
    <3>3. QED
      BY <2>1, <2>2, <3>2, StatementStep DEF ReadModelDue
  <2>3. CASE call[r].id # id
    BY <1>4, <1>6, <2>1, <2>3 DEF ActivateRow, HoldsCopy
  <2>4. QED
    BY <2>2, <2>3
<1>7. CASE DeactivateRow(r) \/ DeleteRow(r)
  <2>1. /\ call'[r].pc = "purge"
        /\ call'[r].id = call[r].id
        /\ \E row : users' = [users EXCEPT ![call[r].id] = row]
    BY <1>2, <1>7
    DEF DeactivateRow, DeleteRow, Continue, Proceed, DeactivateUserByID,
        DeleteUserByID, WriteRow
  <2>2. ~HoldsCopy(r, id)'
    BY <2>1 DEF HoldsCopy
  <2>3. CASE call[r].id = id
    BY <2>1, <2>2, <2>3, StatementStep DEF ReadModelDue
  <2>4. CASE call[r].id # id
    BY <1>4, <1>7, <2>1, <2>2, <2>4 DEF DeactivateRow, DeleteRow
  <2>5. QED
    BY <2>3, <2>4
<1>8. CASE NoRowMatches(r)
  <2>1. call'[r].pc = "rest"
    BY <1>2, <1>8 DEF NoRowMatches, Answer, Proceed
  <2>2. QED
    BY <1>4, <1>8, <2>1 DEF NoRowMatches, HoldsCopy
<1>9. CASE StoreFails(r)
  <2>1. call'[r].pc = "rest" /\ call'[r].reply = "error"
    BY <1>2, <1>9 DEF StoreFails, Answer, Proceed
  <2>2. call[r].id # id \/ UNCHANGED users
    BY <1>9, <2>1 DEF Abandons, StoreFails, At
  <2>3. \/ UNCHANGED users
        \/ \E row : users' = [users EXCEPT ![call[r].id] = row]
    BY <1>9
    DEF StoreFails, Effect, CreateUserQuery, ActivateUserByID,
        DeactivateUserByID, DeleteUserByID, WriteRow
  <2>4. QED
    BY <1>4, <1>9, <2>1, <2>2, <2>3 DEF StoreFails, HoldsCopy
<1>10. CASE Project(r)
  <2>1. call'[r].pc = "rest" /\ call[r].user \in User
    BY <1>2, <1>10 DEF Project, Answer, Proceed, At, WellFormed
  <2>2. ~HoldsCopy(r, id)'
    BY <2>1 DEF HoldsCopy
  <2>3. call[r].id \in UserIDs /\ call[r].op \in Commands
    BY <1>2, <1>10 DEF Project, At, WellFormed
  <2>4. HoldsCopy(r, call[r].id)
    BY <1>10, <2>3 DEF Project, At, HoldsCopy, Commands
  <2>5. call[r].user.user_id = call[r].id
    BY <2>3, <2>4 DEF CopiesKeyed
  <2>6. CASE call[r].id = id
    <3>1. Upsert(call[r].user)
      BY <1>2, <1>10, <2>6 DEF Project, Answer, Proceed, Abandons, At
    <3>2. Agrees(call[r].user, users[id])
      BY <2>4, <2>6 DEF Undisturbed
    <3>3. UNCHANGED users
      BY <1>10 DEF Project
    <3>4. Coherent(id)'
      <4>1. PICK u \in User : u = call[r].user
        BY <2>1
      <4>2. u.user_id = id
        BY <2>5, <2>6, <4>1
      <4>3. Coherent(u.user_id)'
        BY <3>1, <3>2, <3>3, <4>1, <4>2, UpsertedAgrees
      <4>4. QED
        BY <4>2, <4>3
    <3>5. QED
      BY <1>1, <2>2, <3>3, <3>4, CacheStep
  <2>7. CASE call[r].id # id
    <3>1. users'[id] = users[id] /\ preview'[id] = preview[id]
      BY <1>10, <2>5, <2>7 DEF Project, Upsert, TypeOK, CacheTypeOK
    <3>2. QED
      BY <1>1, <2>2, <2>7, <3>1, QuietStep DEF ReadModelDue
  <2>8. QED
    BY <2>6, <2>7
<1>11. CASE Purge(r)
  <2>1. call'[r].pc = "rest"
    BY <1>2, <1>11 DEF Purge, Answer, Proceed
  <2>2. ~HoldsCopy(r, id)'
    BY <2>1 DEF HoldsCopy
  <2>3. CASE call[r].id = id
    <3>1. DropPreview(id)
      BY <1>2, <1>11, <2>3 DEF Purge, Answer, Proceed, Abandons, At
    <3>2. Coherent(id)' /\ UNCHANGED users
      BY <1>11, <3>1
      DEF Purge, DropPreview, Coherent, PreviewHit, TypeOK, CacheTypeOK
    <3>3. QED
      BY <1>1, <2>2, <3>2, CacheStep
  <2>4. CASE call[r].id # id
    <3>1. users'[id] = users[id] /\ preview'[id] = preview[id]
      BY <1>11, <2>4 DEF Purge, DropPreview, TypeOK, CacheTypeOK
    <3>2. QED
      BY <1>1, <2>2, <2>4, <3>1, QuietStep DEF ReadModelDue
  <2>5. QED
    BY <2>3, <2>4
<1>12. QED
  BY <1>5, <1>6, <1>7, <1>8, <1>9, <1>10, <1>11 DEF CommandStep
\* A copy just taken from the table, or completed with its URL, agrees.
LEMMA ResolvedAgrees ==
    ASSUME NEW u, NEW v \in Resolve(u), NEW row, Agrees(u, row)
    PROVE  Agrees(v, row)
BY DEF Resolve, WithURL, Agrees

\* A query on its way through Redis, PostgreSQL and back to Redis.
LEMMA QueryStepCoherent ==
    ASSUME NEW id \in UserIDs, NEW r \in Requests, TypeOK, RowIsVersion,
           CopiesKeyed, Undisturbed(id), ~Overlapped(id)', QueryStep(r)
    PROVE  Undisturbed(id)'
<1>1. \A s \in Requests \ {r} : call'[s] = call[s]
  BY OthersStay
<1>2. WellFormed(call[r]) /\ call \in [Requests -> Call]
  BY DEF TypeOK, CallsOK
<1>3. ASSUME UNCHANGED <<users, preview>>,
             call[r].pc \notin {"project", "purge"}, ~HoldsCopy(r, id)'
      PROVE  Undisturbed(id)'
  BY <1>1, <1>3, QuietStep DEF ReadModelDue
<1>4. CASE LookupPreview(r)
  <2> DEFINE cached == MapCacheToDomainUser(preview[call[r].id])
  <2>1. UNCHANGED <<users, preview>> /\ call[r].pc = "lookup"
    BY <1>4 DEF LookupPreview, At
  <2>2. CASE call'[r].pc # "refresh"
    <3>1. call'[r].pc \in {"rest", "load"}
      BY <1>2, <1>4, <2>2 DEF LookupPreview, Answer, Continue, Proceed
    <3>2. QED
      BY <1>3, <2>1, <3>1 DEF HoldsCopy
  <2>3. CASE call'[r].pc = "refresh"
    <3>1. PICK u \in Resolve(cached) : Continue(r, "refresh", u)
      BY <1>2, <1>4, <2>3 DEF LookupPreview, Answer, Continue, Proceed
    <3>2. PreviewHit(call[r].id)
      BY <1>2, <1>4, <2>3 DEF LookupPreview, Answer, Continue, Proceed
    <3>3. /\ call'[r].user = u
          /\ call'[r].id = call[r].id
          /\ call'[r].op = "GetUserPreviewByID"
      BY <1>2, <1>4, <3>1 DEF LookupPreview, Continue, Proceed
    <3>4. CASE call[r].id = id
      <4>1. HoldsCopy(r, id)'
        BY <2>3, <3>3, <3>4 DEF HoldsCopy
      <4>2. ~ReadModelDue(r, id)
        BY <2>1 DEF ReadModelDue
      <4>3. \A s \in Requests \ {r} : ~ReadModelDue(s, id)
        <5>1. SUFFICES ASSUME NEW s \in Requests \ {r}, ReadModelDue(s, id)
                       PROVE  FALSE
          OBVIOUS
        <5>2. ReadModelDue(s, id)'
          BY <1>1, <5>1 DEF ReadModelDue
        <5>3. QED
          BY <4>1, <5>2 DEF Overlapped
      <4>4. Coherent(id)
        BY <4>2, <4>3 DEF Undisturbed
      <4>5. Agrees(cached, users[id])
        BY <3>2, <3>4, <4>4 DEF Coherent, Agrees, MapCacheToDomainUser
      <4>6. Agrees(call'[r].user, users[id])
        BY <3>1, <3>3, <4>5, ResolvedAgrees
      <4>7. QED
        BY <1>1, <2>1, <4>2, <4>6, QuietStep
    <3>5. CASE call[r].id # id
      BY <1>3, <2>1, <3>3, <3>5 DEF HoldsCopy
    <3>6. QED
      BY <3>4, <3>5
  <2>4. QED
    BY <2>2, <2>3
<1>5. CASE LoadUserPreview(r)
  <2>1. UNCHANGED <<users, preview>> /\ call[r].pc = "load"
    BY <1>5 DEF LoadUserPreview, At
  <2>2. CASE \E reply, u : Answer(r, reply, u)
    <3>1. call'[r].pc = "rest"
      BY <1>2, <2>2 DEF Answer, Proceed
    <3>2. QED
      BY <1>3, <2>1, <3>1 DEF HoldsCopy
  <2>3. CASE /\ Stored(call[r].id)
             /\ \E u \in Resolve(MapUserRowToDomain(users[call[r].id])) :
                   Continue(r, "fill", u)
    <3>1. PICK u \in Resolve(MapUserRowToDomain(users[call[r].id])) :
            Continue(r, "fill", u)
      BY <2>3
    <3>2. Stored(call[r].id)
      BY <2>3
    <3>3. call'[r].user = u /\ call'[r].id = call[r].id
      BY <1>2, <3>1 DEF Continue, Proceed
    <3>4. CASE call[r].id = id
      <4>1. Agrees(MapUserRowToDomain(users[id]), users[id])
        BY <3>2, <3>4 DEF Agrees, MapUserRowToDomain, Stored
      <4>2. Agrees(call'[r].user, users[id])
        BY <3>1, <3>3, <3>4, <4>1, ResolvedAgrees
      <4>3. QED
        BY <1>1, <2>1, <4>2, QuietStep DEF ReadModelDue
    <3>5. CASE call[r].id # id
      BY <1>3, <2>1, <3>3, <3>5 DEF HoldsCopy
    <3>6. QED
      BY <3>4, <3>5
  <2>4. QED
    BY <1>5, <2>2, <2>3 DEF LoadUserPreview
<1>6. CASE Refresh(r) \/ FillPreview(r)
  <2>1. /\ call'[r].pc = "rest"
        /\ call[r].pc \in {"refresh", "fill"}
        /\ call[r].op = "GetUserPreviewByID"
        /\ call[r].id \in UserIDs
        /\ call[r].user \in User
        /\ UNCHANGED users
        /\ Upsert(call[r].user) \/ UNCHANGED preview
    BY <1>2, <1>6
    DEF Refresh, FillPreview, Answer, Proceed, At, WellFormed
  <2>2. ~HoldsCopy(r, id)'
    BY <2>1 DEF HoldsCopy
  <2>3. HoldsCopy(r, call[r].id)
    BY <2>1 DEF HoldsCopy
  <2>4. call[r].user.user_id = call[r].id
    BY <2>1, <2>3 DEF CopiesKeyed
  <2>5. CASE UNCHANGED preview
    BY <1>3, <2>1, <2>2, <2>5
  <2>6. CASE Upsert(call[r].user) /\ call[r].id = id
    <3>1. PICK u \in User : u = call[r].user
      BY <2>1
    <3>2. u.user_id = id
      BY <2>4, <2>6, <3>1
    <3>3. Agrees(u, users[id])
      BY <2>3, <2>6, <3>1 DEF Undisturbed
    <3>4. Coherent(u.user_id)'
      BY <2>1, <2>6, <3>1, <3>2, <3>3, UpsertedAgrees
    <3>5. QED
      BY <1>1, <2>1, <2>2, <3>2, <3>4, CacheStep
  <2>7. CASE Upsert(call[r].user) /\ call[r].id # id
    <3>1. users'[id] = users[id] /\ preview'[id] = preview[id]
      BY <2>1, <2>4, <2>7 DEF Upsert, TypeOK, CacheTypeOK
    <3>2. QED
      BY <1>1, <2>1, <2>2, <3>1, QuietStep DEF ReadModelDue
  <2>8. QED
    BY <2>1, <2>5, <2>6, <2>7
<1>7. CASE \/ LookupDetailed(r) \/ LoadDetailed(r) \/ FillDetailed(r)
           \/ PublishDetailedUserRequested(r) \/ ExistsByUsername(r)
  <2>1. UNCHANGED <<users, preview>>
    BY <1>7
    DEF LookupDetailed, LoadDetailed, FillDetailed,
        PublishDetailedUserRequested, ExistsByUsername, UpsertByUsername
  <2>2. call[r].pc \in {"lookup", "load", "fill", "publish", "query"}
    BY <1>7
    DEF LookupDetailed, LoadDetailed, FillDetailed,
        PublishDetailedUserRequested, ExistsByUsername, At
  <2>3. call'[r].op = call[r].op
    <3>1. \E pc, reply, u : Proceed(r, pc, reply, u)
      BY <1>7
      DEF LookupDetailed, LoadDetailed, FillDetailed, Answer, Continue,
          PublishDetailedUserRequested, ExistsByUsername
    <3>2. QED
      BY <1>2, <3>1 DEF Proceed
  <2>4. CASE call[r].op = "GetDetailedUserByUsername"
    BY <1>3, <2>1, <2>2, <2>3, <2>4 DEF HoldsCopy
  <2>5. CASE PublishDetailedUserRequested(r) \/ ExistsByUsername(r)
    <3>1. call'[r].pc = "rest"
      BY <1>2, <2>5
      DEF PublishDetailedUserRequested, ExistsByUsername, Answer, Proceed
    <3>2. QED
      BY <1>3, <2>1, <2>2, <3>1 DEF HoldsCopy
  <2>6. QED
    BY <1>7, <2>4, <2>5 DEF LookupDetailed, LoadDetailed, FillDetailed
<1>8. QED
  BY <1>4, <1>5, <1>6, <1>7 DEF QueryStep

LEMMA DieCoherent ==
    ASSUME NEW id \in UserIDs, NEW r \in Requests, TypeOK, Undisturbed(id),
           ~Overlapped(id)', ~Abandons(r, id), Die(r)
    PROVE  Undisturbed(id)'
<1>1. /\ call'[r].pc = "rest"
      /\ call'[r].reply = "died"
      /\ UNCHANGED <<users, preview>>
  BY DEF Die, Answer, Proceed, TypeOK, CallsOK
<1>2. ~ReadModelDue(r, id)
  BY <1>1 DEF Abandons, ReadModelDue
<1>3. ~HoldsCopy(r, id)'
  BY <1>1 DEF HoldsCopy
<1>4. QED
  BY <1>1, <1>2, <1>3, OthersStay, QuietStep
\* Copies stay under the id of their call.
LEMMA CopiesStayKeyed ==
    ASSUME TypeOK, RowIsVersion, PreviewDerived, CopiesKeyed, NEW r \in Requests,
           Calls(r) \/ CommandStep(r) \/ QueryStep(r) \/ Die(r)
    PROVE  CopiesKeyed'
<1>1. \A s \in Requests \ {r} : call'[s] = call[s]
  BY OthersStay
<1>2. WellFormed(call[r]) /\ call \in [Requests -> Call]
  BY DEF TypeOK, CallsOK
<1>3. ASSUME \A id \in UserIDs :
               HoldsCopy(r, id)' => call'[r].user.user_id = id
      PROVE  CopiesKeyed'
  BY <1>1, <1>3 DEF CopiesKeyed, HoldsCopy
<1>4. ASSUME call'[r].pc \notin {"project", "refresh", "fill"}
      PROVE  CopiesKeyed'
  BY <1>3, <1>4 DEF HoldsCopy
<1>5. ASSUME NEW pc, NEW u, Continue(r, pc, u), u.user_id = call[r].id
      PROVE  CopiesKeyed'
  <2>1. call'[r].id = call[r].id /\ call'[r].user = u
    BY <1>2, <1>5 DEF Continue, Proceed
  <2>2. QED
    BY <1>3, <1>5, <2>1 DEF HoldsCopy
<1>6. ASSUME NEW pc, NEW reply, NEW u, Proceed(r, pc, reply, u),
             pc \notin {"project", "refresh", "fill"}
      PROVE  CopiesKeyed'
  BY <1>2, <1>4, <1>6 DEF Proceed
<1>7. CASE Calls(r)
  BY <1>2, <1>4, <1>7
  DEF Calls, BeginCommand, StartCommand, BeginPreviewQuery, BeginNameQuery, Begin, Refuse
<1>8. CASE CommandStep(r)
  <2>1. CASE InsertRow(r)
    BY <1>5, <1>6, <2>1
    DEF InsertRow, MapUserRowToDomain, NewRow, Answer
  <2>2. CASE ActivateRow(r)
    <3>1. Stored(call[r].id) /\ call[r].id \in UserIDs
      BY <1>2, <2>2 DEF ActivateRow, ActivateUserByID, At, WellFormed
    <3>2. MapUserRowToDomain(ActiveRow(users[call[r].id])).user_id = call[r].id
      BY <3>1 DEF RowIsVersion, MapUserRowToDomain, ActiveRow, Settled
    <3>3. QED
      BY <1>5, <2>2, <3>2 DEF ActivateRow
  <2>3. CASE DeactivateRow(r) \/ DeleteRow(r)
    BY <1>6, <2>3 DEF DeactivateRow, DeleteRow, Continue
  <2>4. CASE NoRowMatches(r) \/ StoreFails(r)
    BY <1>6, <2>4 DEF NoRowMatches, StoreFails, Answer
  <2>5. CASE Project(r) \/ Purge(r)
    BY <1>6, <2>5 DEF Project, Purge, Answer
  <2>6. QED
    BY <1>8, <2>1, <2>2, <2>3, <2>4, <2>5 DEF CommandStep
<1>9. CASE QueryStep(r)
  <2>1. CASE LookupPreview(r)
    <3>1. call[r].id \in UserIDs
      BY <1>2, <2>1 DEF LookupPreview, At, WellFormed, PreviewQueries
    <3>2. ASSUME PreviewHit(call[r].id),
                 NEW u \in Resolve(MapCacheToDomainUser(preview[call[r].id]))
          PROVE  u.user_id = call[r].id
      BY <3>1, <3>2
      DEF PreviewDerived, MapCacheToDomainUser, Resolve, WithURL
    <3>3. QED
      BY <1>5, <1>6, <2>1, <3>2 DEF LookupPreview, Answer, Continue
  <2>2. CASE LoadUserPreview(r)
    <3>1. call[r].id \in UserIDs
      BY <1>2, <2>2 DEF LoadUserPreview, At, WellFormed, PreviewQueries
    <3>2. ASSUME Stored(call[r].id),
                 NEW u \in Resolve(MapUserRowToDomain(users[call[r].id]))
          PROVE  u.user_id = call[r].id
      BY <3>1, <3>2
      DEF RowIsVersion, MapUserRowToDomain, Resolve, WithURL
    <3>3. QED
      BY <1>5, <1>6, <2>2, <3>2 DEF LoadUserPreview, Answer
  <2>3. CASE LoadDetailed(r)
    <3>1. call'[r].op = "GetDetailedUserByUsername"
      <4>1. \E pc, reply, u : Proceed(r, pc, reply, u)
        BY <2>3 DEF LoadDetailed, Answer, Continue
      <4>2. call[r].op = "GetDetailedUserByUsername"
        BY <2>3 DEF LoadDetailed
      <4>3. QED
        BY <1>2, <4>1, <4>2 DEF Proceed
    <3>2. QED
      BY <1>3, <3>1 DEF HoldsCopy
  <2>4. QED
    BY <1>6, <1>9, <2>1, <2>2, <2>3
    DEF QueryStep, Refresh, FillPreview, LookupDetailed, FillDetailed,
        PublishDetailedUserRequested, ExistsByUsername, Answer, Continue
<1>10. CASE Die(r)
  BY <1>6, <1>10 DEF Die, Answer
<1>11. QED
  BY <1>7, <1>8, <1>9, <1>10
-----------------------------------------------------------------------------

LEMMA NextCoherent ==
    ASSUME TypeOK, RowIsVersion, PreviewDerived, CopiesKeyed, CoherenceInv,
           [HistoryNext]_historyVars
    PROVE  CopiesKeyed' /\ CoherenceInv'
<1>1. CASE HistoryNext
  <2>1. PICK r \in Requests :
          Calls(r) \/ CommandStep(r) \/ QueryStep(r) \/ Die(r)
    BY <1>1 DEF HistoryNext, Next
  <2>2. ASSUME NEW id \in UserIDs \ disturbed'
        PROVE  Undisturbed(id)'
    <3>1. /\ id \notin disturbed
          /\ ~Overlapped(id)'
          /\ ~Abandons(r, id)
      BY <1>1 DEF HistoryNext, Disturbing
    <3>2. Undisturbed(id)
      BY <3>1 DEF CoherenceInv
    <3>3. QED
      BY <2>1, <3>1, <3>2, CallsCoherent, CommandStepCoherent,
         QueryStepCoherent, DieCoherent
  <2>3. QED
    BY <2>1, <2>2, CopiesStayKeyed DEF CoherenceInv
<1>2. CASE UNCHANGED historyVars
  <2>1. UNCHANGED <<users, preview, call, disturbed>>
    BY <1>2 DEF historyVars, vars
  <2>2. CopiesKeyed'
    BY <2>1 DEF CopiesKeyed, HoldsCopy
  <2>3. CoherenceInv'
    BY <2>1
    DEF CoherenceInv, Undisturbed, HoldsCopy, Overlapped, ReadModelDue,
        Coherent, PreviewHit, Agrees
  <2>4. QED
    BY <2>2, <2>3
<1>3. QED
  BY <1>1, <1>2

\* The history variable observes and does not interfere: what the service does
\* with it, it does without it, so that every theorem about it holds here too.
THEOREM HistoryIsService == HistorySpec => Spec
<1>1. HistoryInit => Init
  BY DEF HistoryInit
<1>2. [HistoryNext]_historyVars => [Next]_vars
  BY DEF HistoryNext, historyVars
<1>3. QED
  BY <1>1, <1>2, PTL DEF HistorySpec, Spec

\* A preview is stale only while the command that changed the row is still on
\* its way to Redis, or for a user whose command overlapped a copy, failed
\* after its statement or died: for every number of users and calls.
THEOREM OnlyDisturbedAreStale ==
    HistorySpec => [](StaleOnlyIfDisturbed /\ CopiesAgree)
<1>1. HistorySpec => Spec
  BY HistoryIsService
<1>2. HistorySpec => []TypeOK /\ []ReadModelDerived /\ []RowIsVersion
  <2>1. Init => RowIsVersion
    BY StoreAssumption DEF Init, StoreInit, RowIsVersion, Stored, Versions
  <2>2. TypeOK /\ RowIsVersion /\ [Next]_vars => RowIsVersion'
    BY OnlyStatements, RowStaysVersion DEF TypeOK
  <2>3. QED
    BY <1>1, <2>1, <2>2, TypeCorrect, ReadModelIsDerived, PTL DEF Spec
<1>3. HistoryInit => CopiesKeyed /\ CoherenceInv
  BY DEF HistoryInit, Init, CacheInit, Idle, CopiesKeyed, CoherenceInv,
         Undisturbed, HoldsCopy, Overlapped, ReadModelDue, Coherent, PreviewHit
<1>4. /\ TypeOK /\ RowIsVersion /\ ReadModelDerived
      /\ CopiesKeyed /\ CoherenceInv
      /\ [HistoryNext]_historyVars
      => CopiesKeyed' /\ CoherenceInv'
  BY NextCoherent DEF ReadModelDerived
<1>5. CoherenceInv => StaleOnlyIfDisturbed /\ CopiesAgree
  BY DEF CoherenceInv, StaleOnlyIfDisturbed, CopiesAgree, Undisturbed
<1>6. QED
  BY <1>2, <1>3, <1>4, <1>5, PTL DEF HistorySpec

\* Every copy of an undisturbed user that is on its way to Redis agrees with the row,
\* for every number of users and calls (service.go 79-214).
THEOREM CopiesAreOfOneVersion == HistorySpec => []CopiesAgree
BY OnlyDisturbedAreStale, PTL
=============================================================================
