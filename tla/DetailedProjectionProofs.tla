----------------------- MODULE DetailedProjectionProofs -----------------------
(***************************************************************************)
(* The theorems about DetailedProjection: for every set of users, names,   *)
(* calls and faults, events of any age write to Redis only what was true of*)
(* their user, and are about entries Redis has.                            *)
(***************************************************************************)
EXTENDS DetailedProjection, UserServiceProofs

USE DEF storeVars, cacheVars

\* A detailed query works on a trimmed name, on a user of that name, and
\* publishes after it has written the entry.
NamedCall(c) ==
    c.op = "GetDetailedUserByUsername" /\ c.pc # "rest" =>
        /\ Trimmed[c.name] = c.name
        /\ c.pc \in {"fill", "publish"} => c.user.username = c.name
        /\ c.pc = "publish" => DetailedHit(c.name)

Warm(e) ==
    /\ e.username \in Names
    /\ Trimmed[e.username] = e.username
    /\ DetailedHit(e.username)

PInv ==
    /\ TypeOK
    /\ projected \subseteq Event
    /\ RowIsVersion
    /\ ProjectionDerived
    /\ \A r \in Requests : NamedCall(call[r])
    /\ \A u \in requested : Warm(u)
    /\ \A e \in projected : Warm(e)

-----------------------------------------------------------------------------
\* The service.

\* No step makes Redis forget a detailed entry.
LEMMA EntriesStay ==
    ASSUME TypeOK, [Next]_vars, NEW name \in Names, DetailedHit(name)
    PROVE  DetailedHit(name)'
<1>1. ASSUME NEW u \in User, UpsertByUsername(u)
      PROVE  DetailedHit(name)'
  <2>1. /\ MapDomainUserToDetailedCache(u) \in UserDetailedCache
        /\ u.username \in Names
    BY MappersAreTyped DEF User
  <2> QED
    BY <1>1, <2>1, CacheAssumption DEF UpsertByUsername, DetailedHit, TypeOK, CacheTypeOK
<1>2. ASSUME UNCHANGED detailed
      PROVE  DetailedHit(name)'
  BY <1>2 DEF DetailedHit
<1>3. ASSUME NEW r \in Requests, Calls(r) \/ CommandStep(r) \/ Die(r)
      PROVE  UNCHANGED detailed
  <2>1. Calls(r) => UNCHANGED detailed
    BY DEF Calls, BeginCommand, StartCommand, BeginPreviewQuery, BeginNameQuery, Begin,
           Refuse
  <2>2. CommandStep(r) => UNCHANGED detailed
    BY DEF CommandStep, InsertRow, ActivateRow, DeactivateRow, DeleteRow,
           NoRowMatches, StoreFails, Project, Purge, Upsert, DropPreview
  <2> QED
    BY <1>3, <2>1, <2>2 DEF Die
<1>4. ASSUME NEW r \in Requests, QueryStep(r)
      PROVE  UNCHANGED detailed \/ \E u \in User : UpsertByUsername(u)
  <2>1. FillDetailed(r) => UNCHANGED detailed \/ \E u \in User : UpsertByUsername(u)
    <3>1. FillDetailed(r) => call[r].user \in User
      BY DEF TypeOK, CallsOK, WellFormed, FillDetailed, At
    <3> QED
      BY <3>1 DEF FillDetailed
  <2> QED
    BY <1>4, <2>1
    DEF QueryStep, LookupPreview, Refresh, LoadUserPreview, FillPreview,
        LookupDetailed, LoadDetailed, PublishDetailedUserRequested,
        ExistsByUsername, Upsert
<1> QED
  BY <1>1, <1>2, <1>3, <1>4 DEF Next, vars

\* The call of r is replaced by one that is named; the others stay so.
LEMMA NamedStep ==
    ASSUME TypeOK, [Next]_vars, NEW r \in Requests, NEW c,
           \A q \in Requests : NamedCall(call[q]),
           call' = [call EXCEPT ![r] = c], NamedCall(c)'
    PROVE  \A q \in Requests : NamedCall(call[q])'
<1>1. /\ call'[r] = c
      /\ \A q \in Requests \ {r} : call'[q] = call[q]
  BY DEF TypeOK, CallsOK
<1>2. ASSUME NEW q \in Requests \ {r}
      PROVE  NamedCall(call[q])'
  <2>1. call[q].name \in Names
    BY DEF TypeOK, CallsOK, Call
  <2>2. NamedCall(call[q])
    OBVIOUS
  <2> QED
    BY <1>1, <2>1, <2>2, EntriesStay DEF NamedCall
<1> QED
  BY <1>1, <1>2 DEF NamedCall

\* A call that proceeds is named if what it takes on is.
LEMMA ProceedNamed ==
    ASSUME TypeOK, [Next]_vars, NEW r \in Requests, NEW pc, NEW reply, NEW user,
           \A q \in Requests : NamedCall(call[q]),
           Proceed(r, pc, reply, user),
           call[r].pc # "rest",
           call[r].op = "GetDetailedUserByUsername" =>
               /\ pc \in {"fill", "publish"} => user.username = call[r].name
               /\ pc = "publish" => detailed'[call[r].name] # NoEntry
    PROVE  \A q \in Requests : NamedCall(call[q])'
<1> DEFINE c == [op |-> call[r].op, pc |-> pc, id |-> call[r].id,
                 name |-> call[r].name, user |-> user, reply |-> reply]
<1>1. call' = [call EXCEPT ![r] = c]
  BY DEF Proceed
<1>2. NamedCall(call[r])
  OBVIOUS
<1>3. PICK d : d = c
  OBVIOUS
<1>4. /\ d.op = call[r].op /\ d.pc = pc /\ d.name = call[r].name /\ d.user = user
  BY <1>3
<1>5. NamedCall(d)'
  BY <1>2, <1>4 DEF NamedCall, DetailedHit
<1> QED
  BY <1>1, <1>3, <1>5, NamedStep

LEMMA NextNamed ==
    ASSUME TypeOK, [Next]_vars, \A q \in Requests : NamedCall(call[q])
    PROVE  \A q \in Requests : NamedCall(call[q])'
<1>1. ASSUME UNCHANGED vars
      PROVE  \A q \in Requests : NamedCall(call[q])'
  BY <1>1 DEF vars, NamedCall, DetailedHit
<1>2. ASSUME NEW r \in Requests, Calls(r)
      PROVE  \A q \in Requests : NamedCall(call[q])'
  <2>1. PICK op, pc, id, name, reply :
          /\ call' = [call EXCEPT ![r] = [op |-> op, pc |-> pc, id |-> id, name |-> name,
                                          user |-> NoUser, reply |-> reply]]
          /\ pc \in {"rest", "store", "lookup", "load", "query"}
          /\ op = "GetDetailedUserByUsername" /\ pc # "rest" => Trimmed[name] = name
    BY <1>2, ServiceAssumption
    DEF Calls, BeginCommand, StartCommand, BeginPreviewQuery, BeginNameQuery, Begin, Refuse,
        Commands, PreviewQueries
  <2>2. PICK c : c = [op |-> op, pc |-> pc, id |-> id, name |-> name,
                      user |-> NoUser, reply |-> reply]
    OBVIOUS
  <2>3. NamedCall(c)'
    BY <2>1, <2>2 DEF NamedCall
  <2> QED
    BY <2>1, <2>2, <2>3, NamedStep
<1>3. ASSUME NEW r \in Requests, CommandStep(r)
      PROVE  \A q \in Requests : NamedCall(call[q])'
  <2>1. call[r].op # "GetDetailedUserByUsername" /\ call[r].pc # "rest"
    BY <1>3
    DEF TypeOK, CallsOK, WellFormed, Commands, CommandStep, InsertRow, ActivateRow,
        DeactivateRow, DeleteRow, NoRowMatches, StoreFails, Project, Purge, At
  <2>2. PICK pc, reply, user : Proceed(r, pc, reply, user)
    BY <1>3
    DEF CommandStep, InsertRow, ActivateRow, DeactivateRow, DeleteRow, NoRowMatches,
        StoreFails, Project, Purge, Continue, Answer
  <2> QED
    BY <2>1, <2>2, ProceedNamed
<1>4. ASSUME NEW r \in Requests, Die(r)
      PROVE  \A q \in Requests : NamedCall(call[q])'
  BY <1>4, ProceedNamed DEF Die, Answer, At
<1>5. ASSUME NEW r \in Requests, QueryStep(r)
      PROVE  \A q \in Requests : NamedCall(call[q])'
  <2>1. PICK pc, reply, user :
          /\ Proceed(r, pc, reply, user)
          /\ call[r].pc # "rest"
          /\ call[r].op = "GetDetailedUserByUsername" =>
                /\ pc \in {"fill", "publish"} => user.username = call[r].name
                /\ pc = "publish" => detailed'[call[r].name] # NoEntry
    <3>0. NamedCall(call[r]) /\ call[r] \in Call /\ WellFormed(call[r])
      BY DEF TypeOK, CallsOK
    <3>1. CASE LookupPreview(r) \/ Refresh(r) \/ FillPreview(r) \/ LookupDetailed(r)
               \/ PublishDetailedUserRequested(r) \/ ExistsByUsername(r)
      BY <3>1
      DEF LookupPreview, Refresh, FillPreview, LookupDetailed,
          PublishDetailedUserRequested, ExistsByUsername, Continue, Answer, At
    <3>2. CASE LoadUserPreview(r)
      BY <3>2 DEF LoadUserPreview, Continue, Answer, At, PreviewQueries
    <3>3. CASE LoadDetailed(r)
      <4>0. call[r].pc # "rest"
        BY <3>3 DEF LoadDetailed, At
      <4>1. CASE \E id \in UserIDs :
                    /\ Owns(id, call[r].name)
                    /\ \E u \in Resolve(MapUserRowToDomain(users[id])) :
                          Continue(r, "fill", u)
        <5>0. PICK id \in UserIDs :
                /\ Owns(id, call[r].name)
                /\ \E u \in Resolve(MapUserRowToDomain(users[id])) : Continue(r, "fill", u)
          BY <4>1
        <5>1. PICK u \in Resolve(MapUserRowToDomain(users[id])) : Continue(r, "fill", u)
          BY <5>0
        <5>2. users[id] \in UserRow /\ users[id].username = call[r].name
          BY <5>0 DEF Owns, Stored, TypeOK, StoreTypeOK
        <5>3. u.username = call[r].name
          BY <5>2, MappersAreTyped, ResolvedIsTyped DEF MapUserRowToDomain
        <5> QED
          BY <4>0, <5>1, <5>3 DEF Continue
      <4>2. CASE \E reply : Answer(r, reply, NoUser)
        BY <4>0, <4>2 DEF Answer
      <4> QED
        BY <3>3, <4>1, <4>2 DEF LoadDetailed
    <3>4. CASE FillDetailed(r)
      <4>1. /\ call[r].user \in User
            /\ call[r].user.username = call[r].name
            /\ call[r].name \in Names
            /\ call[r].pc = "fill"
        BY <3>0, <3>4 DEF FillDetailed, At, NamedCall, WellFormed, Call
      <4>2. MapDomainUserToDetailedCache(call[r].user) # NoEntry
        BY <4>1, MappersAreTyped, CacheAssumption
      <4>3. UpsertByUsername(call[r].user) => detailed'[call[r].name] # NoEntry
        BY <4>1, <4>2 DEF UpsertByUsername, TypeOK, CacheTypeOK
      <4> QED
        BY <3>4, <4>1, <4>3 DEF FillDetailed, Continue, Answer
    <3> QED
      BY <1>5, <3>1, <3>2, <3>3, <3>4 DEF QueryStep
  <2> QED
    BY <2>1, ProceedNamed
<1> QED
  BY <1>1, <1>2, <1>3, <1>4, <1>5 DEF Next

LEMMA RequestedGrow ==
    ASSUME TypeOK, [Next]_vars
    PROVE  \/ requested' = requested
           \/ \E r \in Requests :
                 /\ call[r].op = "GetDetailedUserByUsername"
                 /\ call[r].pc = "publish"
                 /\ requested' = requested \cup {call[r].user}
<1>1. ASSUME NEW r \in Requests, Calls(r) \/ CommandStep(r) \/ Die(r)
      PROVE  requested' = requested
  <2>1. Calls(r) => requested' = requested
    BY DEF Calls, BeginCommand, StartCommand, BeginPreviewQuery, BeginNameQuery, Begin,
           Refuse
  <2>2. CommandStep(r) => requested' = requested
    BY DEF CommandStep, InsertRow, ActivateRow, DeactivateRow, DeleteRow,
           NoRowMatches, StoreFails, Project, Purge
  <2> QED
    BY <1>1, <2>1, <2>2 DEF Die
<1>2. ASSUME NEW r \in Requests, QueryStep(r), requested' # requested
      PROVE  /\ call[r].op = "GetDetailedUserByUsername"
             /\ call[r].pc = "publish"
             /\ requested' = requested \cup {call[r].user}
  <2>1. PublishDetailedUserRequested(r)
    BY <1>2
    DEF QueryStep, LookupPreview, Refresh, LoadUserPreview, FillPreview, LookupDetailed,
        LoadDetailed, FillDetailed, ExistsByUsername
  <2> QED
    BY <1>2, <2>1 DEF PublishDetailedUserRequested, At, TypeOK, CallsOK, WellFormed
<1> QED
  BY <1>1, <1>2 DEF Next, vars

LEMMA ServiceKeeps ==
    ASSUME PInv, [Next]_vars, UNCHANGED projected
    PROVE  PInv'
<1> USE DEF PInv
<1>1. TypeOK' /\ (StoreNext \/ UNCHANGED storeVars)
  BY NextTyped, OnlyStatements
<1>2. RowIsVersion' /\ ReadModelDerived'
  BY <1>1, RowStaysVersion, NextDerived DEF ProjectionDerived, TypeOK
<1>3. \A e \in projected : ShowsIdentity(e)'
  BY <1>1, ShownStaysShown DEF ProjectionDerived, TypeOK, Event
<1>4. \A r \in Requests : NamedCall(call[r])'
  BY NextNamed
<1>5. ASSUME NEW e, Warm(e)
      PROVE  Warm(e)'
  BY <1>5, EntriesStay DEF Warm
<1>6. ASSUME NEW u \in requested'
      PROVE  Warm(u)'
  <2>1. CASE u \in requested
    BY <1>5, <2>1
  <2>2. CASE \E r \in Requests : /\ call[r].op = "GetDetailedUserByUsername"
                                /\ call[r].pc = "publish"
                                /\ u = call[r].user
    <3>1. PICK r \in Requests : /\ call[r].op = "GetDetailedUserByUsername"
                                /\ call[r].pc = "publish"
                                /\ u = call[r].user
      BY <2>2
    <3>2. NamedCall(call[r]) /\ call[r].name \in Names
      BY DEF TypeOK, CallsOK, Call
    <3>3. Warm(u)
      BY <3>1, <3>2 DEF NamedCall, Warm
    <3> QED
      BY <1>5, <3>3
  <2> QED
    BY <1>6, <2>1, <2>2, RequestedGrow
<1> QED
  BY <1>1, <1>2, <1>3, <1>4, <1>5, <1>6 DEF ProjectionDerived

-----------------------------------------------------------------------------
\* The relay and the subscriber.

\* A request is about a trimmed name, so that its event says what it says.
LEMMA EventShows ==
    ASSUME NEW u \in User, ShowsVersion(u), Warm(u)
    PROVE  /\ EventOf(u) \in Event
           /\ ShowsIdentity(EventOf(u))
           /\ Warm(EventOf(u))
<1>1. /\ EventOf(u).user_id = u.user_id
      /\ EventOf(u).username = u.username
      /\ EventOf(u).avatar_id = u.avatar_id
      /\ EventOf(u).avatar_url = u.avatar_url
  BY DEF EventOf, Warm
<1>2. EventOf(u) \in Event
  BY <1>1 DEF EventOf, Event, User
<1> QED
  BY <1>1, <1>2 DEF Warm, ShowsVersion, ShowsIdentity, IdentityOf

LEMMA RelayKeeps ==
    ASSUME PInv, NEW u \in requested, Relay(u) \/ RelayGivesUp(u)
    PROVE  PInv'
<1> USE DEF PInv
<1>1. /\ UNCHANGED <<storeVars, cacheVars, call>>
      /\ requested' \subseteq requested
      /\ projected' \in {projected, projected \cup {EventOf(u)}}
  BY DEF Relay, RelayGivesUp
<1>2. u \in User /\ ShowsVersion(u) /\ Warm(u)
  BY DEF TypeOK, ProjectionDerived, ReadModelDerived
<1>3. PICK e : e = EventOf(u) /\ e \in Event /\ ShowsIdentity(e) /\ Warm(e)
  BY <1>2, EventShows
<1>4. TypeOK' /\ RowIsVersion'
  <2>1. StoreTypeOK' /\ CacheTypeOK' /\ CallsOK' /\ requested' \in SUBSET User
    BY <1>1 DEF TypeOK, StoreTypeOK, CacheTypeOK, CallsOK
  <2>2. RowIsVersion'
    BY <1>1 DEF RowIsVersion, Stored, Versions
  <2> QED
    BY <2>1, <2>2 DEF TypeOK
<1>5. ReadModelDerived'
  BY <1>1
  DEF ProjectionDerived, ReadModelDerived, PreviewDerived, DetailedDerived, PreviewHit,
      DetailedHit, CallDerived, ShowsVersion, ShowsIdentity, Versions
<1>6. \A x \in projected' : x \in Event /\ ShowsIdentity(x)' /\ Warm(x)'
  <2>1. \A x \in projected' : x \in Event /\ ShowsIdentity(x) /\ Warm(x)
    BY <1>1, <1>3 DEF ProjectionDerived
  <2> QED
    BY <1>1, <2>1 DEF ShowsIdentity, Versions, Warm, DetailedHit
<1>7. \A x \in requested' : Warm(x)'
  BY <1>1 DEF Warm, DetailedHit
<1>8. \A r \in Requests : NamedCall(call[r])'
  BY <1>1 DEF NamedCall, DetailedHit
<1> QED
  BY <1>4, <1>5, <1>6, <1>7, <1>8 DEF ProjectionDerived

LEMMA ApplyKeeps ==
    ASSUME PInv, NEW e \in projected, Apply(e) \/ ApplyGivesUp(e)
    PROVE  PInv'
<1> USE DEF PInv
<1> DEFINE w == MapDomainUserToDetailedCache(UserOf(e))
<1>1. /\ UNCHANGED <<storeVars, preview, call, requested>>
      /\ projected' \subseteq projected
      /\ \/ UNCHANGED detailed
         \/ detailed' = [detailed EXCEPT ![e.username] = w]
  <2>1. UserOf(e).username = e.username
    BY DEF UserOf
  <2> QED
    BY <2>1 DEF Apply, ApplyGivesUp, UpsertByUsername, vars
<1>2. /\ e \in Event /\ ShowsIdentity(e) /\ e.username \in Names
      /\ w.user_id = e.user_id /\ w.username = e.username
      /\ w.avatar_id = e.avatar_id /\ w.avatar_url = e.avatar_url
      /\ w \in UserDetailedCache
  BY DEF ProjectionDerived, Event, UserOf, MapDomainUserToDetailedCache, UserDetailedCache
<1>3. w # NoEntry
  BY <1>2, CacheAssumption
<1>4. ShowsIdentity(w)
  BY <1>2 DEF ShowsIdentity, IdentityOf
<1>5. PICK d : d = w
  OBVIOUS
<1> HIDE DEF w
<1>6. \A name \in Names :
         \/ detailed'[name] = detailed[name]
         \/ name = e.username /\ detailed'[name] = d
  BY <1>1, <1>2, <1>5 DEF TypeOK, CacheTypeOK
<1>7. TypeOK' /\ RowIsVersion'
  <2>1. StoreTypeOK' /\ CallsOK' /\ requested' \in SUBSET User
    BY <1>1 DEF TypeOK, StoreTypeOK, CallsOK
  <2>2. CacheTypeOK'
    BY <1>1, <1>2 DEF TypeOK, CacheTypeOK
  <2>3. RowIsVersion'
    BY <1>1 DEF RowIsVersion, Stored, Versions
  <2> QED
    BY <2>1, <2>2, <2>3 DEF TypeOK
<1>8. \A x : (ShowsIdentity(x) <=> ShowsIdentity(x)') /\ (ShowsVersion(x) <=> ShowsVersion(x)')
  BY <1>1 DEF ShowsIdentity, ShowsVersion, Versions
<1>9. DetailedDerived'
  <2> SUFFICES ASSUME NEW name \in Names, detailed'[name] # NoEntry
               PROVE  \E x : x = detailed'[name] /\ x.username = name /\ ShowsIdentity(x)'
    BY DEF DetailedDerived, DetailedHit
  <2>1. CASE detailed'[name] = detailed[name]
    BY <1>8, <2>1 DEF ProjectionDerived, ReadModelDerived, DetailedDerived, DetailedHit
  <2>2. CASE name = e.username /\ detailed'[name] = d
    BY <1>2, <1>4, <1>5, <1>8, <2>2
  <2> QED
    BY <1>6, <2>1, <2>2
<1>10. ReadModelDerived'
  <2>1. PreviewDerived'
    BY <1>1
    DEF ProjectionDerived, ReadModelDerived, PreviewDerived, PreviewHit, ShowsVersion,
        Versions
  <2>2. /\ \A u \in requested' : ShowsVersion(u)'
        /\ \A r \in Requests : CallDerived(call[r])'
    BY <1>1
    DEF ProjectionDerived, ReadModelDerived, CallDerived, ShowsVersion, ShowsIdentity,
        Versions
  <2> QED
    BY <1>9, <2>1, <2>2 DEF ReadModelDerived
<1>11. ASSUME NEW name \in Names, detailed[name] # NoEntry
       PROVE  detailed'[name] # NoEntry
  BY <1>3, <1>5, <1>6, <1>11
<1>12. \A x : Warm(x) => Warm(x)'
  BY <1>11 DEF Warm, DetailedHit
<1>13. \A r \in Requests : NamedCall(call[r])'
  <2> SUFFICES ASSUME NEW r \in Requests
               PROVE  NamedCall(call[r])'
    OBVIOUS
  <2>1. call[r].name \in Names /\ NamedCall(call[r]) /\ call'[r] = call[r]
    BY <1>1 DEF TypeOK, CallsOK, Call
  <2> QED
    BY <1>11, <2>1 DEF NamedCall, DetailedHit
<1> QED
  BY <1>1, <1>7, <1>8, <1>10, <1>12, <1>13 DEF ProjectionDerived

LEMMA PInv_Always == ProjectionSpec => []PInv
<1>1. ProjectionInit => PInv
  <2> SUFFICES ASSUME ProjectionInit PROVE PInv
    OBVIOUS
  <2>1. TypeOK
    BY InitTyped DEF ProjectionInit
  <2>2. RowIsVersion /\ ReadModelDerived
    BY InitDerived DEF ProjectionInit
  <2>3. \A r \in Requests : NamedCall(call[r])
    BY DEF ProjectionInit, Init, Idle, NamedCall
  <2> QED
    BY <2>1, <2>2, <2>3 DEF PInv, ProjectionInit, Init, ProjectionDerived
<1>2. PInv /\ [ProjectionNext]_projectionVars => PInv'
  BY ServiceKeeps, RelayKeeps, ApplyKeeps DEF ProjectionNext, projectionVars
<1> QED
  BY <1>1, <1>2, PTL DEF ProjectionSpec

-----------------------------------------------------------------------------

\* Type correctness: in particular, a published event is a well-formed one.
THEOREM ProjectionTypeCorrect == ProjectionSpec => []ProjectionTypeOK
<1>1. PInv => ProjectionTypeOK
  BY DEF PInv, ProjectionTypeOK
<1> QED
  BY <1>1, PInv_Always, PTL

\* The topics do not disturb the write model: of the table and the outbox nothing
\* but the statements of the repository is seen with them either.
THEOREM ProjectionIsStatements == ProjectionSpec => StoreSpec
<1>1. ProjectionInit => StoreInit
  BY DEF ProjectionInit, Init
<1>2. PInv /\ [ProjectionNext]_projectionVars => [StoreNext]_storeVars
  <2>1. PInv /\ [Next]_vars => [StoreNext]_storeVars
    BY OnlyStatements DEF PInv
  <2>2. QED
    BY <2>1
    DEF ProjectionNext, projectionVars, Relay, RelayGivesUp, Apply, ApplyGivesUp, vars
<1> QED
  BY <1>1, <1>2, PInv_Always, PTL DEF ProjectionSpec, StoreSpec

\* So the table keeps its names unique, the outbox replays it, and a user lives
\* the life the saga may assume, while requests and events are under way.
THEOREM ProjectionKeepsTable ==
    ProjectionSpec => /\ []TableConsistent /\ []OutboxReplaysTable
                      /\ []NamesAreFreedFirst /\ RefinesLifecycle
BY ProjectionIsStatements, StoreIsConsistent, StoreIsReplayed, StoreFreesNames,
   StoreIsLifecycle, PTL

\* Nor do they take the URL from a preview.
THEOREM ProjectionKeepsURLs ==
    ASSUME "files" \notin Faults
    PROVE  ProjectionSpec => []PreviewHasURL
<1> DEFINE Inv == \A q \in Requests : HasURL(call[q])
<1>1. ProjectionInit => Inv
  BY DEF ProjectionInit, Init, Idle, HasURL, PreviewQueries
<1>2. PInv /\ Inv /\ [ProjectionNext]_projectionVars => Inv'
  <2> SUFFICES ASSUME TypeOK, Inv, [ProjectionNext]_projectionVars PROVE Inv'
    BY DEF PInv
  <2>1. ASSUME [Next]_vars PROVE Inv'
    BY <2>1, NextHasURL
  <2>2. ASSUME UNCHANGED call PROVE Inv'
    BY <2>2 DEF HasURL, NeedsURL
  <2> HIDE DEF Inv
  <2> QED
    BY <2>1, <2>2
    DEF ProjectionNext, projectionVars, Relay, RelayGivesUp, Apply, ApplyGivesUp, vars
<1>3. Inv => PreviewHasURL
  BY DEF HasURL, PreviewHasURL
<1> HIDE DEF Inv
<1> QED
  BY <1>1, <1>2, <1>3, PInv_Always, PTL DEF ProjectionSpec

\* Events of any age and any number of repetitions make no detailed entry show
\* what was never committed for its user.
THEOREM EventsShowTheirUser == ProjectionSpec => []ProjectionDerived
<1>1. PInv => ProjectionDerived
  BY DEF PInv
<1> QED
  BY <1>1, PInv_Always, PTL

\* Redis has the entry each request and each event is about.
THEOREM RequestsFindEntries == ProjectionSpec => []RequestsAreWarm
<1>1. PInv => RequestsAreWarm
  BY DEF PInv, RequestsAreWarm, Warm
<1> QED
  BY <1>1, PInv_Always, PTL

-----------------------------------------------------------------------------
\* The URL of a detailed user, while the file service answers.

\* What holds of a detailed query from the lookup of the URL on.
DetailedCallHasURL(c) ==
    /\ c.op = "GetDetailedUserByUsername"
    /\ c.reply = "ok" \/ c.pc \in {"fill", "publish"}
    => ~NeedsURL(c.user)

EntriesHaveURLs ==
    \A name \in Names : DetailedHit(name) => ~NeedsURL(detailed[name])

\* Detailed entries, requests, events and the detailed users that callers get.
DetailedHasURL ==
    /\ EntriesHaveURLs
    /\ \A e \in requested \cup projected : ~NeedsURL(e)
    /\ \A r \in Requests : DetailedCallHasURL(call[r])

LEMMA ProceedWithURL ==
    ASSUME TypeOK, NEW r \in Requests, NEW pc, NEW reply, NEW user,
           \A q \in Requests : DetailedCallHasURL(call[q]),
           Proceed(r, pc, reply, user),
           /\ call[r].op = "GetDetailedUserByUsername"
           /\ reply = "ok" \/ pc \in {"fill", "publish"}
           => ~NeedsURL(user)
    PROVE  \A q \in Requests : DetailedCallHasURL(call'[q])
<1> DEFINE c == [op |-> call[r].op, pc |-> pc, id |-> call[r].id,
                 name |-> call[r].name, user |-> user, reply |-> reply]
<1>1. /\ call'[r] = c
      /\ \A q \in Requests \ {r} : call'[q] = call[q]
  BY DEF Proceed, TypeOK, CallsOK
<1>2. DetailedCallHasURL(c)
  BY DEF DetailedCallHasURL
<1> HIDE DEF c
<1> QED
  BY <1>1, <1>2

\* The steps of other operations leave the detailed entries alone.
LEMMA OtherCallsKeepURLs ==
    ASSUME TypeOK, NEW r \in Requests, Calls(r) \/ CommandStep(r) \/ Die(r),
           \A q \in Requests : DetailedCallHasURL(call[q])
    PROVE  /\ \A q \in Requests : DetailedCallHasURL(call'[q])
           /\ UNCHANGED <<detailed, requested>>
<1>1. ASSUME Calls(r)
      PROVE  /\ \A q \in Requests : DetailedCallHasURL(call'[q])
             /\ UNCHANGED <<detailed, requested>>
  <2>1. PICK op, pc, id, name, reply :
          /\ call' = [call EXCEPT ![r] = [op |-> op, pc |-> pc, id |-> id, name |-> name,
                                          user |-> NoUser, reply |-> reply]]
          /\ pc \in {"rest", "store", "lookup", "load", "query"}
          /\ reply \in {"none", "invalid"}
          /\ UNCHANGED <<detailed, requested>>
    BY <1>1
    DEF Calls, BeginCommand, StartCommand, BeginPreviewQuery, BeginNameQuery, Begin, Refuse
  <2>2. /\ call'[r].pc = pc /\ call'[r].reply = reply
        /\ \A q \in Requests \ {r} : call'[q] = call[q]
    BY <2>1 DEF TypeOK, CallsOK
  <2> QED
    BY <2>1, <2>2 DEF DetailedCallHasURL
<1>2. ASSUME CommandStep(r)
      PROVE  /\ \A q \in Requests : DetailedCallHasURL(call'[q])
             /\ UNCHANGED <<detailed, requested>>
  <2>1. call[r].op # "GetDetailedUserByUsername"
    BY <1>2
    DEF TypeOK, CallsOK, WellFormed, Commands, CommandStep, InsertRow, ActivateRow,
        DeactivateRow, DeleteRow, NoRowMatches, StoreFails, Project, Purge, At
  <2>2. PICK pc, reply, user : Proceed(r, pc, reply, user)
    BY <1>2
    DEF CommandStep, InsertRow, ActivateRow, DeactivateRow, DeleteRow, NoRowMatches,
        StoreFails, Project, Purge, Continue, Answer
  <2>3. UNCHANGED <<detailed, requested>>
    BY <1>2
    DEF CommandStep, InsertRow, ActivateRow, DeactivateRow, DeleteRow, NoRowMatches,
        StoreFails, Project, Purge, Upsert, DropPreview
  <2> QED
    BY <2>1, <2>2, <2>3, ProceedWithURL
<1>3. ASSUME Die(r)
      PROVE  /\ \A q \in Requests : DetailedCallHasURL(call'[q])
             /\ UNCHANGED <<detailed, requested>>
  <2>1. Proceed(r, "rest", "died", NoUser)
    BY <1>3 DEF Die, Answer
  <2> QED
    BY <1>3, <2>1, ProceedWithURL DEF Die
<1> QED
  BY <1>1, <1>2, <1>3

\* An entry written from a copy that has its URL has it.
LEMMA UpsertKeepsURLs ==
    ASSUME CacheTypeOK, EntriesHaveURLs, NEW u, u.username \in Names, ~NeedsURL(u),
           UpsertByUsername(u)
    PROVE  EntriesHaveURLs'
<1> DEFINE w == MapDomainUserToDetailedCache(u)
<1>1. ~NeedsURL(w)
  BY DEF NeedsURL, MapDomainUserToDetailedCache
<1>2. \A name \in Names : detailed'[name] = IF name = u.username THEN w ELSE detailed[name]
  BY DEF UpsertByUsername, CacheTypeOK
<1> HIDE DEF w
<1> QED
  BY <1>1, <1>2 DEF EntriesHaveURLs, DetailedHit, NeedsURL

LEMMA QueriesKeepURLs ==
    ASSUME "files" \notin Faults, TypeOK, EntriesHaveURLs,
           \A q \in Requests : DetailedCallHasURL(call[q]),
           NEW r \in Requests, QueryStep(r)
    PROVE  /\ EntriesHaveURLs'
           /\ \A q \in Requests : DetailedCallHasURL(call'[q])
           /\ \A u \in requested' \ requested : ~NeedsURL(u)
<1>0. call[r] \in Call /\ WellFormed(call[r]) /\ DetailedCallHasURL(call[r])
  BY DEF TypeOK, CallsOK
<1>1. UNCHANGED detailed => EntriesHaveURLs'
  BY DEF EntriesHaveURLs, DetailedHit, NeedsURL
<1>2. CASE LookupDetailed(r)
  <2>1. call[r].name \in Names /\ UNCHANGED <<detailed, requested>>
    BY <1>0, <1>2 DEF LookupDetailed, Call
  <2>2. \/ \E u : ~NeedsURL(u) /\ Proceed(r, "rest", "ok", u)
        \/ Proceed(r, "load", "none", NoUser)
    BY <1>2, <2>1
    DEF LookupDetailed, EntriesHaveURLs, MapDetailedCacheToDomainUser, NeedsURL, Answer,
        Continue
  <2> QED
    BY <1>1, <2>1, <2>2, ProceedWithURL
<1>3. CASE LoadDetailed(r)
  <2>1. ASSUME NEW id \in UserIDs, Owns(id, call[r].name),
               NEW u \in Resolve(MapUserRowToDomain(users[id]))
        PROVE  ~NeedsURL(u)
    <3>1. MapUserRowToDomain(users[id]) \in User
      BY <2>1, MappersAreTyped DEF Owns, Stored, TypeOK, StoreTypeOK
    <3>2. MapUserRowToDomain(users[id]).avatar_url = NoAvatar
      BY DEF MapUserRowToDomain
    <3> QED
      BY <2>1, <3>1, <3>2, ResolvedHasURL
  <2>2. \/ \E u : ~NeedsURL(u) /\ Proceed(r, "fill", "none", u)
        \/ Proceed(r, "rest", "user not found", NoUser)
        \/ Proceed(r, "rest", "error", NoUser)
    BY <1>3, <2>1 DEF LoadDetailed, Answer, Continue
  <2>3. UNCHANGED <<detailed, requested>>
    BY <1>3 DEF LoadDetailed
  <2> QED
    BY <1>1, <2>2, <2>3, ProceedWithURL
<1>4. CASE FillDetailed(r)
  <2>1. ~NeedsURL(call[r].user) /\ call[r].user.username \in Names
    BY <1>0, <1>4 DEF FillDetailed, At, DetailedCallHasURL, WellFormed, User
  <2>2. \/ Proceed(r, "publish", "none", call[r].user)
        \/ Proceed(r, "rest", "error", NoUser)
    BY <1>4 DEF FillDetailed, Answer, Continue
  <2>3. /\ UpsertByUsername(call[r].user) \/ UNCHANGED detailed
        /\ UNCHANGED requested
    BY <1>4 DEF FillDetailed
  <2>4. EntriesHaveURLs'
    BY <1>1, <2>1, <2>3, UpsertKeepsURLs DEF TypeOK
  <2> QED
    BY <2>1, <2>2, <2>3, <2>4, ProceedWithURL
<1>5. CASE PublishDetailedUserRequested(r)
  <2>1. ~NeedsURL(call[r].user)
    BY <1>0, <1>5
    DEF PublishDetailedUserRequested, At, DetailedCallHasURL, WellFormed
  <2>2. /\ Proceed(r, "rest", "ok", call[r].user)
        /\ requested' \subseteq requested \cup {call[r].user}
        /\ UNCHANGED detailed
    BY <1>5 DEF PublishDetailedUserRequested, Answer
  <2> QED
    BY <1>1, <2>1, <2>2, ProceedWithURL
<1>6. CASE LookupPreview(r) \/ Refresh(r) \/ LoadUserPreview(r) \/ FillPreview(r)
           \/ ExistsByUsername(r)
  <2>1. /\ \E pc, reply, user :
              /\ Proceed(r, pc, reply, user)
              /\ call[r].op = "GetDetailedUserByUsername"
                   => reply # "ok" /\ pc \notin {"fill", "publish"}
        /\ UNCHANGED <<detailed, requested>>
    <3>1. CASE ExistsByUsername(r)
      BY <3>1 DEF ExistsByUsername, Answer
    <3>2. CASE LookupPreview(r)
      <4>1. call[r].op = "GetUserPreviewByID" /\ UNCHANGED <<detailed, requested>>
        BY <3>2 DEF LookupPreview
      <4>2. \E pc, reply, user : Proceed(r, pc, reply, user)
        BY <3>2 DEF LookupPreview, Answer, Continue
      <4> QED
        BY <4>1, <4>2
    <3>3. CASE Refresh(r) \/ FillPreview(r)
      BY <1>0, <3>3 DEF Refresh, FillPreview, Answer, Upsert, At, WellFormed
    <3>4. CASE LoadUserPreview(r)
      <4>1. call[r].op # "GetDetailedUserByUsername" /\ UNCHANGED <<detailed, requested>>
        BY <3>4 DEF LoadUserPreview, PreviewQueries
      <4>2. \E pc, reply, user : Proceed(r, pc, reply, user)
        BY <3>4 DEF LoadUserPreview, Answer, Continue
      <4> QED
        BY <4>1, <4>2
    <3> QED
      BY <1>6, <3>1, <3>2, <3>3, <3>4
  <2> QED
    BY <1>1, <2>1, ProceedWithURL
<1> QED
  BY <1>2, <1>3, <1>4, <1>5, <1>6 DEF QueryStep

LEMMA NextKeepsURLs ==
    ASSUME "files" \notin Faults, PInv, DetailedHasURL, [Next]_vars, UNCHANGED projected
    PROVE  DetailedHasURL'
<1>0. TypeOK
  BY DEF PInv
<1>1. CASE UNCHANGED vars
  BY <1>1 DEF vars, DetailedHasURL, EntriesHaveURLs, DetailedHit, NeedsURL,
              DetailedCallHasURL
<1>2. ASSUME NEW r \in Requests, Calls(r) \/ CommandStep(r) \/ Die(r)
      PROVE  DetailedHasURL'
  <2>1. /\ \A q \in Requests : DetailedCallHasURL(call'[q])
        /\ UNCHANGED <<detailed, requested>>
    BY <1>0, <1>2, OtherCallsKeepURLs DEF DetailedHasURL
  <2> QED
    BY <2>1 DEF DetailedHasURL, EntriesHaveURLs, DetailedHit, NeedsURL,
                DetailedCallHasURL
<1>3. ASSUME NEW r \in Requests, QueryStep(r)
      PROVE  DetailedHasURL'
  <2>1. /\ EntriesHaveURLs'
        /\ \A q \in Requests : DetailedCallHasURL(call'[q])
        /\ \A u \in requested' \ requested : ~NeedsURL(u)
    BY <1>0, <1>3, QueriesKeepURLs DEF DetailedHasURL
  <2> QED
    BY <2>1 DEF DetailedHasURL, NeedsURL, DetailedCallHasURL
<1> QED
  BY <1>1, <1>2, <1>3 DEF Next

\* While the file service answers, a detailed user with an avatar has its URL in
\* Redis, in every request and event about it, however late or often they are
\* applied, and in every answer: only a failing file service makes an entry that
\* lacks the URL for good (service.go 240-268, detailed_user.go 98-135).
THEOREM DetailedUsersHaveURLs ==
    ASSUME "files" \notin Faults
    PROVE  ProjectionSpec => []DetailedHasURL
<1>1. ProjectionInit => DetailedHasURL
  BY DEF ProjectionInit, Init, CacheInit, Idle, DetailedHasURL, EntriesHaveURLs,
         DetailedHit, DetailedCallHasURL
<1>2. PInv /\ DetailedHasURL /\ [ProjectionNext]_projectionVars => DetailedHasURL'
  <2> SUFFICES ASSUME PInv, DetailedHasURL, [ProjectionNext]_projectionVars
               PROVE  DetailedHasURL'
    OBVIOUS
  <2>1. ASSUME [Next]_vars, UNCHANGED projected
        PROVE  DetailedHasURL'
    BY <2>1, NextKeepsURLs
  <2>2. ASSUME NEW u \in requested, Relay(u) \/ RelayGivesUp(u)
        PROVE  DetailedHasURL'
    <3>1. /\ UNCHANGED <<detailed, call>>
          /\ requested' \subseteq requested
          /\ projected' \subseteq projected \cup {EventOf(u)}
      BY <2>2 DEF Relay, RelayGivesUp
    <3>2. ~NeedsURL(EventOf(u))
      BY DEF DetailedHasURL, NeedsURL, EventOf
    <3> HIDE DEF NeedsURL
    <3>3. \A e \in requested' \cup projected' : ~NeedsURL(e)
      BY <3>1, <3>2 DEF DetailedHasURL
    <3> QED
      BY <3>1, <3>3
      DEF DetailedHasURL, EntriesHaveURLs, DetailedHit, NeedsURL, DetailedCallHasURL
  <2>3. ASSUME NEW e \in projected, Apply(e) \/ ApplyGivesUp(e)
        PROVE  DetailedHasURL'
    <3>1. /\ UNCHANGED <<call, requested>>
          /\ projected' \subseteq projected
          /\ UpsertByUsername(UserOf(e)) \/ UNCHANGED detailed
      BY <2>3 DEF Apply, ApplyGivesUp, vars
    <3>2. /\ UserOf(e).username \in Names
          /\ ~NeedsURL(UserOf(e))
      BY DEF PInv, Event, UserOf, DetailedHasURL, NeedsURL
    <3>3. PICK v : v = UserOf(e)
      OBVIOUS
    <3>4. EntriesHaveURLs'
      <4>1. CASE UpsertByUsername(v)
        BY <3>2, <3>3, <4>1, UpsertKeepsURLs DEF DetailedHasURL, PInv, TypeOK
      <4>2. CASE UNCHANGED detailed
        BY <4>2 DEF DetailedHasURL, EntriesHaveURLs, DetailedHit, NeedsURL
      <4> QED
        BY <3>1, <3>3, <4>1, <4>2
    <3> QED
      BY <3>1, <3>4 DEF DetailedHasURL, NeedsURL, DetailedCallHasURL
  <2> QED
    BY <2>1, <2>2, <2>3 DEF ProjectionNext, projectionVars, vars
<1> QED
  BY <1>1, <1>2, PInv_Always, PTL DEF ProjectionSpec
=============================================================================
