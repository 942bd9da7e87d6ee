------------------------------ MODULE ReadModel ------------------------------
(***************************************************************************)
(* The read model: the two Redis keyspaces of internal/infra/read/redis,   *)
(* user:preview:<id> and user:detailed:<name>, and the mappers between     *)
(* their JSON, the PostgreSQL rows and the domain entity.  Entries have no *)
(* expiry.  The URL the file service gives for a file is modelled by the   *)
(* file it belongs to, an empty URL by NoAvatar.                           *)
(***************************************************************************)
EXTENDS UserStore

CONSTANTS
    NoEntry      \* no value under this Redis key

VARIABLES
    preview,     \* preview[id]: the value of user:preview:<id>
    detailed     \* detailed[name]: the value of user:detailed:<name>

cacheVars == <<preview, detailed>>

NoStatus == ""   \* a status the cached JSON does not carry

User == [user_id: UserIDs, username: Names, avatar_id: AvatarIDs,
         avatar_url: AvatarIDs, is_active: BOOLEAN,
         status: Statuses \cup {NoStatus}]

UserCache == [user_id: UserIDs, username: Names, avatar_id: AvatarIDs,
              avatar_url: AvatarIDs, is_active: BOOLEAN]

UserDetailedCache == [user_id: UserIDs, username: Names,
                      avatar_id: AvatarIDs, avatar_url: AvatarIDs]

ASSUME CacheAssumption ==
    /\ NoEntry \notin UserCache
    /\ NoEntry \notin UserDetailedCache

-----------------------------------------------------------------------------

MapUserRowToDomain(row) ==
    [user_id |-> row.user_id, username |-> row.username,
     avatar_id |-> row.avatar_id, avatar_url |-> NoAvatar,
     is_active |-> row.is_active, status |-> row.status]

\* Faulty: is_active as the detailed mapper has it.
MapToActiveCache(u) ==
    [user_id |-> u.user_id, username |-> u.username,
     avatar_id |-> u.avatar_id, avatar_url |-> u.avatar_url,
     is_active |-> TRUE]

MapDomainUserToCache(u) ==
    [user_id |-> u.user_id, username |-> u.username,
     avatar_id |-> u.avatar_id, avatar_url |-> u.avatar_url,
     is_active |-> u.is_active]

MapCacheToDomainUser(c) ==
    [user_id |-> c.user_id, username |-> c.username,
     avatar_id |-> c.avatar_id, avatar_url |-> c.avatar_url,
     is_active |-> c.is_active, status |-> NoStatus]

MapDomainUserToDetailedCache(u) ==
    [user_id |-> u.user_id, username |-> u.username,
     avatar_id |-> u.avatar_id, avatar_url |-> u.avatar_url]

\* A detailed user read from Redis always claims to be active.
MapDetailedCacheToDomainUser(c) ==
    [user_id |-> c.user_id, username |-> c.username,
     avatar_id |-> c.avatar_id, avatar_url |-> c.avatar_url,
     is_active |-> TRUE, status |-> NoStatus]

-----------------------------------------------------------------------------

Upsert(u) ==
    /\ preview' = [preview EXCEPT ![u.user_id] = MapDomainUserToCache(u)]
    /\ UNCHANGED detailed

UpsertByUsername(u) ==
    /\ detailed' = [detailed EXCEPT ![u.username] =
                        MapDomainUserToDetailedCache(u)]
    /\ UNCHANGED preview

\* DeleteByID of the read repository.
DropPreview(id) ==
    /\ preview' = [preview EXCEPT ![id] = NoEntry]
    /\ UNCHANGED detailed

CacheInit ==
    /\ preview = [id \in UserIDs |-> NoEntry]
    /\ detailed = [name \in Names |-> NoEntry]

CacheTypeOK ==
    /\ preview \in [UserIDs -> UserCache \cup {NoEntry}]
    /\ detailed \in [Names -> UserDetailedCache \cup {NoEntry}]
=============================================================================
