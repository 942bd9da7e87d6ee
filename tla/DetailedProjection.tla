-------------------------- MODULE DetailedProjection --------------------------
(***************************************************************************)
(* kafka/detailed_user.go over UserService: the relay that forwards what   *)
(* GetDetailedUserByUsername requested to the projection topic, and the    *)
(* subscriber that writes it to Redis.  An event may stay on either topic  *)
(* for any time; a handler that failed runs again or gives up (the retry   *)
(* queue and the dead letters of EventConsumer).  Two events with the same *)
(* content on one topic count as one.                                      *)
(***************************************************************************)
EXTENDS UserService

VARIABLE
    projected       \* events on the projection topic

projectionVars == <<vars, projected>>

\* detailedUserRequestedEvent: neither activation nor status.
Event == [user_id: UserIDs, username: Names, avatar_id: AvatarIDs,
          avatar_url: AvatarIDs]

\* Faulty: the event says which file the URL is of, not that it is the avatar.
EventOfNameless(u) ==
    [user_id |-> u.user_id, username |-> Trimmed[u.username],
     avatar_id |-> NoAvatar, avatar_url |-> u.avatar_url]

\* The publisher and the subscriber both trim what the event carries.
EventOf(u) ==
    [user_id |-> u.user_id, username |-> Trimmed[u.username],
     avatar_id |-> u.avatar_id, avatar_url |-> u.avatar_url]

UserOf(e) ==
    [user_id |-> e.user_id, username |-> e.username,
     avatar_id |-> e.avatar_id, avatar_url |-> e.avatar_url,
     is_active |-> FALSE, status |-> NoStatus]

-----------------------------------------------------------------------------

\* Faulty: the handler forwards a user where an event is expected.
RelayUser(u) ==
    /\ u \in requested
    /\ projected' = projected \cup {u}
    /\ requested' = requested \ {u}
    /\ UNCHANGED <<storeVars, cacheVars, call>>

\* The handler published, and failed nevertheless if the request stays.
Relay(u) ==
    /\ u \in requested
    /\ projected' = projected \cup {EventOf(u)}
    /\ \/ requested' = requested \ {u}
       \/ Broken("broker") /\ UNCHANGED requested
    /\ UNCHANGED <<storeVars, cacheVars, call>>

RelayGivesUp(u) ==
    /\ u \in requested
    /\ Broken("broker") \/ Broken("death")
    /\ requested' = requested \ {u}
    /\ UNCHANGED <<storeVars, cacheVars, call, projected>>

\* An event without a name is refused; no query requests one.
Apply(e) ==
    /\ e \in projected
    /\ e.username # NoName
    /\ UpsertByUsername(UserOf(e))
    /\ \/ projected' = projected \ {e}
       \/ Broken("redis") /\ UNCHANGED projected
    /\ UNCHANGED <<storeVars, call, requested>>

ApplyGivesUp(e) ==
    /\ e \in projected
    /\ e.username = NoName \/ Broken("redis") \/ Broken("death")
    /\ projected' = projected \ {e}
    /\ UNCHANGED vars

ProjectionInit == Init /\ projected = {}

ProjectionNext ==
    \/ Next /\ UNCHANGED projected
    \/ \E u \in requested : Relay(u) \/ RelayGivesUp(u)
    \/ \E e \in projected : Apply(e) \/ ApplyGivesUp(e)

ProjectionSpec == ProjectionInit /\ [][ProjectionNext]_projectionVars
-----------------------------------------------------------------------------

ProjectionTypeOK ==
    /\ TypeOK
    /\ projected \subseteq Event

\* Events that arrive late, again, or after their user was deleted never make a
\* detailed entry show what PostgreSQL did not once commit for that very user,
\* nor a query answer it (detailed_user.go 98-109, 127-135).
ProjectionDerived ==
    /\ ReadModelDerived
    /\ \A e \in projected : ShowsIdentity(e)

\* detailed_user.go:32 "Kafka requests that warm the user read model": a request
\* never comes before the entry it asks for, so that a projection delayed past
\* the deletion of its user cannot bring back a name Redis had forgotten.
RequestsAreWarm ==
    /\ \A u \in requested : DetailedHit(u.username)
    /\ \A e \in projected : DetailedHit(e.username)
=============================================================================
