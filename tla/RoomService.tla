---------------------------- MODULE RoomService ----------------------------
(***************************************************************************)
(* Rooms, their mediasoup routers and their peers: RoomService's router    *)
(* pool (room.service.ts) driven by the join, leave and disconnect         *)
(* handlers of RoomGateway (room.gateway.ts).                              *)
(*                                                                         *)
(* Node runs one handler at a time, up to its next await: an action here   *)
(* is one such stretch.  A handler that waits keeps its place in joins or  *)
(* routerCreations, and anything else may run before it resumes.  An await *)
(* on a promise that is already settled is not a place where other         *)
(* requests are served, so joining through an existing router is one step. *)
(***************************************************************************)
EXTENDS Integers, FiniteSets

CONSTANTS
    Room,           \* normalised room names
    Socket,         \* socket ids; an id is never reused after a disconnect
    Worker,         \* mediasoup workers, one load slot each
    Router,         \* identities a mediasoup router can have
    None,           \* the absent room, router or worker
    MaxClosings     \* bound: stops of one room in progress before new joins

ASSUME NoneAssumption == None \notin Room \union Worker \union Router
ASSUME RoomAssumption == IsFiniteSet(Room)

VARIABLES
    connected,      \* sockets that have not disconnected
    joins,          \* joins[s][r]: where the join-room handler of s for r waits
    peers,          \* RoomService.peers
    routersByRoom,  \* RoomService.routersByRoom
    slotByRoom,     \* RoomService.slotByRoom
    slotLoad,       \* IWorkerSlot.routers
    routerCreations,\* RoomService.routerCreations: the creation in flight
    observers,      \* RoomService.audioLevelObserversByRoom, by its router
    openOn,         \* openOn[k]: the worker where router k lives, None if closed
    closings        \* closings[r]: stop(r).finally(closeRoomIfEmpty) pending

vars == <<connected, joins, peers, routersByRoom, slotByRoom, slotLoad,
          routerCreations, observers, openOn, closings>>

routerVars == <<routersByRoom, slotByRoom, slotLoad, routerCreations,
                observers, openOn>>

JoinPhase == {"idle", "admitting", "waiting"}

NoPeer == [room |-> None, router |-> None]

NoCreation == [phase |-> "none", slot |-> None, router |-> None]

Creation == [phase : {"none", "creating", "observing"},
             slot : Worker \union {None},
             router : Router \union {None}]

Init ==
    /\ connected = Socket
    /\ joins = [s \in Socket |-> [r \in Room |-> "idle"]]
    /\ peers = [s \in Socket |-> NoPeer]
    /\ routersByRoom = [r \in Room |-> None]
    /\ slotByRoom = [r \in Room |-> None]
    /\ slotLoad = [w \in Worker |-> 0]
    /\ routerCreations = [r \in Room |-> NoCreation]
    /\ observers = [r \in Room |-> None]
    /\ openOn = [k \in Router |-> None]
    /\ closings = [r \in Room |-> 0]

-----------------------------------------------------------------------------
(* Helpers *)

Members(r) == {s \in Socket : peers[s].room = r}

Waiting(r) == {s \in Socket : joins[s][r] = "waiting"}

\* Mutant: someone on the way into the room keeps it open, but nobody re-checks
\* when that join is refused.
OccupiedByAdmitting(r) ==
    Members(r) # {} \/ \E s \in Socket : joins[s][r] # "idle"

IsRoomOccupied(r) == Members(r) # {}

IsLeastLoaded(w) == \A v \in Worker : slotLoad[w] <= slotLoad[v]

\* Routers some part of the program still refers to.
InUse ==
    {k \in Router : openOn[k] # None}
        \union {peers[s].router : s \in Socket}
        \union {routerCreations[r].router : r \in Room}
        \union {observers[r] : r \in Room}

SetJoin(s, r, phase) == joins' = [joins EXCEPT ![s][r] = phase]

\* The tail of onJoinRoom once getOrCreateRouter has answered: peers.set (which
\* replaces whatever entry the socket had), then socket.join.
EnterRoom(S, r, k) ==
    /\ peers' = [s \in Socket |->
                    IF s \in S THEN [room |-> r, router |-> k] ELSE peers[s]]
    /\ joins' = [s \in Socket |->
                    IF s \in S THEN [joins[s] EXCEPT ![r] = "idle"] ELSE joins[s]]

-----------------------------------------------------------------------------
(* join-room *)

\* The message arrives; the handler awaits the session or Google check and the
\* room's access check.
JoinRequest(s, r) ==
    /\ s \in connected
    /\ joins[s][r] = "idle"
    /\ closings[r] < MaxClosings
    /\ SetJoin(s, r, "admitting")
    /\ UNCHANGED <<connected, peers, routerVars, closings>>

\* No user, no such room, or a private room without membership: WsException.
JoinRefused(s, r) ==
    /\ joins[s][r] = "admitting"
    /\ SetJoin(s, r, "idle")
    /\ UNCHANGED <<connected, peers, routerVars, closings>>

\* getOrCreateRouter: the room already has a router.
JoinExisting(s, r) ==
    /\ joins[s][r] = "admitting"
    /\ routersByRoom[r] # None
    /\ EnterRoom({s}, r, routersByRoom[r])
    /\ UNCHANGED <<connected, routerVars, closings>>

\* getOrCreateRouter: share the creation in flight.
JoinInFlight(s, r) ==
    /\ joins[s][r] = "admitting"
    /\ routersByRoom[r] = None
    /\ routerCreations[r].phase # "none"
    /\ SetJoin(s, r, "waiting")
    /\ UNCHANGED <<connected, peers, routerVars, closings>>

\* Mutant: the slot is picked but its counter is not incremented.
JoinCreatingUnclaimed(s, r) ==
    /\ joins[s][r] = "admitting"
    /\ routersByRoom[r] = None
    /\ routerCreations[r].phase = "none"
    /\ \E w \in Worker :
        /\ IsLeastLoaded(w)
        /\ routerCreations' = [routerCreations EXCEPT ![r] =
                [phase |-> "creating", slot |-> w, router |-> None]]
    /\ SetJoin(s, r, "waiting")
    /\ UNCHANGED <<connected, peers, routersByRoom, slotByRoom, slotLoad, observers,
                   openOn, closings>>

\* getOrCreateRouter: start a creation, claiming the slot before the await.
JoinCreating(s, r) ==
    /\ joins[s][r] = "admitting"
    /\ routersByRoom[r] = None
    /\ routerCreations[r].phase = "none"
    /\ \E w \in Worker :
        /\ IsLeastLoaded(w)
        /\ slotLoad' = [slotLoad EXCEPT ![w] = @ + 1]
        /\ routerCreations' = [routerCreations EXCEPT ![r] =
                [phase |-> "creating", slot |-> w, router |-> None]]
    /\ SetJoin(s, r, "waiting")
    /\ UNCHANGED <<connected, peers, routersByRoom, slotByRoom, observers,
                   openOn, closings>>

-----------------------------------------------------------------------------
(* createRouterFor, resumed by the worker's answers *)

\* Mutant: the least loaded slot is looked up again after the await.
RouterCreatedOnAnotherSlot(r) ==
    /\ routerCreations[r].phase = "creating"
    /\ Router \ InUse # {}
    /\ \E w \in Worker :
        LET k == CHOOSE k \in Router \ InUse : TRUE IN
        /\ IsLeastLoaded(w)
        /\ openOn' = [openOn EXCEPT ![k] = routerCreations[r].slot]
        /\ routersByRoom' = [routersByRoom EXCEPT ![r] = k]
        /\ slotByRoom' = [slotByRoom EXCEPT ![r] = w]
        /\ routerCreations' = [routerCreations EXCEPT ![r] =
                [phase |-> "observing", slot |-> None, router |-> k]]
    /\ UNCHANGED <<connected, joins, peers, slotLoad, observers, closings>>

RouterCreated(r) ==
    /\ routerCreations[r].phase = "creating"
    /\ Router \ InUse # {}
    /\ LET k == CHOOSE k \in Router \ InUse : TRUE IN
        /\ openOn' = [openOn EXCEPT ![k] = routerCreations[r].slot]
        /\ routersByRoom' = [routersByRoom EXCEPT ![r] = k]
        /\ slotByRoom' = [slotByRoom EXCEPT ![r] = routerCreations[r].slot]
        /\ routerCreations' = [routerCreations EXCEPT ![r] =
                [phase |-> "observing", slot |-> None, router |-> k]]
    /\ UNCHANGED <<connected, joins, peers, slotLoad, observers, closings>>

\* Everyone sharing the promise is rejected with it.
RejectWaiting(r) ==
    joins' = [s \in Socket |->
                IF joins[s][r] = "waiting" THEN [joins[s] EXCEPT ![r] = "idle"]
                                           ELSE joins[s]]

\* Mutant: the catch does not give the slot back.
RouterFailedKeepingSlot(r) ==
    /\ routerCreations[r].phase = "creating"
    /\ routerCreations' = [routerCreations EXCEPT ![r] = NoCreation]
    /\ RejectWaiting(r)
    /\ UNCHANGED <<connected, peers, routersByRoom, slotByRoom, slotLoad, observers,
                   openOn, closings>>

\* Mutant: the failure clears the creation but rejects nobody.
RouterFailedSilently(r) ==
    /\ routerCreations[r].phase = "creating"
    /\ slotLoad' = [slotLoad EXCEPT ![routerCreations[r].slot] = @ - 1]
    /\ routerCreations' = [routerCreations EXCEPT ![r] = NoCreation]
    /\ UNCHANGED <<connected, joins, peers, routersByRoom, slotByRoom, observers,
                   openOn, closings>>

RouterFailed(r) ==
    /\ routerCreations[r].phase = "creating"
    /\ slotLoad' = [slotLoad EXCEPT ![routerCreations[r].slot] = @ - 1]
    /\ routerCreations' = [routerCreations EXCEPT ![r] = NoCreation]
    /\ RejectWaiting(r)
    /\ UNCHANGED <<connected, peers, routersByRoom, slotByRoom, observers,
                   openOn, closings>>

\* The observer is registered, the promise resolves, and every joiner that
\* shared it becomes a peer before anything else runs.
ObserverCreated(r) ==
    /\ routerCreations[r].phase = "observing"
    /\ observers' = [observers EXCEPT ![r] = routerCreations[r].router]
    /\ routerCreations' = [routerCreations EXCEPT ![r] = NoCreation]
    /\ EnterRoom(Waiting(r), r, routerCreations[r].router)
    /\ UNCHANGED <<connected, routersByRoom, slotByRoom, slotLoad, openOn, closings>>

\* Mutant: the failure forgets the room's slot although it has a router.
ObserverFailedForgettingSlot(r) ==
    /\ routerCreations[r].phase = "observing"
    /\ routerCreations' = [routerCreations EXCEPT ![r] = NoCreation]
    /\ slotByRoom' = [slotByRoom EXCEPT ![r] = None]
    /\ RejectWaiting(r)
    /\ UNCHANGED <<connected, peers, routersByRoom, slotLoad, observers, openOn, closings>>

\* The router and the slot stay: only createRouter is inside the try.
ObserverFailed(r) ==
    /\ routerCreations[r].phase = "observing"
    /\ routerCreations' = [routerCreations EXCEPT ![r] = NoCreation]
    /\ RejectWaiting(r)
    /\ UNCHANGED <<connected, peers, routersByRoom, slotByRoom, slotLoad,
                   observers, openOn, closings>>

-----------------------------------------------------------------------------
(* leave-room, disconnect and the release of an empty room *)

ClosePeer(s) ==
    LET r == peers[s].room IN
    /\ peers' = [peers EXCEPT ![s] = NoPeer]
    /\ closings' = IF Members(r) = {s}
                   THEN [closings EXCEPT ![r] = @ + 1] ELSE closings

LeaveRoom(s) ==
    /\ s \in connected
    /\ peers[s] # NoPeer
    /\ ClosePeer(s)
    /\ UNCHANGED <<connected, joins, routerVars>>

\* A join handler of s that is still awaiting keeps running.
Disconnect(s) ==
    /\ s \in connected
    /\ connected' = connected \ {s}
    /\ IF peers[s] = NoPeer THEN UNCHANGED <<peers, closings>> ELSE ClosePeer(s)
    /\ UNCHANGED <<joins, routerVars>>

ReleaseSlot(r) ==
    /\ slotByRoom' = [slotByRoom EXCEPT ![r] = None]
    /\ slotLoad' = [slotLoad EXCEPT ![slotByRoom[r]] = IF @ > 1 THEN @ - 1 ELSE 0]

\* Mutant: occupancy is not looked at again once the recording has stopped.
CloseRoomUnchecked(r) ==
    /\ closings[r] > 0
    /\ closings' = [closings EXCEPT ![r] = @ - 1]
    /\ routersByRoom[r] # None
    /\ openOn' = [openOn EXCEPT ![routersByRoom[r]] = None]
    /\ routersByRoom' = [routersByRoom EXCEPT ![r] = None]
    /\ observers' = [observers EXCEPT ![r] = None]
    /\ ReleaseSlot(r)
    /\ UNCHANGED <<connected, joins, peers, routerCreations>>

\* Mutant: the entry is deleted and the router is never closed.
CloseRoomKeepingRouter(r) ==
    /\ closings[r] > 0
    /\ closings' = [closings EXCEPT ![r] = @ - 1]
    /\ ~IsRoomOccupied(r)
    /\ routersByRoom[r] # None
    /\ routersByRoom' = [routersByRoom EXCEPT ![r] = None]
    /\ observers' = [observers EXCEPT ![r] = None]
    /\ ReleaseSlot(r)
    /\ UNCHANGED <<connected, joins, peers, routerCreations, openOn>>

CloseRoomIfEmpty(r) ==
    /\ closings[r] > 0
    /\ closings' = [closings EXCEPT ![r] = @ - 1]
    /\ \/ /\ IsRoomOccupied(r) \/ routersByRoom[r] = None
          /\ UNCHANGED routerVars
       \/ /\ ~IsRoomOccupied(r)
          /\ routersByRoom[r] # None
          /\ openOn' = [openOn EXCEPT ![routersByRoom[r]] = None]
          /\ routersByRoom' = [routersByRoom EXCEPT ![r] = None]
          /\ observers' = [observers EXCEPT ![r] = None]
          /\ ReleaseSlot(r)
          /\ UNCHANGED routerCreations
    /\ UNCHANGED <<connected, joins, peers>>

-----------------------------------------------------------------------------

Answer(r) ==
    RouterCreated(r) \/ RouterFailed(r) \/ ObserverCreated(r) \/ ObserverFailed(r)

Admission(s, r) ==
    JoinRefused(s, r) \/ JoinExisting(s, r) \/ JoinInFlight(s, r) \/ JoinCreating(s, r)

Next ==
    \/ \E s \in Socket, r \in Room : JoinRequest(s, r) \/ Admission(s, r)
    \/ \E r \in Room : Answer(r) \/ CloseRoomIfEmpty(r)
    \/ \E s \in Socket : LeaveRoom(s) \/ Disconnect(s)

Spec == Init /\ [][Next]_vars

(* Every await ends: workers answer or fail their requests, the identity and *)
(* access queries return, and RecordingService.stop settles.                 *)
Fairness ==
    /\ \A s \in Socket, r \in Room : WF_vars(Admission(s, r))
    /\ \A r \in Room : WF_vars(Answer(r)) /\ WF_vars(CloseRoomIfEmpty(r))

FairSpec == Spec /\ Fairness

-----------------------------------------------------------------------------
(* Properties *)

TypeOK ==
    /\ connected \subseteq Socket
    /\ joins \in [Socket -> [Room -> JoinPhase]]
    /\ peers \in [Socket -> [room : Room \union {None}, router : Router \union {None}]]
    /\ routersByRoom \in [Room -> Router \union {None}]
    /\ slotByRoom \in [Room -> Worker \union {None}]
    /\ slotLoad \in [Worker -> Nat]
    /\ routerCreations \in [Room -> Creation]
    /\ observers \in [Room -> Router \union {None}]
    /\ openOn \in [Router -> Worker \union {None}]
    /\ closings \in [Room -> Nat]

\* The rooms a worker is charged for: those whose router it carries and those
\* whose router it is building.
Assigned(w) ==
    {r \in Room : slotByRoom[r] = w \/ routerCreations[r].slot = w}

\* A slot's counter is the number of rooms assigned to it, through failed
\* creations, shared ones and releases: otherwise least-loaded placement
\* silently degrades (the comment on IWorkerSlot.routers).
SlotLoadCountsRooms == \A w \in Worker : slotLoad[w] = Cardinality(Assigned(w))

\* No router outlives its entry in routersByRoom: every open router is the
\* router of a room, so closeRoomIfEmpty can still reach it.
NoLeakedRouter ==
    \A k \in Router : openOn[k] # None => \E r \in Room : routersByRoom[r] = k

\* The slice createTransport takes a peer's ports from (slotByRoom of its room)
\* belongs to the worker that runs the peer's router.
OwnWorkersPorts ==
    \A s \in Socket :
        peers[s] # NoPeer /\ openOn[peers[s].router] # None
            => slotByRoom[peers[s].room] = openOn[peers[s].router]

\* The re-check in closeRoomIfEmpty is enough: no step closes a router that a
\* registered peer still uses, however long the recording took to stop.
RouterNotClosedUnderPeer ==
    [][\A k \in Router : openOn[k] # None /\ openOn'[k] = None
            => \A s \in Socket : peers[s].router # k]_vars

\* Every join handler that shares a router creation is answered.
JoinSettles ==
    \A s \in Socket, r \in Room :
        joins[s][r] = "waiting" ~> joins[s][r] # "waiting"

\* When the last peer of a room has left, the room is released or re-occupied.
EmptiedRoomReleased ==
    \A r \in Room :
        closings[r] > 0 ~> (routersByRoom[r] = None \/ Members(r) # {})

\* The rooms as their participants see them.
Hosting == INSTANCE RoomHosting
            WITH hosted <- slotByRoom, members <- [r \in Room |-> Members(r)]

\* RoomService implements RoomHosting: a room stays with one worker while it is
\* hosted, and hosting is never taken from a room that has peers.
ImplementsHosting == Hosting!Spec

\* "Sharing the in-flight promise is what makes 'get or create' actually mean
\* it": peers of one room can see and hear each other only on one router.
PeersShareRouter ==
    \A s, t \in Socket :
        peers[s].room = peers[t].room => peers[s].router = peers[t].router

\* A socket that has disconnected owns no peer: closePeer "tears down everything
\* owned by a disconnecting peer", so its room can be released.
DisconnectedPeerGone == \A s \in Socket \ connected : peers[s] = NoPeer

=============================================================================
