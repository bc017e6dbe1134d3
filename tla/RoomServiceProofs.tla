------------------------- MODULE RoomServiceProofs -------------------------
(***************************************************************************)
(* Proofs about RoomService for any rooms, sockets, workers and routers.   *)
(***************************************************************************)
EXTENDS RoomService, FiniteSetTheorems, TLAPS

\* Types, with the load an integer: that it is never negative is a consequence.
Types ==
    /\ connected \subseteq Socket
    /\ joins \in [Socket -> [Room -> JoinPhase]]
    /\ peers \in [Socket -> [room : Room \union {None}, router : Router \union {None}]]
    /\ routersByRoom \in [Room -> Router \union {None}]
    /\ slotByRoom \in [Room -> Worker \union {None}]
    /\ slotLoad \in [Worker -> Int]
    /\ routerCreations \in [Room -> Creation]
    /\ observers \in [Room -> Router \union {None}]
    /\ openOn \in [Router -> Worker \union {None}]
    /\ closings \in [Room -> Nat]

\* The maps agree: a room has a router exactly when it has a slot, the router
\* runs on that slot's worker, and two rooms never share one.
MapsAgree ==
    /\ \A r \in Room : routersByRoom[r] = None <=> slotByRoom[r] = None
    /\ \A r \in Room : routersByRoom[r] # None
                        => openOn[routersByRoom[r]] = slotByRoom[r]
    /\ \A q, r \in Room : routersByRoom[q] = routersByRoom[r] /\ routersByRoom[r] # None
                            => q = r

\* A creation holds a slot while it waits for its router and never both.
CreationShape ==
    \A r \in Room :
        LET c == routerCreations[r] IN
        \/ c = NoCreation
        \/ c.phase = "creating" /\ c.slot \in Worker /\ c.router = None
              /\ routersByRoom[r] = None
        \/ c.phase = "observing" /\ c.slot = None /\ c.router \in Router

\* A router that a creation or a peer refers to belongs to no other room.
RoutersStayHome ==
    /\ \A q, r \in Room :
            routersByRoom[q] # None /\ routersByRoom[q] = routerCreations[r].router
                => q = r
    /\ \A s \in Socket :
            \/ peers[s] = NoPeer
            \/ /\ peers[s].room \in Room
               /\ peers[s].router \in Router
               /\ \A q \in Room : routersByRoom[q] = peers[s].router
                                    => q = peers[s].room

RouterInv == Types /\ MapsAgree /\ CreationShape /\ RoutersStayHome /\ NoLeakedRouter

-----------------------------------------------------------------------------

\* The initial state satisfies the inductive invariant.
LEMMA InitRouterInv == Init => RouterInv
  BY NoneAssumption
  DEF Init, RouterInv, Types, MapsAgree, CreationShape, RoutersStayHome,
      NoLeakedRouter, NoPeer, NoCreation, Creation, JoinPhase

\* Moving one handler to another phase keeps the type of joins.
LEMMA SetJoinType ==
  ASSUME joins \in [Socket -> [Room -> JoinPhase]],
         NEW s \in Socket, NEW r \in Room, NEW phase \in JoinPhase, SetJoin(s, r, phase)
  PROVE  joins' \in [Socket -> [Room -> JoinPhase]]
<1>1. joins[s] \in [Room -> JoinPhase]
  OBVIOUS
<1>2. [joins[s] EXCEPT ![r] = phase] \in [Room -> JoinPhase]
  BY <1>1
<1>3. joins' = [joins EXCEPT ![s] = [joins[s] EXCEPT ![r] = phase]]
  BY DEF SetJoin
<1> QED
  BY <1>2, <1>3

\* Entering a room through its own router keeps the invariant.
LEMMA EnterRoomKeepsHome ==
  ASSUME RouterInv, NEW r \in Room, NEW k \in Router, NEW S \in SUBSET Socket,
         \A q \in Room : routersByRoom[q] = k => q = r,
         EnterRoom(S, r, k),
         UNCHANGED <<connected, routersByRoom, slotByRoom, slotLoad, openOn, closings>>,
         observers' \in [Room -> Router \union {None}],
         \A q \in Room : routerCreations'[q] \in {routerCreations[q], NoCreation},
         routerCreations' \in [Room -> Creation]
  PROVE  RouterInv'
<1> USE NoneAssumption
<1>1. Types'
  BY DEF RouterInv, Types, EnterRoom, JoinPhase
<1>2. MapsAgree' /\ NoLeakedRouter'
  BY DEF RouterInv, MapsAgree, NoLeakedRouter
<1>3. CreationShape'
  BY DEF RouterInv, CreationShape, NoCreation
<1>4. RoutersStayHome'
  <2>1. \A q, p \in Room :
            routersByRoom'[q] # None /\ routersByRoom'[q] = routerCreations'[p].router
                => q = p
    BY DEF RouterInv, RoutersStayHome, NoCreation
  <2>2. ASSUME NEW s \in Socket
        PROVE  \/ peers'[s] = NoPeer
               \/ /\ peers'[s].room \in Room
                  /\ peers'[s].router \in Router
                  /\ \A q \in Room : routersByRoom'[q] = peers'[s].router
                                       => q = peers'[s].room
    BY DEF RouterInv, RoutersStayHome, EnterRoom
  <2> QED
    BY <2>1, <2>2 DEF RoutersStayHome
<1> QED
  BY <1>1, <1>2, <1>3, <1>4 DEF RouterInv

\* Every step of every handler keeps the inductive invariant.
LEMMA StepRouterInv == RouterInv /\ [Next]_vars => RouterInv'
<1> SUFFICES ASSUME RouterInv, [Next]_vars PROVE RouterInv'
  OBVIOUS
<1> USE NoneAssumption
<1>1. ASSUME NEW s \in Socket, NEW r \in Room,
             JoinRequest(s, r) \/ JoinRefused(s, r) \/ JoinInFlight(s, r)
      PROVE  RouterInv'
  <2>1. joins' \in [Socket -> [Room -> JoinPhase]]
    <3>1. PICK phase \in JoinPhase : SetJoin(s, r, phase)
      BY <1>1 DEF JoinRequest, JoinRefused, JoinInFlight, JoinPhase
    <3> QED
      BY <3>1, SetJoinType DEF RouterInv, Types
  <2>2. UNCHANGED <<connected, peers, routersByRoom, slotByRoom, slotLoad,
                    routerCreations, observers, openOn, closings>>
    BY <1>1 DEF JoinRequest, JoinRefused, JoinInFlight, routerVars
  <2> QED
    BY <2>1, <2>2 DEF RouterInv, Types, MapsAgree, CreationShape, RoutersStayHome,
                      NoLeakedRouter
<1>2. ASSUME NEW s \in Socket, NEW r \in Room, JoinExisting(s, r)
      PROVE  RouterInv'
  <2>1. routersByRoom[r] \in Router
    BY <1>2 DEF JoinExisting, RouterInv, Types
  <2>2. \A q \in Room : routersByRoom[q] = routersByRoom[r] => q = r
    BY <1>2 DEF JoinExisting, RouterInv, MapsAgree
  <2>3. EnterRoom({s}, r, routersByRoom[r])
        /\ UNCHANGED <<connected, routerVars, closings>>
    BY <1>2 DEF JoinExisting
  <2>4. observers' \in [Room -> Router \union {None}]
        /\ routerCreations' \in [Room -> Creation]
        /\ \A q \in Room : routerCreations'[q] \in {routerCreations[q], NoCreation}
    BY <2>3 DEF routerVars, RouterInv, Types
  <2>5. UNCHANGED <<connected, routersByRoom, slotByRoom, slotLoad, openOn, closings>>
    BY <2>3 DEF routerVars
  <2> QED
    BY <2>1, <2>2, <2>3, <2>4, <2>5, EnterRoomKeepsHome
<1>3. ASSUME NEW s \in Socket, NEW r \in Room, JoinCreating(s, r)
      PROVE  RouterInv'
  <2>1. Types'
    BY <1>3 DEF JoinCreating, SetJoin, RouterInv, Types, JoinPhase, Creation
  <2>2. MapsAgree' /\ NoLeakedRouter'
    BY <1>3 DEF JoinCreating, RouterInv, MapsAgree, NoLeakedRouter
  <2>3. CreationShape'
    BY <1>3 DEF JoinCreating, RouterInv, Types, CreationShape
  <2>4. RoutersStayHome'
    BY <1>3 DEF JoinCreating, RouterInv, Types, RoutersStayHome
  <2> QED
    BY <2>1, <2>2, <2>3, <2>4 DEF RouterInv
<1>4. ASSUME NEW r \in Room, RouterCreated(r)
      PROVE  RouterInv'
  <2> DEFINE k == CHOOSE x \in Router \ InUse : TRUE
             w == routerCreations[r].slot
  <2>1. k \in Router /\ k \notin InUse
    BY <1>4 DEF RouterCreated
  <2>2. /\ routerCreations[r].phase = "creating"
        /\ openOn' = [openOn EXCEPT ![k] = w]
        /\ routersByRoom' = [routersByRoom EXCEPT ![r] = k]
        /\ slotByRoom' = [slotByRoom EXCEPT ![r] = w]
        /\ routerCreations' = [routerCreations EXCEPT ![r] =
                [phase |-> "observing", slot |-> None, router |-> k]]
        /\ UNCHANGED <<connected, joins, peers, slotLoad, observers, closings>>
    BY <1>4 DEF RouterCreated
  <2> HIDE DEF k, w
  <2>3. w \in Worker /\ routersByRoom[r] = None
    BY <2>2 DEF RouterInv, CreationShape, NoCreation, w
  <2>4. /\ openOn[k] = None
        /\ \A s \in Socket : peers[s].router # k
        /\ \A q \in Room : routerCreations[q].router # k
    BY <2>1 DEF InUse
  <2>5. \A q \in Room : routersByRoom[q] # k
    BY <2>1, <2>4 DEF RouterInv, MapsAgree
  <2>6. Types'
    BY <2>1, <2>2, <2>3 DEF RouterInv, Types, Creation
  <2>7. MapsAgree'
    BY <2>1, <2>2, <2>3, <2>5 DEF RouterInv, Types, MapsAgree
  <2>8. CreationShape'
    BY <2>1, <2>2, <2>3 DEF RouterInv, Types, CreationShape
  <2>9. RoutersStayHome'
    <3>1. \A q, p \in Room :
            routersByRoom'[q] # None /\ routersByRoom'[q] = routerCreations'[p].router
                => q = p
      BY <2>1, <2>2, <2>4, <2>5 DEF RouterInv, Types, RoutersStayHome
    <3>2. ASSUME NEW s \in Socket, peers[s] # NoPeer, NEW q \in Room,
                 routersByRoom'[q] = peers[s].router
          PROVE  q = peers[s].room
      BY <2>2, <2>4, <3>2 DEF RouterInv, Types, RoutersStayHome
    <3> QED
      BY <2>2, <3>1, <3>2 DEF RouterInv, RoutersStayHome
  <2>10. NoLeakedRouter'
    <3>1. ASSUME NEW j \in Router, openOn'[j] # None
          PROVE  \E q \in Room : routersByRoom'[q] = j
      <4>1. CASE j = k
        BY <2>2, <4>1 DEF RouterInv, Types
      <4>2. CASE j # k
        BY <2>1, <2>2, <2>3, <3>1, <4>2 DEF RouterInv, Types, NoLeakedRouter
      <4> QED
        BY <4>1, <4>2
    <3> QED
      BY <3>1 DEF NoLeakedRouter
  <2> QED
    BY <2>6, <2>7, <2>8, <2>9, <2>10 DEF RouterInv
<1>5. ASSUME NEW r \in Room, RouterFailed(r) \/ ObserverFailed(r)
      PROVE  RouterInv'
  <2>1. Types'
    <3>1. joins' \in [Socket -> [Room -> JoinPhase]]
      BY <1>5 DEF RouterFailed, ObserverFailed, RejectWaiting, RouterInv, Types, JoinPhase
    <3>2. routerCreations' \in [Room -> Creation]
      BY <1>5 DEF RouterFailed, ObserverFailed, RouterInv, Types, Creation, NoCreation
    <3>3. slotLoad' \in [Worker -> Int]
      BY <1>5 DEF RouterFailed, ObserverFailed, RouterInv, Types
    <3> QED
      BY <1>5, <3>1, <3>2, <3>3 DEF RouterFailed, ObserverFailed, RouterInv, Types
  <2>2. MapsAgree' /\ NoLeakedRouter'
    BY <1>5 DEF RouterFailed, ObserverFailed, RouterInv, MapsAgree, NoLeakedRouter
  <2>3. CreationShape'
    BY <1>5 DEF RouterFailed, ObserverFailed, RouterInv, Types, CreationShape, NoCreation
  <2>4. RoutersStayHome'
    BY <1>5 DEF RouterFailed, ObserverFailed, RouterInv, Types, RoutersStayHome, NoCreation
  <2> QED
    BY <2>1, <2>2, <2>3, <2>4 DEF RouterInv
<1>6. ASSUME NEW r \in Room, ObserverCreated(r)
      PROVE  RouterInv'
  <2> DEFINE k == routerCreations[r].router
  <2>1. k \in Router
    BY <1>6 DEF ObserverCreated, RouterInv, CreationShape, NoCreation
  <2>2. \A q \in Room : routersByRoom[q] = k => q = r
    BY <2>1 DEF RouterInv, RoutersStayHome
  <2>3. /\ EnterRoom(Waiting(r), r, k)
        /\ UNCHANGED <<connected, routersByRoom, slotByRoom, slotLoad, openOn, closings>>
        /\ observers' = [observers EXCEPT ![r] = k]
        /\ routerCreations' = [routerCreations EXCEPT ![r] = NoCreation]
    BY <1>6 DEF ObserverCreated
  <2>4. Waiting(r) \in SUBSET Socket
    BY DEF Waiting
  <2>5. /\ observers' \in [Room -> Router \union {None}]
        /\ routerCreations' \in [Room -> Creation]
        /\ \A q \in Room : routerCreations'[q] \in {routerCreations[q], NoCreation}
    BY <2>1, <2>3 DEF RouterInv, Types, Creation, NoCreation
  <2> HIDE DEF k
  <2> QED
    BY <2>1, <2>2, <2>3, <2>4, <2>5, EnterRoomKeepsHome
<1>7. ASSUME NEW s \in Socket, LeaveRoom(s) \/ Disconnect(s)
      PROVE  RouterInv'
  <2>1. Types'
    <3>1. peers' \in [Socket -> [room : Room \union {None}, router : Router \union {None}]]
      BY <1>7 DEF LeaveRoom, Disconnect, ClosePeer, RouterInv, Types, NoPeer
    <3>2. closings' \in [Room -> Nat]
      <4>1. peers[s] = NoPeer \/ peers[s].room \in Room
        BY DEF RouterInv, RoutersStayHome
      <4>2. \/ closings' = closings
            \/ /\ peers[s].room \in Room
               /\ closings' = [closings EXCEPT ![peers[s].room] = @ + 1]
        BY <1>7, <4>1 DEF LeaveRoom, Disconnect, ClosePeer
      <4> QED
        BY <4>2 DEF RouterInv, Types
    <3> QED
      BY <1>7, <3>1, <3>2 DEF LeaveRoom, Disconnect, routerVars, RouterInv, Types
  <2>2. MapsAgree' /\ NoLeakedRouter' /\ CreationShape'
    BY <1>7 DEF LeaveRoom, Disconnect, routerVars, RouterInv, MapsAgree, NoLeakedRouter,
                CreationShape
  <2>3. RoutersStayHome'
    BY <1>7 DEF LeaveRoom, Disconnect, ClosePeer, routerVars, RouterInv, Types,
                RoutersStayHome
  <2> QED
    BY <2>1, <2>2, <2>3 DEF RouterInv
<1>8. ASSUME NEW r \in Room, CloseRoomIfEmpty(r)
      PROVE  RouterInv'
  <2>1. CASE UNCHANGED routerVars
    BY <1>8, <2>1 DEF CloseRoomIfEmpty, routerVars, RouterInv, Types, MapsAgree,
                      CreationShape, RoutersStayHome, NoLeakedRouter
  <2>2. CASE ~ UNCHANGED routerVars
    <3>1. /\ routersByRoom[r] # None
          /\ closings[r] > 0
          /\ closings' = [closings EXCEPT ![r] = @ - 1]
          /\ openOn' = [openOn EXCEPT ![routersByRoom[r]] = None]
          /\ routersByRoom' = [routersByRoom EXCEPT ![r] = None]
          /\ observers' = [observers EXCEPT ![r] = None]
          /\ slotByRoom' = [slotByRoom EXCEPT ![r] = None]
          /\ slotLoad' = [slotLoad EXCEPT ![slotByRoom[r]] = IF @ > 1 THEN @ - 1 ELSE 0]
          /\ UNCHANGED <<routerCreations, connected, joins, peers>>
      BY <1>8, <2>2 DEF CloseRoomIfEmpty, ReleaseSlot, routerVars
    <3>2. Types'
      <4>1. slotLoad' \in [Worker -> Int]
        <5>1. slotByRoom[r] \in Worker
          BY <3>1 DEF RouterInv, Types, MapsAgree
        <5>2. slotLoad[slotByRoom[r]] \in Int
          BY <5>1 DEF RouterInv, Types
        <5> DEFINE n == IF slotLoad[slotByRoom[r]] > 1 THEN slotLoad[slotByRoom[r]] - 1 ELSE 0
        <5>3. n \in Int
          BY <5>2
        <5>4. slotLoad' = [slotLoad EXCEPT ![slotByRoom[r]] = n]
          BY <3>1
        <5> HIDE DEF n
        <5> QED
          BY <5>1, <5>3, <5>4 DEF RouterInv, Types
      <4>2. closings' \in [Room -> Nat]
        BY <3>1 DEF RouterInv, Types
      <4> QED
        BY <3>1, <4>1, <4>2 DEF RouterInv, Types
    <3>3. MapsAgree'
      BY <3>1 DEF RouterInv, Types, MapsAgree
    <3>4. CreationShape' /\ RoutersStayHome'
      BY <3>1 DEF RouterInv, Types, CreationShape, RoutersStayHome
    <3>5. NoLeakedRouter'
      BY <3>1 DEF RouterInv, Types, NoLeakedRouter
    <3> QED
      BY <3>2, <3>3, <3>4, <3>5 DEF RouterInv
  <2> QED
    BY <2>1, <2>2
<1>9. CASE UNCHANGED vars
  BY <1>9 DEF vars, RouterInv, Types, MapsAgree, CreationShape, RoutersStayHome,
              NoLeakedRouter
<1> QED
  BY <1>1, <1>2, <1>3, <1>4, <1>5, <1>6, <1>7, <1>8, <1>9
  DEF Next, Admission, Answer

-----------------------------------------------------------------------------
(* The load counters *)

\* The rooms a worker is charged for are finitely many.
LEMMA AssignedFinite ==
  ASSUME NEW w PROVE IsFiniteSet(Assigned(w)) /\ Cardinality(Assigned(w)) \in Nat
<1>1. Assigned(w) \subseteq Room
  BY DEF Assigned
<1> QED
  BY <1>1, RoomAssumption, FS_Subset, FS_CardinalityType

\* A room is charged to its new worker, once, when a creation claims a slot.
LEMMA ClaimCounts ==
  ASSUME RouterInv, SlotLoadCountsRooms, NEW s \in Socket, NEW r \in Room, JoinCreating(s, r)
  PROVE  SlotLoadCountsRooms'
<1> USE NoneAssumption
<1>1. PICK w \in Worker :
        /\ slotLoad' = [slotLoad EXCEPT ![w] = @ + 1]
        /\ routerCreations' = [routerCreations EXCEPT ![r] =
                [phase |-> "creating", slot |-> w, router |-> None]]
  BY DEF JoinCreating
<1>2. UNCHANGED slotByRoom /\ slotByRoom[r] = None /\ routerCreations[r].slot = None
  BY DEF JoinCreating, RouterInv, MapsAgree, CreationShape, NoCreation
<1>3. ASSUME NEW v \in Worker PROVE slotLoad'[v] = Cardinality(Assigned(v)')
  <2>1. slotLoad[v] = Cardinality(Assigned(v))
    BY DEF SlotLoadCountsRooms
  <2>2. CASE v = w
    <3>1. r \notin Assigned(v)
      BY <1>2 DEF Assigned
    <3>2. Assigned(v)' = Assigned(v) \union {r}
      BY <1>1, <1>2, <2>2 DEF Assigned, RouterInv, Types
    <3>3. Cardinality(Assigned(v) \union {r}) = Cardinality(Assigned(v)) + 1
      BY <3>1, AssignedFinite, FS_AddElement
    <3>4. slotLoad'[v] = slotLoad[v] + 1
      BY <1>1, <2>2 DEF RouterInv, Types
    <3> QED
      BY <2>1, <3>2, <3>3, <3>4
  <2>3. CASE v # w
    <3>1. Assigned(v)' = Assigned(v)
      BY <1>1, <1>2, <2>3 DEF Assigned, RouterInv, Types
    <3>2. slotLoad'[v] = slotLoad[v]
      BY <1>1, <2>3 DEF RouterInv, Types
    <3> QED
      BY <2>1, <3>1, <3>2
  <2> QED
    BY <2>2, <2>3
<1> QED
  BY <1>3 DEF SlotLoadCountsRooms

\* A step that takes r off the worker w and off no other gives back one unit.
LEMMA GiveBackCounts ==
  ASSUME RouterInv, SlotLoadCountsRooms, NEW r \in Room, NEW w \in Worker,
         r \in Assigned(w),
         \A v \in Worker : Assigned(v)' = IF v = w THEN Assigned(v) \ {r} ELSE Assigned(v),
         \/ slotLoad' = [slotLoad EXCEPT ![w] = @ - 1]
         \/ slotLoad' = [slotLoad EXCEPT ![w] = IF @ > 1 THEN @ - 1 ELSE 0]
  PROVE  SlotLoadCountsRooms'
<1>1. /\ slotLoad[w] = Cardinality(Assigned(w))
      /\ Cardinality(Assigned(w) \ {r}) = Cardinality(Assigned(w)) - 1
      /\ Cardinality(Assigned(w)) \in Nat
      /\ Cardinality(Assigned(w) \ {r}) \in Nat
  <2>1. IsFiniteSet(Assigned(w) \ {r})
    BY AssignedFinite, FS_Subset
  <2> QED
    BY <2>1, AssignedFinite, FS_RemoveElement, FS_CardinalityType DEF SlotLoadCountsRooms
<1>2. slotLoad[w] > 1 \/ slotLoad[w] = 1
  BY <1>1
<1>3. slotLoad'[w] = slotLoad[w] - 1 /\ \A v \in Worker : v # w => slotLoad'[v] = slotLoad[v]
  BY <1>2 DEF RouterInv, Types
<1> QED
  BY <1>1, <1>3 DEF SlotLoadCountsRooms

\* Every step of every handler keeps the counters equal to the rooms charged.
LEMMA StepCounts ==
  RouterInv /\ SlotLoadCountsRooms /\ [Next]_vars => SlotLoadCountsRooms'
<1> SUFFICES ASSUME RouterInv, SlotLoadCountsRooms, [Next]_vars
             PROVE  SlotLoadCountsRooms'
  OBVIOUS
<1> USE NoneAssumption
<1>1. ASSUME UNCHANGED <<slotLoad, slotByRoom>>,
             \A r \in Room : routerCreations'[r].slot = routerCreations[r].slot
      PROVE  SlotLoadCountsRooms'
  BY <1>1 DEF SlotLoadCountsRooms, Assigned
<1>2. ASSUME NEW s \in Socket, NEW r \in Room,
             JoinRequest(s, r) \/ JoinRefused(s, r) \/ JoinInFlight(s, r) \/ JoinExisting(s, r)
      PROVE  SlotLoadCountsRooms'
  BY <1>1, <1>2 DEF JoinRequest, JoinRefused, JoinInFlight, JoinExisting, routerVars
<1>3. ASSUME NEW s \in Socket, NEW r \in Room, JoinCreating(s, r)
      PROVE  SlotLoadCountsRooms'
  BY <1>3, ClaimCounts
<1>4. ASSUME NEW r \in Room, RouterCreated(r)
      PROVE  SlotLoadCountsRooms'
  <2>1. routerCreations[r].slot \in Worker /\ slotByRoom[r] = None
    BY <1>4 DEF RouterCreated, RouterInv, MapsAgree, CreationShape, NoCreation
  <2>2. \E k :
          /\ slotByRoom' = [slotByRoom EXCEPT ![r] = routerCreations[r].slot]
          /\ routerCreations' = [routerCreations EXCEPT ![r] =
                [phase |-> "observing", slot |-> None, router |-> k]]
          /\ UNCHANGED slotLoad
    BY <1>4 DEF RouterCreated
  <2>3. \A v \in Worker : Assigned(v)' = Assigned(v)
    BY <2>1, <2>2 DEF Assigned, RouterInv, Types
  <2> QED
    BY <2>2, <2>3 DEF SlotLoadCountsRooms
<1>5. ASSUME NEW r \in Room, RouterFailed(r)
      PROVE  SlotLoadCountsRooms'
  <2> DEFINE w == routerCreations[r].slot
  <2>1. w \in Worker /\ slotByRoom[r] = None
    BY <1>5 DEF RouterFailed, RouterInv, MapsAgree, CreationShape, NoCreation
  <2>2. r \in Assigned(w)
    BY DEF Assigned
  <2>3. \A v \in Worker : Assigned(v)' = IF v = w THEN Assigned(v) \ {r} ELSE Assigned(v)
    BY <1>5, <2>1 DEF RouterFailed, NoCreation, Assigned, RouterInv, Types
  <2>4. slotLoad' = [slotLoad EXCEPT ![w] = @ - 1]
    BY <1>5 DEF RouterFailed
  <2> HIDE DEF w
  <2> QED
    BY <2>1, <2>2, <2>3, <2>4, GiveBackCounts
<1>6. ASSUME NEW r \in Room, ObserverCreated(r) \/ ObserverFailed(r)
      PROVE  SlotLoadCountsRooms'
  <2>1. routerCreations[r].slot = None
    BY <1>6 DEF ObserverCreated, ObserverFailed, RouterInv, CreationShape, NoCreation
  <2> QED
    BY <1>1, <1>6, <2>1 DEF ObserverCreated, ObserverFailed, NoCreation, RouterInv, Types
<1>7. ASSUME NEW s \in Socket, LeaveRoom(s) \/ Disconnect(s)
      PROVE  SlotLoadCountsRooms'
  BY <1>1, <1>7 DEF LeaveRoom, Disconnect, routerVars
<1>8. ASSUME NEW r \in Room, CloseRoomIfEmpty(r)
      PROVE  SlotLoadCountsRooms'
  <2>1. CASE UNCHANGED routerVars
    BY <1>1, <2>1 DEF routerVars
  <2>2. CASE ~ UNCHANGED routerVars
    <3> DEFINE w == slotByRoom[r]
    <3>1. /\ routersByRoom[r] # None
          /\ slotByRoom' = [slotByRoom EXCEPT ![r] = None]
          /\ slotLoad' = [slotLoad EXCEPT ![w] = IF @ > 1 THEN @ - 1 ELSE 0]
          /\ UNCHANGED routerCreations
      BY <1>8, <2>2 DEF CloseRoomIfEmpty, ReleaseSlot, routerVars
    <3>2. w \in Worker /\ routerCreations[r].slot = None
      BY <3>1 DEF RouterInv, Types, MapsAgree, CreationShape, NoCreation
    <3>3. r \in Assigned(w)
      BY DEF Assigned
    <3>4. \A v \in Worker : Assigned(v)' = IF v = w THEN Assigned(v) \ {r} ELSE Assigned(v)
      BY <3>1, <3>2 DEF Assigned, RouterInv, Types
    <3> HIDE DEF w
    <3> QED
      BY <3>1, <3>2, <3>3, <3>4, GiveBackCounts
  <2> QED
    BY <2>1, <2>2
<1>9. CASE UNCHANGED vars
  BY <1>1, <1>9 DEF vars
<1> QED
  BY <1>2, <1>3, <1>4, <1>5, <1>6, <1>7, <1>8, <1>9 DEF Next, Admission, Answer

-----------------------------------------------------------------------------
(* The results *)

\* Nobody is charged for anything before the first join.
LEMMA InitCounts == Init => SlotLoadCountsRooms
<1> SUFFICES ASSUME Init PROVE SlotLoadCountsRooms
  OBVIOUS
<1>1. ASSUME NEW w \in Worker PROVE slotLoad[w] = Cardinality(Assigned(w))
  <2>1. Assigned(w) = {}
    BY NoneAssumption DEF Init, Assigned, NoCreation
  <2> QED
    BY <2>1, FS_EmptySet DEF Init
<1> QED
  BY <1>1 DEF SlotLoadCountsRooms

\* The inductive invariant: routersByRoom, slotByRoom, the creations in flight
\* and the peers stay consistent through every interleaving of the handlers.
THEOREM RouterInvariant == Spec => []RouterInv
<1>1. Init => RouterInv
  BY InitRouterInv
<1>2. RouterInv /\ [Next]_vars => RouterInv'
  BY StepRouterInv
<1> QED
  BY <1>1, <1>2, PTL DEF Spec

\* However joins, failed creations and releases interleave, a slot's counter is
\* the number of rooms assigned to that slot (IWorkerSlot.routers).
THEOREM LoadIsExact == Spec => []SlotLoadCountsRooms
<1>1. Init => SlotLoadCountsRooms
  BY InitCounts
<1>2. RouterInv /\ SlotLoadCountsRooms /\ [Next]_vars => SlotLoadCountsRooms'
  BY StepCounts
<1> QED
  BY <1>1, <1>2, RouterInvariant, PTL DEF Spec

\* Type correctness; that a load is never negative needs the exact count.
THEOREM TypeCorrect == Spec => []TypeOK
<1>1. RouterInv /\ SlotLoadCountsRooms => TypeOK
  <2> SUFFICES ASSUME RouterInv, SlotLoadCountsRooms PROVE TypeOK
    OBVIOUS
  <2>1. \A w \in Worker : slotLoad[w] \in Nat
    BY AssignedFinite DEF SlotLoadCountsRooms
  <2> QED
    BY <2>1 DEF RouterInv, Types, TypeOK
<1> QED
  BY <1>1, RouterInvariant, LoadIsExact, PTL

\* No router stays open in a worker without a routersByRoom entry through which
\* closeRoomIfEmpty can close it.
THEOREM NoRouterLeaks == Spec => []NoLeakedRouter
<1>1. RouterInv => NoLeakedRouter
  BY DEF RouterInv
<1> QED
  BY <1>1, RouterInvariant, PTL

\* createTransport takes a peer's ports from the slice of the worker that runs
\* the peer's router.
THEOREM PortsOfTheRightWorker == Spec => []OwnWorkersPorts
<1>1. RouterInv => OwnWorkersPorts
  <2> SUFFICES ASSUME RouterInv, NEW s \in Socket, peers[s] # NoPeer,
                      openOn[peers[s].router] # None
               PROVE  slotByRoom[peers[s].room] = openOn[peers[s].router]
    BY DEF OwnWorkersPorts
  <2>1. peers[s].router \in Router /\ None \notin Router
    BY NoneAssumption DEF RouterInv, RoutersStayHome
  <2>2. PICK r \in Room : routersByRoom[r] = peers[s].router
    BY <2>1 DEF RouterInv, NoLeakedRouter
  <2>3. r = peers[s].room
    BY <2>2 DEF RouterInv, RoutersStayHome
  <2> QED
    BY <2>1, <2>2, <2>3 DEF RouterInv, MapsAgree
<1> QED
  BY <1>1, RouterInvariant, PTL

\* closeRoomIfEmpty never closes a router under a registered peer, however long
\* the recording took to stop and whoever joined meanwhile.
THEOREM NoRouterClosedUnderPeer == Spec => RouterNotClosedUnderPeer
<1> DEFINE Kept == \A k \in Router : openOn[k] # None /\ openOn'[k] = None
                        => \A s \in Socket : peers[s].router # k
<1>1. RouterInv /\ [Next]_vars => [Kept]_vars
  <2> SUFFICES ASSUME RouterInv, Next, NEW k \in Router, openOn[k] # None,
                      openOn'[k] = None, NEW s \in Socket, peers[s].router = k
               PROVE  FALSE
    OBVIOUS
  <2>1. PICK r \in Room :
          /\ ~IsRoomOccupied(r)
          /\ openOn' = [openOn EXCEPT ![routersByRoom[r]] = None]
    <3>1. openOn' # openOn
      OBVIOUS
    <3>2. ASSUME NEW r \in Room PROVE ~RouterCreated(r)
      <4> SUFFICES ASSUME RouterCreated(r) PROVE FALSE
        OBVIOUS
      <4>1. routerCreations[r].slot \in Worker /\ None \notin Worker
        BY NoneAssumption DEF RouterCreated, RouterInv, CreationShape, NoCreation
      <4>2. \E j \in Router : openOn' = [openOn EXCEPT ![j] = routerCreations[r].slot]
        BY DEF RouterCreated
      <4> QED
        BY <4>1, <4>2 DEF RouterInv, Types
    <3>3. PICK r \in Room : CloseRoomIfEmpty(r)
      BY <3>1, <3>2
      DEF Next, Admission, Answer, JoinRequest, JoinRefused, JoinExisting, JoinInFlight,
          JoinCreating, RouterFailed, ObserverCreated, ObserverFailed, LeaveRoom,
          Disconnect, routerVars
    <3> QED
      BY <3>1, <3>3 DEF CloseRoomIfEmpty, routerVars
  <2>2. k = routersByRoom[r]
    BY <2>1 DEF RouterInv, Types
  <2>3. k # None
    BY NoneAssumption
  <2>4. peers[s].room = r
    BY <2>2, <2>3, NoneAssumption DEF RouterInv, Types, RoutersStayHome, NoPeer
  <2> QED
    BY <2>1, <2>4 DEF IsRoomOccupied, Members
<1>2. []RouterInv /\ [][Next]_vars => [][Kept]_vars
  BY <1>1, PTL
<1> QED
  BY <1>2, RouterInvariant, PTL DEF Spec, RouterNotClosedUnderPeer

-----------------------------------------------------------------------------
(* Refinement *)

\* Joiners who become peers of r enter it in the abstract rooms.
LEMMA EnterRefines ==
  ASSUME RouterInv, NEW r \in Room, NEW k, NEW S \in SUBSET Socket,
         EnterRoom(S, r, k), UNCHANGED slotByRoom
  PROVE  Hosting!Enter(S, r)
<1>1. ASSUME NEW q \in Room
      PROVE  Members(q)' = IF q = r THEN Members(q) \union S ELSE Members(q) \ S
  BY DEF Members, EnterRoom, RouterInv, Types
<1> QED
  BY <1>1 DEF Hosting!Enter

\* A peer that is closed exits, whether or not it was the last one.
LEMMA ClosePeerRefines ==
  ASSUME RouterInv, NEW s \in Socket, peers' = [peers EXCEPT ![s] = NoPeer],
         UNCHANGED slotByRoom
  PROVE  Hosting!Exit(s)
<1>1. ASSUME NEW q \in Room PROVE Members(q)' = Members(q) \ {s}
  BY NoneAssumption DEF Members, NoPeer, RouterInv, Types
<1> QED
  BY <1>1 DEF Hosting!Exit

\* Every step of the handlers is a step of RoomHosting or changes nothing there.
LEMMA StepRefines == RouterInv /\ [Next]_vars => [Hosting!Next]_(Hosting!hostingVars)
<1> SUFFICES ASSUME RouterInv, [Next]_vars
             PROVE  Hosting!Next \/ UNCHANGED Hosting!hostingVars
  OBVIOUS
<1>1. ASSUME UNCHANGED <<slotByRoom, peers>> PROVE UNCHANGED Hosting!hostingVars
  BY <1>1 DEF Hosting!hostingVars, Members
<1>2. ASSUME NEW s \in Socket, NEW r \in Room,
             JoinRequest(s, r) \/ JoinRefused(s, r) \/ JoinInFlight(s, r) \/ JoinCreating(s, r)
      PROVE  UNCHANGED Hosting!hostingVars
  BY <1>1, <1>2 DEF JoinRequest, JoinRefused, JoinInFlight, JoinCreating, routerVars
<1>3. ASSUME NEW s \in Socket, NEW r \in Room, JoinExisting(s, r)
      PROVE  Hosting!Next
  <2>1. EnterRoom({s}, r, routersByRoom[r]) /\ UNCHANGED slotByRoom
    BY <1>3 DEF JoinExisting, routerVars
  <2>2. Hosting!Enter({s}, r)
    BY <2>1, EnterRefines
  <2> QED
    BY <2>2 DEF Hosting!Next
<1>4. ASSUME NEW r \in Room, RouterCreated(r)
      PROVE  Hosting!Next
  <2> DEFINE w == routerCreations[r].slot
  <2>1. w \in Worker /\ slotByRoom[r] = None
    BY <1>4, NoneAssumption
    DEF RouterCreated, RouterInv, CreationShape, MapsAgree, NoCreation
  <2>2. slotByRoom' = [slotByRoom EXCEPT ![r] = w] /\ UNCHANGED peers
    BY <1>4 DEF RouterCreated
  <2> HIDE DEF w
  <2>3. Hosting!Host(r, w)
    BY <2>1, <2>2 DEF Hosting!Host, Members
  <2> QED
    BY <2>1, <2>3 DEF Hosting!Next
<1>5. ASSUME NEW r \in Room, RouterFailed(r) \/ ObserverFailed(r)
      PROVE  UNCHANGED Hosting!hostingVars
  BY <1>1, <1>5 DEF RouterFailed, ObserverFailed
<1>6. ASSUME NEW r \in Room, ObserverCreated(r)
      PROVE  Hosting!Next
  <2>1. EnterRoom(Waiting(r), r, routerCreations[r].router) /\ UNCHANGED slotByRoom
    BY <1>6 DEF ObserverCreated
  <2>2. Waiting(r) \in SUBSET Socket
    BY DEF Waiting
  <2>3. Hosting!Enter(Waiting(r), r)
    BY <2>1, <2>2, EnterRefines
  <2> QED
    BY <2>2, <2>3 DEF Hosting!Next
<1>7. ASSUME NEW s \in Socket, LeaveRoom(s) \/ Disconnect(s)
      PROVE  Hosting!Next \/ UNCHANGED Hosting!hostingVars
  <2>1. UNCHANGED slotByRoom
    BY <1>7 DEF LeaveRoom, Disconnect, routerVars
  <2>2. UNCHANGED peers \/ peers' = [peers EXCEPT ![s] = NoPeer]
    BY <1>7 DEF LeaveRoom, Disconnect, ClosePeer
  <2> QED
    BY <1>1, <2>1, <2>2, ClosePeerRefines DEF Hosting!Next
<1>8. ASSUME NEW r \in Room, CloseRoomIfEmpty(r)
      PROVE  Hosting!Next \/ UNCHANGED Hosting!hostingVars
  <2>1. CASE UNCHANGED routerVars
    BY <1>1, <1>8, <2>1 DEF CloseRoomIfEmpty, routerVars
  <2>2. CASE ~ UNCHANGED routerVars
    <3>1. /\ Members(r) = {}
          /\ slotByRoom' = [slotByRoom EXCEPT ![r] = None]
          /\ UNCHANGED peers
      BY <1>8, <2>2 DEF CloseRoomIfEmpty, ReleaseSlot, IsRoomOccupied, routerVars
    <3>2. Hosting!Release(r)
      BY <3>1 DEF Hosting!Release, Members
    <3> QED
      BY <3>2 DEF Hosting!Next
  <2> QED
    BY <2>1, <2>2
<1>9. CASE UNCHANGED vars
  BY <1>1, <1>9 DEF vars
<1> QED
  BY <1>2, <1>3, <1>4, <1>5, <1>6, <1>7, <1>8, <1>9 DEF Next, Admission, Answer

\* RoomService implements RoomHosting: a room is hosted by one worker until it
\* is released, and only a room without peers is released.
THEOREM HostingIsImplemented == Spec => ImplementsHosting
<1>1. Init => Hosting!Init
  BY NoneAssumption DEF Init, Hosting!Init, Members, NoPeer
<1>2. RouterInv /\ [Next]_vars => [Hosting!Next]_(Hosting!hostingVars)
  BY StepRefines
<1> QED
  BY <1>1, <1>2, RouterInvariant, PTL DEF Spec, ImplementsHosting, Hosting!Spec

=============================================================================
