---------------------------- MODULE RoomRecording ----------------------------
(***************************************************************************)
(* RoomService and RecordingService together, for one room: the last peer  *)
(* to leave stops the recording, and the router is released only when that *)
(* stop has settled (closePeer in room.service.ts).                        *)
(*                                                                         *)
(* RoomService alone assumes that every such stop settles, and that it may *)
(* take any time; here it is the stop of RecordingService.  A stop that    *)
(* finds nothing to stop is settled at once, and what runs when a promise  *)
(* settles runs before any other request is served.                        *)
(***************************************************************************)
EXTENDS Integers, FiniteSets

CONSTANTS
    Room, Socket, Worker, Router, None, MaxClosings,        \* see RoomService
    Producer, Owner, Source, Start, MaxAttempts, PortMin, PortMax,
                                            \* see RecordingService: owners are sockets
    Dropping                                \* bound: sockets whose connection may drop

ASSUME OneRoomAssumption == \E r \in Room : Room = {r}
ASSUME OwnerAssumption == Owner \in [Producer -> Socket]
ASSUME SourceAssumption == Source \in [Producer -> {"mic", "webcam", "screen"}]
ASSUME NoneAssumption ==
    /\ None \notin Room \union Router \union Producer \union Start
    /\ None \notin Worker
ASSUME BoundAssumption ==
    MaxAttempts \in Nat \ {0} /\ PortMin \in Nat /\ PortMax \in Nat
ASSUME DroppingAssumption == Dropping \subseteq Socket

VARIABLES
    connected, joins, peers, routersByRoom, slotByRoom, slotLoad,
    routerCreations, observers, openOn, closings,
    active, starts, stops, snapshot, live, announced, takes, sessions,
    attaching, usedPorts,
    entered,        \* sockets with a data.roomName: a leave does not clear it
    awaited,        \* the stops some closing of the room waits for
    late,           \* history: starts under way when the room became empty
    passed          \* history: states finalized past a leave that empties the room

roomVars == <<connected, joins, peers, routersByRoom, slotByRoom, slotLoad,
              routerCreations, observers, openOn, closings>>

recordingVars == <<active, starts, stops, snapshot, live, announced, takes,
                   sessions, attaching, usedPorts>>

vars == <<roomVars, recordingVars, entered, awaited, late, passed>>

Rooms == INSTANCE RoomService

Recording == INSTANCE RecordingService

TheRoom == CHOOSE r \in Room : TRUE

IsPeer(s) == peers[s] # Rooms!NoPeer

Init ==
    /\ Rooms!Init
    /\ Recording!Init
    /\ entered = {}
    /\ awaited = {}
    /\ late = {}
    /\ passed = {}

-----------------------------------------------------------------------------
(* closePeer *)

\* Some stop().finally(closeRoomIfEmpty) has settled and not yet run.
ReleaseDue == closings[TheRoom] > Cardinality(awaited)

Release ==
    /\ ReleaseDue
    /\ Rooms!CloseRoomIfEmpty(TheRoom)
    /\ UNCHANGED <<recordingVars, entered, awaited, late, passed>>

\* Mutant: the router is released in parallel with the stop.
StopsInParallel(S) == Recording!CloseLastPeer(S) /\ UNCHANGED awaited

\* Mutant: the last peer's producers close, and nothing else is stopped.
LeavesSessionActive(S) == Recording!CloseProducers(S) /\ UNCHANGED awaited

\* A stop that finds no state, since none is active, has nothing to wait for.
StopsWithLastPeer(S) ==
    /\ Recording!CloseLastPeer(S)
    /\ awaited' = awaited \union ({active} \ {None})

\* A leave waits for the stop of the active state only.  The release does not wait
\* for another state that is being stopped or finalized, and may come for an
\* earlier leave while the active one's stop goes on.
NotWaitedFor(st) ==
    IF st = active THEN closings[TheRoom] > 0
    ELSE \/ stops[st] \in {"renaming", "stopping"}
         \/ \E k \in DOMAIN takes, c \in Recording!Cause :
                k.start = st /\ takes[k].fin[c] \in Recording!Finalizing

ClosesProducers(s) ==
    IF Rooms!Members(TheRoom) = {s}
    THEN /\ StopsWithLastPeer(Recording!ProducersOf(s))
         /\ late' = late \union {st \in Start : starts[st] \in {"preparing", "launching"}}
         /\ passed' = passed \union {st \in Start : NotWaitedFor(st)}
    ELSE /\ \/ Recording!ClosePeer(s)
            \/ Recording!ProducersOf(s) = {} /\ UNCHANGED recordingVars
         /\ UNCHANGED <<awaited, late, passed>>

\* leave-room and disconnect, through cleanupPeer.
Leave(s) ==
    /\ Rooms!LeaveRoom(s) \/ (s \in Dropping /\ Rooms!Disconnect(s))
    /\ IF IsPeer(s) THEN ClosesProducers(s)
                    ELSE UNCHANGED <<recordingVars, awaited, late, passed>>
    /\ UNCHANGED entered

-----------------------------------------------------------------------------
(* The two services' own steps *)

\* A client joins again only once it has left.
Join(s) == ~IsPeer(s) /\ Rooms!JoinRequest(s, TheRoom)

Admitted(s) == Rooms!Admission(s, TheRoom)

\* Somebody is connected who is in the room, or has been and has left it.
MayAsk == connected \cap entered # {}

\* getRecordingSnapshot answers null for a room without a router.
StartRequested(st) ==
    /\ MayAsk
    /\ routersByRoom[TheRoom] # None
    /\ Recording!StartRequested(st)
    /\ late' = IF Rooms!Members(TheRoom) = {} THEN late \union {st} ELSE late
    /\ UNCHANGED <<roomVars, entered, awaited, passed>>

StopRequested(named) == MayAsk /\ Recording!StopRequested(named)

Produce(p) == IsPeer(Owner[p]) /\ Recording!Produce(p)

\* Whoever has become a peer has a data.roomName.
Enter ==
    /\ entered' = entered \union {s \in Socket : peers'[s] # Rooms!NoPeer}
    /\ UNCHANGED <<recordingVars, awaited, late, passed>>

JoinStep ==
    /\ \E s \in Socket : Join(s) \/ Admitted(s)
    /\ Enter

RoomAnswers == Rooms!Answer(TheRoom) /\ Enter

\* What a stop that finishes was waited for by is due now.
StartOrStopStep(st) ==
    /\ Recording!StartStep(st) \/ Recording!StopStep(st)
    /\ awaited' = {x \in awaited : stops'[x] # "stopped"}
    /\ UNCHANGED <<roomVars, entered, late, passed>>

TakeStep(k) ==
    /\ \/ Recording!TakeStep(k) \/ Recording!FfmpegExits(k)
       \/ \E c \in Recording!Cause : Recording!FinalizeStep(k, c)
    /\ UNCHANGED <<roomVars, entered, awaited, late, passed>>

ProducerStep ==
    /\ \/ \E named \in BOOLEAN : StopRequested(named)
       \/ \E p \in Producer :
            \/ Produce(p) \/ Recording!CloseProducer(p)
            \/ Recording!MicObserved(p) \/ Recording!MicNotObserved(p)
       \/ \E k \in Recording!TakeId, p \in Producer :
            Recording!WebcamAttached(k, p) \/ Recording!WebcamNotAttached(k, p)
    /\ UNCHANGED <<roomVars, entered, awaited, late, passed>>

Next ==
    \/ Release
    \/ /\ ~ReleaseDue
       /\ \/ JoinStep \/ RoomAnswers
          \/ ProducerStep
          \/ \E s \in Socket : Leave(s)
          \/ \E st \in Start : StartRequested(st) \/ StartOrStopStep(st)
          \/ \E k \in Recording!TakeId : TakeStep(k)

Spec == Init /\ [][Next]_vars

(* As for the two services.  The release is not assumed to happen: it is a   *)
(* continuation that runs before anything else once its stop has settled.   *)
(* The other conditions look past the moment in which a release is due,     *)
(* since that only defers the steps they are about.  The calls and takes of *)
(* a behaviour make finitely many steps, so that one condition covers them. *)
Fairness ==
    /\ WF_vars(Release)
    /\ WF_vars(RoomAnswers)
    /\ WF_vars(\/ \E st \in Start : StartOrStopStep(st)
               \/ \E k \in DOMAIN takes : TakeStep(k))

FairSpec == Spec /\ Fairness

-----------------------------------------------------------------------------
(* Properties *)

\* When a room empties its recording stops: nothing goes on recording a room that
\* nobody is in, unless its start was still creating the session row when the
\* last peer left, so that stop() found nothing to stop, or was requested after
\* that by a socket that had left and whose data.roomName remains.
RecordingStopsWithRoom ==
    (active # None /\ Rooms!Members(TheRoom) = {}) => active \in late

\* "Closing while stop() is still finalizing would cut the RTP mid-write": a
\* router is not closed under an ffmpeg that is being finalized, unless the leave
\* that emptied the room did not wait for that state - it was being stopped by a
\* stop-recording or finalized by a failed start already, or the stop of an
\* earlier last peer was still to release the room - or its start() was under way
\* then and failed afterwards.  closePeer, closeRoomIfEmpty.
RouterOutlivesFinalization ==
    [][(routersByRoom[TheRoom] # None /\ routersByRoom'[TheRoom] = None) =>
          \A k \in DOMAIN takes, c \in Recording!Cause :
              takes[k].fin[c] = "quitting" =>
                  k.start \in passed \/ (c = "abort" /\ k.start \in late)]_vars

\* The requests and the release settle because the stop they wait for does.
JoinSettles == Rooms!JoinSettles
EmptiedRoomReleased == Rooms!EmptiedRoomReleased
EveryStartSettles == Recording!EveryStartSettles
EveryStopSettles == Recording!EveryStopSettles
=============================================================================
