------------------------ MODULE RoomRecordingProofs ------------------------
(***************************************************************************)
(* Proofs about the room and its recording together, for any sockets,      *)
(* producers, calls of start(), ports and attempts.                        *)
(*                                                                         *)
(* Every step of RoomRecording is a step of each service or leaves it      *)
(* alone, so what was proved of each service holds here too.  On top of    *)
(* that come the two properties that only the composition has.             *)
(***************************************************************************)
EXTENDS RoomRecording, FiniteSetTheorems, TLAPS

\* The services with what is proved about them.
RS == INSTANCE RoomServiceProofs
RP == INSTANCE RecordingServiceProofs

\* What those proofs assume of the constants.
LEMMA RoomAssumptions == RS!NoneAssumption /\ RS!RoomAssumption
<1>1. IsFiniteSet(Room)
  BY OneRoomAssumption, FS_Singleton
<1>2. RS!RoomAssumption
  BY <1>1 DEF RS!RoomAssumption, IsFiniteSet, RS!IsFiniteSet
<1>3. RS!NoneAssumption
  BY NoneAssumption DEF RS!NoneAssumption
<1> QED
  BY <1>2, <1>3

LEMMA RecordingAssumptions ==
  RP!SourceAssumption /\ RP!NoneAssumption /\ RP!BoundAssumption
BY SourceAssumption, NoneAssumption, BoundAssumption
   DEF RP!SourceAssumption, RP!NoneAssumption, RP!BoundAssumption

LEMMA OneRoom == TheRoom \in Room /\ Room = {TheRoom}
BY OneRoomAssumption DEF TheRoom

-----------------------------------------------------------------------------
(* The room *)

\* A step of the composition is a step of RoomService or leaves its variables.
LEMMA RoomStep == [Next]_vars => [Rooms!Next]_roomVars
<1> SUFFICES ASSUME [Next]_vars PROVE [Rooms!Next]_roomVars
  OBVIOUS
<1>1. CASE UNCHANGED vars
  BY <1>1 DEF vars
<1>2. CASE Release
  BY <1>2, OneRoom DEF Release, Rooms!Next
<1>3. CASE JoinStep
  <2>1. PICK s \in Socket : Join(s) \/ Admitted(s)
    BY <1>3 DEF JoinStep
  <2> QED
    BY <2>1, OneRoom DEF Join, Admitted, Rooms!Next
<1>4. CASE RoomAnswers
  BY <1>4, OneRoom DEF RoomAnswers, Rooms!Next
<1>5. CASE ProducerStep
  BY <1>5 DEF ProducerStep
<1>6. ASSUME NEW s \in Socket, Leave(s) PROVE Rooms!Next
  BY <1>6 DEF Leave, Rooms!Next
<1>7. ASSUME NEW st \in Start, StartRequested(st) \/ StartOrStopStep(st)
      PROVE  UNCHANGED roomVars
  BY <1>7 DEF StartRequested, StartOrStopStep
<1>8. ASSUME NEW k \in Recording!TakeId, TakeStep(k) PROVE UNCHANGED roomVars
  BY <1>8 DEF TakeStep
<1> QED
  BY <1>1, <1>2, <1>3, <1>4, <1>5, <1>6, <1>7, <1>8 DEF Next

\* The recording does not disturb the rooms: with a real recording for the stop that
\* a release waits for, a room's peers, routers and slots still do what RoomService
\* says.
THEOREM RoomsAreImplemented == Spec => Rooms!Spec
<1>1. Init => Rooms!Init
  BY DEF Init
<1>2. [Next]_vars => [Rooms!Next]_(Rooms!vars)
  BY RoomStep DEF roomVars, Rooms!vars
<1> QED
  BY <1>1, <1>2, PTL DEF Spec, Rooms!Spec

\* RoomService and the RoomService of its proofs are one specification.
LEMMA SameRooms == Rooms!Spec => RS!Spec
<1>1. Rooms!Init => RS!Init
  BY DEF Rooms!Init, RS!Init, Rooms!NoPeer, RS!NoPeer, Rooms!NoCreation, RS!NoCreation
<1>2. [Rooms!Next]_(Rooms!vars) => [RS!Next]_(RS!vars)
  <2>1. Rooms!Next => RS!Next
    BY
    DEF Rooms!Next, RS!Next, Rooms!JoinRequest, RS!JoinRequest, Rooms!Admission,
        RS!Admission, Rooms!JoinRefused, RS!JoinRefused, Rooms!JoinExisting,
        RS!JoinExisting, Rooms!JoinInFlight, RS!JoinInFlight, Rooms!JoinCreating,
        RS!JoinCreating, Rooms!Answer, RS!Answer, Rooms!RouterCreated, RS!RouterCreated,
        Rooms!RouterFailed, RS!RouterFailed, Rooms!ObserverCreated, RS!ObserverCreated,
        Rooms!ObserverFailed, RS!ObserverFailed, Rooms!RejectWaiting, RS!RejectWaiting,
        Rooms!EnterRoom, RS!EnterRoom, Rooms!SetJoin, RS!SetJoin, Rooms!Waiting,
        RS!Waiting, Rooms!InUse, RS!InUse, Rooms!IsLeastLoaded, RS!IsLeastLoaded,
        Rooms!LeaveRoom, RS!LeaveRoom, Rooms!Disconnect, RS!Disconnect, Rooms!ClosePeer,
        RS!ClosePeer, Rooms!CloseRoomIfEmpty, RS!CloseRoomIfEmpty, Rooms!IsRoomOccupied,
        RS!IsRoomOccupied, Rooms!ReleaseSlot, RS!ReleaseSlot, Rooms!Members, RS!Members,
        Rooms!NoPeer, RS!NoPeer, Rooms!NoCreation, RS!NoCreation, Rooms!routerVars,
        RS!routerVars
  <2> QED
    BY <2>1 DEF Rooms!vars, RS!vars
<1> QED
  BY <1>1, <1>2, PTL DEF Rooms!Spec, RS!Spec

\* The types of the room's part.
LEMMA RoomTypes == Spec => []RS!RouterInv
<1>1. RS!Spec => []RS!RouterInv
  BY RoomAssumptions, RS!RouterInvariant
<1> QED
  BY <1>1, RoomsAreImplemented, SameRooms, PTL

-----------------------------------------------------------------------------
(* Peers and their producers *)

\* The only room there is is the one a peer is in.
LEMMA PeersAtHome ==
  ASSUME RS!RouterInv
  PROVE  /\ \A s \in Socket : IsPeer(s) => peers[s].room = TheRoom
         /\ Rooms!Members(TheRoom) = {s \in Socket : IsPeer(s)}
<1>1. \A s \in Socket : IsPeer(s) => peers[s].room = TheRoom
  BY OneRoom DEF RS!RouterInv, RS!RoutersStayHome, IsPeer, Rooms!NoPeer, RS!NoPeer
<1>2. \A s \in Socket : peers[s].room = TheRoom => IsPeer(s)
  BY OneRoom, NoneAssumption DEF IsPeer, Rooms!NoPeer
<1> QED
  BY <1>1, <1>2 DEF Rooms!Members

\* Whoever joins becomes a peer and nobody stops being one.
Stays(s) == (IsPeer(s) => IsPeer(s)') /\ (peers[s].room = TheRoom => peers'[s].room = TheRoom)

LEMMA JoinersStay ==
  ASSUME JoinStep \/ RoomAnswers
  PROVE  \A s \in Socket : Stays(s)
<1>1. ASSUME NEW S, NEW r \in Room, NEW k, Rooms!EnterRoom(S, r, k)
      PROVE  \A s \in Socket : Stays(s)
  <2>1. r # None /\ r = TheRoom
    BY OneRoom, NoneAssumption
  <2> QED
    BY <1>1, <2>1 DEF Rooms!EnterRoom, Stays, IsPeer, Rooms!NoPeer
<1>2. ASSUME UNCHANGED peers
      PROVE  \A s \in Socket : Stays(s)
  BY <1>2 DEF Stays, IsPeer
<1>3. CASE JoinStep
  <2>1. PICK s \in Socket : Join(s) \/ Admitted(s)
    BY <1>3 DEF JoinStep
  <2>2. CASE Rooms!JoinExisting(s, TheRoom)
    BY <1>1, <2>2, OneRoom DEF Rooms!JoinExisting
  <2>3. CASE UNCHANGED peers
    BY <1>2, <2>3
  <2> QED
    BY <2>1, <2>2, <2>3 DEF Join, Admitted, Rooms!JoinRequest, Rooms!Admission,
       Rooms!JoinRefused, Rooms!JoinInFlight, Rooms!JoinCreating
<1>4. CASE RoomAnswers
  <2>1. CASE Rooms!ObserverCreated(TheRoom)
    BY <1>1, <2>1, OneRoom DEF Rooms!ObserverCreated
  <2>2. CASE UNCHANGED peers
    BY <1>2, <2>2
  <2> QED
    BY <1>4, <2>1, <2>2 DEF RoomAnswers, Rooms!Answer, Rooms!RouterCreated,
       Rooms!RouterFailed, Rooms!ObserverFailed
<1> QED
  BY <1>3, <1>4

\* A leave takes one peer away, or a socket that is none goes.
LEMMA LeaverGoes ==
  ASSUME RS!RouterInv, NEW s \in Socket, Leave(s)
  PROVE  /\ \A t \in Socket \ {s} : IsPeer(t)' <=> IsPeer(t)
         /\ IsPeer(s)' => FALSE
         /\ closings' = IF Rooms!Members(TheRoom) = {s}
                        THEN [closings EXCEPT ![TheRoom] = @ + 1] ELSE closings
         /\ UNCHANGED routersByRoom
<1>1. UNCHANGED routersByRoom
  BY DEF Leave, Rooms!LeaveRoom, Rooms!Disconnect, Rooms!routerVars
<1>2. CASE IsPeer(s)
  <2>1. Rooms!ClosePeer(s) /\ peers[s].room = TheRoom
    BY <1>2, PeersAtHome DEF Leave, Rooms!LeaveRoom, Rooms!Disconnect, IsPeer
  <2>2. peers' = [peers EXCEPT ![s] = Rooms!NoPeer]
    BY <2>1 DEF Rooms!ClosePeer
  <2>3. peers' \in [Socket -> [room : Room \union {None}, router : Router \union {None}]]
    BY <2>2 DEF RS!RouterInv, RS!Types, Rooms!NoPeer
  <2> QED
    BY <1>1, <2>1, <2>2 DEF Rooms!ClosePeer, IsPeer, RS!RouterInv, RS!Types
<1>3. CASE ~IsPeer(s)
  <2>1. UNCHANGED <<peers, closings>>
    BY <1>3 DEF Leave, Rooms!LeaveRoom, Rooms!Disconnect, IsPeer
  <2>2. Rooms!Members(TheRoom) # {s}
    BY <1>3, PeersAtHome
  <2> QED
    BY <1>1, <1>3, <2>1, <2>2 DEF IsPeer
<1> QED
  BY <1>2, <1>3

\* Only peers have producers.
OnlyPeersProduce == live \subseteq {p \in Producer : IsPeer(Owner[p])}


\* A producer is created for a peer, and a leave takes its producers along.
LEMMA LiveProducers == Spec => []OnlyPeersProduce
<1>1. Init => OnlyPeersProduce
  BY DEF Init, Recording!Init, OnlyPeersProduce
<1>2. ASSUME RS!RouterInv, OnlyPeersProduce, [Next]_vars PROVE OnlyPeersProduce'
  <2>1. ASSUME UNCHANGED peers, live' \subseteq live PROVE OnlyPeersProduce'
    BY <1>2, <2>1 DEF OnlyPeersProduce, IsPeer
  <2>2. CASE UNCHANGED vars
    BY <2>1, <2>2 DEF vars, roomVars, recordingVars
  <2>3. CASE Release
    BY <2>1, <2>3 DEF Release, Rooms!CloseRoomIfEmpty, Rooms!ReleaseSlot, recordingVars
  <2>4. CASE JoinStep \/ RoomAnswers
    <3>1. live' = live
      BY <2>4 DEF JoinStep, RoomAnswers, Enter, recordingVars
    <3>2. \A s \in Socket : IsPeer(s) => IsPeer(s)'
      BY <2>4, JoinersStay DEF Stays
    <3> QED
      BY <1>2, <3>1, <3>2, OwnerAssumption DEF OnlyPeersProduce
  <2>5. CASE ProducerStep
    <3>1. UNCHANGED peers
      BY <2>5 DEF ProducerStep, roomVars
    <3>2. CASE \E p \in Producer : Produce(p)
      BY <1>2, <3>1, <3>2 DEF Produce, Recording!Produce, OnlyPeersProduce, IsPeer
    <3>3. CASE \E p \in Producer : Recording!CloseProducer(p)
      BY <2>1, <3>1, <3>3 DEF Recording!CloseProducer, Recording!CloseProducers
    <3>4. CASE \E named \in BOOLEAN : StopRequested(named)
      BY <2>1, <3>1, <3>4 DEF StopRequested, Recording!StopRequested,
         Recording!producerVars
    <3>5. CASE \E p \in Producer : Recording!MicObserved(p) \/ Recording!MicNotObserved(p)
      BY <2>1, <3>1, <3>5 DEF Recording!MicObserved, Recording!MicNotObserved
    <3>6. CASE \E k \in Recording!TakeId, p \in Producer :
                 Recording!WebcamAttached(k, p) \/ Recording!WebcamNotAttached(k, p)
      BY <2>1, <3>1, <3>6 DEF Recording!WebcamAttached, Recording!WebcamNotAttached,
         Recording!producerVars
    <3> QED
      BY <2>5, <3>2, <3>3, <3>4, <3>5, <3>6 DEF ProducerStep
  <2>6. ASSUME NEW s \in Socket, Leave(s) PROVE OnlyPeersProduce'
    <3>1. \A t \in Socket \ {s} : IsPeer(t)' <=> IsPeer(t)
      BY <1>2, <2>6, LeaverGoes
    <3>2. live' = live \ Recording!ProducersOf(s)
      <4>1. CASE IsPeer(s)
        BY <2>6, <4>1 DEF Leave, ClosesProducers, StopsWithLastPeer,
           Recording!CloseLastPeer, Recording!CloseProducers, Recording!ClosePeer,
           recordingVars
      <4>2. CASE ~IsPeer(s)
        <5>1. Recording!ProducersOf(s) = {}
          BY <1>2, <4>2 DEF OnlyPeersProduce, Recording!ProducersOf
        <5> QED
          BY <2>6, <4>2, <5>1 DEF Leave, recordingVars
      <4> QED
        BY <4>1, <4>2
    <3> QED
      BY <1>2, <3>1, <3>2, OwnerAssumption DEF OnlyPeersProduce, Recording!ProducersOf
  <2>7. ASSUME NEW st \in Start, StartRequested(st) \/ StartOrStopStep(st)
        PROVE  OnlyPeersProduce'
    BY <2>1, <2>7 DEF StartRequested, StartOrStopStep, Recording!StartRequested,
       Recording!StartStep, Recording!StopStep, Recording!SessionNotCreated,
       Recording!SessionCreated, Recording!StartSucceeds, Recording!StartAborts,
       Recording!StartFails, Recording!Renamed, Recording!StopFinishes,
       Recording!producerVars, roomVars
  <2>8. ASSUME NEW k \in Recording!TakeId, TakeStep(k) PROVE OnlyPeersProduce'
    BY <2>1, <2>8 DEF TakeStep, Recording!TakeStep, Recording!FfmpegExits,
       Recording!FinalizeStep, Recording!TransportCreated, Recording!TransportFailed,
       Recording!Launched, Recording!AttemptFailed, Recording!ProducerGone,
       Recording!Verified, Recording!Persisted, Recording!RemuxSucceeds,
       Recording!RemuxFails, Recording!NothingToRemux, Recording!Store,
       Recording!producerVars, roomVars
  <2> QED
    BY <1>2, <2>2, <2>3, <2>4, <2>5, <2>6, <2>7, <2>8 DEF Next
<1> QED
  BY <1>1, <1>2, RoomTypes, PTL DEF Spec

-----------------------------------------------------------------------------
(* The recording *)

\* A leave of the last peer is RecordingService's; so is that of any other peer
\* that produces anything.
LEMMA LeaveStep ==
  ASSUME RS!RouterInv, OnlyPeersProduce, NEW s \in Socket, Leave(s)
  PROVE  Recording!Next \/ UNCHANGED recordingVars
<1>1. CASE ~IsPeer(s)
  BY <1>1 DEF Leave
<1>2. CASE IsPeer(s) /\ Rooms!Members(TheRoom) = {s}
  <2>1. \A p \in live : Owner[p] = s
    BY <1>2, PeersAtHome, OwnerAssumption DEF OnlyPeersProduce
  <2>2. Recording!ProducersOf(s) = live
    BY <2>1 DEF Recording!ProducersOf
  <2> QED
    BY <1>2, <2>1, <2>2 DEF Leave, ClosesProducers, StopsWithLastPeer,
       Recording!LastPeerLeaves, Recording!Next
<1>3. CASE IsPeer(s) /\ Rooms!Members(TheRoom) # {s} /\ Recording!ClosePeer(s)
  <2>1. s \in Recording!Peer
    BY <1>3 DEF Recording!ClosePeer, Recording!ProducersOf, Recording!Peer,
       OnlyPeersProduce
  <2> QED
    BY <1>3, <2>1 DEF Recording!Next
<1> QED
  BY <1>1, <1>2, <1>3 DEF Leave, ClosesProducers

\* A step of the composition is a step of RecordingService or leaves its variables.
LEMMA RecordingStep ==
  ASSUME RS!RouterInv, OnlyPeersProduce, [Next]_vars
  PROVE  [Recording!Next]_recordingVars
<1>1. CASE UNCHANGED vars
  BY <1>1 DEF vars
<1>2. CASE Release \/ JoinStep \/ RoomAnswers
  BY <1>2 DEF Release, JoinStep, RoomAnswers, Enter
<1>3. CASE ProducerStep
  BY <1>3 DEF ProducerStep, StopRequested, Produce, Recording!Next
<1>4. ASSUME NEW s \in Socket, Leave(s) PROVE [Recording!Next]_recordingVars
  BY <1>4, LeaveStep
<1>5. ASSUME NEW st \in Start, StartRequested(st) \/ StartOrStopStep(st)
      PROVE  Recording!Next
  BY <1>5 DEF StartRequested, StartOrStopStep, Recording!Next
<1>6. ASSUME NEW k \in Recording!TakeId, TakeStep(k) PROVE Recording!Next
  BY <1>6 DEF TakeStep, Recording!Next
<1> QED
  BY <1>1, <1>2, <1>3, <1>4, <1>5, <1>6 DEF Next

\* The room does not ask more of its recording than RecordingService allows: its
\* peers' producers, their leaves and the stop with the last one are all among the
\* steps that service was checked and proved for.
THEOREM RecordingIsImplemented == Spec => Recording!Spec
<1>1. Init => Recording!Init
  BY DEF Init
<1>2. RS!RouterInv /\ OnlyPeersProduce /\ [Next]_vars
        => [Recording!Next]_(Recording!vars)
  <2>1. [Recording!Next]_recordingVars => [Recording!Next]_(Recording!vars)
    BY DEF recordingVars, Recording!vars
  <2> QED
    BY <2>1, RecordingStep
<1> QED
  BY <1>1, <1>2, RoomTypes, LiveProducers, PTL DEF Spec, Recording!Spec

\* RecordingService and that of its proofs are one specification: what follows
\* expands both, group by group.
LEMMA SameCalls ==
  ASSUME NEW st, \/ Recording!StartRequested(st)
                 \/ Recording!StartStep(st) \/ Recording!StopStep(st)
  PROVE  RP!StartRequested(st) \/ RP!StartStep(st) \/ RP!StopStep(st)
BY
DEF Recording!StartStep, RP!StartStep, Recording!StopStep, RP!StopStep,
    Recording!StartRequested, RP!StartRequested, Recording!SessionNotCreated,
    RP!SessionNotCreated, Recording!SessionCreated, RP!SessionCreated,
    Recording!StartSucceeds, RP!StartSucceeds, Recording!StartAborts, RP!StartAborts,
    Recording!StartFails, RP!StartFails, Recording!Renamed, RP!Renamed,
    Recording!StopFinishes, RP!StopFinishes, Recording!InitialTakes, RP!InitialTakes,
    Recording!PairedPeers, RP!PairedPeers, Recording!FirstOf, RP!FirstOf,
    Recording!Launch, RP!Launch, Recording!NewTake, RP!NewTake, Recording!Cause,
    RP!Cause, Recording!Tasks, RP!Tasks, Recording!TakesOf, RP!TakesOf,
    Recording!Settled, RP!Settled, Recording!Succeeded, RP!Succeeded,
    Recording!FinalizeAll, RP!FinalizeAll, Recording!BeginFinalize, RP!BeginFinalize,
    Recording!AfterExit, RP!AfterExit, Recording!PortsPastExit, RP!PortsPastExit,
    Recording!TornDown, RP!TornDown, Recording!Finalizing, RP!Finalizing,
    Recording!producerVars, RP!producerVars

LEMMA SamePorts ==
  ASSUME NEW k, Recording!TransportCreated(k)
  PROVE  RP!TransportCreated(k)
<1>1. \A S : Recording!Cardinality(S) = RP!Cardinality(S)
  BY
  DEF Recording!Cardinality, RP!Cardinality
<1>2. Recording!FreePorts = RP!FreePorts
  BY
  DEF Recording!FreePorts, RP!FreePorts
<1>3. \A n, P : Recording!Lowest(n, P) = RP!Lowest(n, P)
  BY <1>1
  DEF Recording!Lowest, RP!Lowest
<1>4. Recording!PortsNeeded(k) = RP!PortsNeeded(k)
  BY
  DEF Recording!PortsNeeded, RP!PortsNeeded, Recording!IsCombined, RP!IsCombined
<1> QED
  BY <1>1, <1>2, <1>3, <1>4
  DEF Recording!TransportCreated, RP!TransportCreated, Recording!At, RP!At,
      Recording!SetTake, RP!SetTake, Recording!callVars, RP!callVars,
      Recording!producerVars, RP!producerVars

LEMMA SameTakeStep ==
  ASSUME NEW k, Recording!TakeStep(k)
  PROVE  RP!TakeStep(k)
<1>1. CASE Recording!TransportCreated(k)
  BY <1>1, SamePorts DEF RP!TakeStep
<1>2. Recording!TransportFailed(k) => RP!TransportFailed(k)
  BY
  DEF Recording!TransportFailed, RP!TransportFailed, Recording!At, RP!At,
      Recording!SetTake, RP!SetTake, Recording!callVars, RP!callVars,
      Recording!producerVars, RP!producerVars
<1>3. Recording!Launched(k) => RP!Launched(k)
  BY
  DEF Recording!Launched, RP!Launched, Recording!At, RP!At, Recording!SetTake,
      RP!SetTake, Recording!Producers, RP!Producers, Recording!callVars, RP!callVars,
      Recording!producerVars, RP!producerVars
<1>4. Recording!Verified(k) => RP!Verified(k)
  BY
  DEF Recording!Verified, RP!Verified, Recording!At, RP!At, Recording!SetTake,
      RP!SetTake, Recording!callVars, RP!callVars, Recording!producerVars,
      RP!producerVars
<1>5. Recording!AttemptFailed(k) => RP!AttemptFailed(k)
  BY
  DEF Recording!AttemptFailed, RP!AttemptFailed, Recording!At, RP!At, Recording!SetTake,
      RP!SetTake, Recording!Released, RP!Released, Recording!callVars, RP!callVars,
      Recording!producerVars, RP!producerVars
<1>6. Recording!ProducerGone(k) => RP!ProducerGone(k)
  BY
  DEF Recording!ProducerGone, RP!ProducerGone, Recording!At, RP!At, Recording!SetTake,
      RP!SetTake, Recording!Released, RP!Released, Recording!callVars, RP!callVars,
      Recording!producerVars, RP!producerVars, Recording!Watched, RP!Watched,
      Recording!IsCombined, RP!IsCombined
<1>7. Recording!Persisted(k) => RP!Persisted(k)
  BY
  DEF Recording!Persisted, RP!Persisted, Recording!At, RP!At, Recording!SetTake,
      RP!SetTake, Recording!callVars, RP!callVars, Recording!producerVars,
      RP!producerVars, Recording!SameKey, RP!SameKey, Recording!IsCombined,
      RP!IsCombined
<1> QED
  BY <1>1, <1>2, <1>3, <1>4, <1>5, <1>6, <1>7 DEF Recording!TakeStep, RP!TakeStep

LEMMA SameEnding ==
  ASSUME NEW k
  PROVE  /\ Recording!FfmpegExits(k) => RP!FfmpegExits(k)
         /\ \A c : Recording!FinalizeStep(k, c) => RP!FinalizeStep(k, c)
<1>1. Recording!FfmpegExits(k) => RP!FfmpegExits(k)
  BY
  DEF Recording!FfmpegExits, RP!FfmpegExits, Recording!AtFin, RP!AtFin,
      Recording!SetTake, RP!SetTake, Recording!AfterExit, RP!AfterExit, Recording!Cause,
      RP!Cause, Recording!callVars, RP!callVars, Recording!producerVars, RP!producerVars
<1>2. \A c : Recording!FinalizeStep(k, c) => RP!FinalizeStep(k, c)
  BY
  DEF Recording!FinalizeStep, RP!FinalizeStep, Recording!RemuxSucceeds,
      RP!RemuxSucceeds, Recording!RemuxFails, RP!RemuxFails, Recording!NothingToRemux,
      RP!NothingToRemux, Recording!AtFin, RP!AtFin, Recording!Store, RP!Store,
      Recording!SetTake, RP!SetTake, Recording!callVars, RP!callVars,
      Recording!producerVars, RP!producerVars
<1> QED
  BY <1>1, <1>2

LEMMA SameProducing ==
  ASSUME NEW p, \/ Recording!Produce(p) \/ Recording!MicObserved(p)
                \/ Recording!MicNotObserved(p)
  PROVE  RP!Produce(p) \/ RP!MicObserved(p) \/ RP!MicNotObserved(p)
BY
DEF Recording!Produce, RP!Produce, Recording!MicObserved, RP!MicObserved,
    Recording!MicNotObserved, RP!MicNotObserved, Recording!NotifyProducerCreated,
    RP!NotifyProducerCreated, Recording!SoloWebcams, RP!SoloWebcams,
    Recording!DetachedCameras, RP!DetachedCameras, Recording!PeersSessions,
    RP!PeersSessions, Recording!IsCombined, RP!IsCombined, Recording!UpgradeToCombined,
    RP!UpgradeToCombined, Recording!AttachWebcam, RP!AttachWebcam,
    Recording!NotifiedTake, RP!NotifiedTake, Recording!Launch, RP!Launch,
    Recording!NewTake, RP!NewTake, Recording!Cause, RP!Cause, Recording!BeginFinalize,
    RP!BeginFinalize, Recording!AfterExit, RP!AfterExit, Recording!PortsPastExit,
    RP!PortsPastExit, Recording!callVars, RP!callVars

LEMMA SameAttaching ==
  ASSUME NEW k, NEW p, Recording!WebcamAttached(k, p) \/ Recording!WebcamNotAttached(k, p)
  PROVE  RP!WebcamAttached(k, p) \/ RP!WebcamNotAttached(k, p)
BY
DEF Recording!WebcamAttached, RP!WebcamAttached, Recording!WebcamNotAttached,
    RP!WebcamNotAttached, Recording!SetTake, RP!SetTake, Recording!callVars,
    RP!callVars, Recording!producerVars, RP!producerVars

LEMMA SameClosing ==
  ASSUME NEW S
  PROVE  /\ Recording!CloseProducers(S) => RP!CloseProducers(S)
         /\ Recording!CloseLastPeer(S) => RP!CloseLastPeer(S)
<1>1. Recording!CloseProducers(S) => RP!CloseProducers(S)
  BY
  DEF Recording!CloseProducers, RP!CloseProducers, Recording!NotifyProducersClosing,
      RP!NotifyProducersClosing, Recording!EndedBy, RP!EndedBy, Recording!Detach,
      RP!Detach, Recording!IsCombined, RP!IsCombined, Recording!BeginFinalize,
      RP!BeginFinalize, Recording!AfterExit, RP!AfterExit, Recording!PortsPastExit,
      RP!PortsPastExit, Recording!callVars, RP!callVars
<1>2. Recording!CloseLastPeer(S) => RP!CloseLastPeer(S)
  BY <1>1
  DEF Recording!CloseLastPeer, RP!CloseLastPeer, Recording!EndedBy, RP!EndedBy,
      Recording!Detach, RP!Detach, Recording!IsCombined, RP!IsCombined,
      Recording!BeginFinalize, RP!BeginFinalize, Recording!AfterExit, RP!AfterExit,
      Recording!PortsPastExit, RP!PortsPastExit
<1> QED
  BY <1>1, <1>2

LEMMA SameStop ==
  ASSUME NEW named, Recording!StopRequested(named)
  PROVE  RP!StopRequested(named)
BY
DEF Recording!StopRequested, RP!StopRequested, Recording!FinalizeAll, RP!FinalizeAll,
    Recording!BeginFinalize, RP!BeginFinalize, Recording!AfterExit, RP!AfterExit,
    Recording!PortsPastExit, RP!PortsPastExit, Recording!producerVars, RP!producerVars

LEMMA SameRecording == Recording!Spec => RP!Spec
<1>1. Recording!Init => RP!Init
  BY
  DEF Recording!Init, RP!Init
<1>2. [Recording!Next]_(Recording!vars) => [RP!Next]_(RP!vars)
  <2>1. /\ Recording!TakeId = RP!TakeId /\ Recording!Cause = RP!Cause
        /\ Recording!Peer = RP!Peer
    BY
    DEF Recording!TakeId, RP!TakeId, Recording!Cause, RP!Cause, Recording!Peer, RP!Peer
  <2>2. \A p : Recording!CloseProducer(p) => RP!CloseProducer(p)
    BY SameClosing
    DEF Recording!CloseProducer, RP!CloseProducer
  <2>3. \A o : Recording!ClosePeer(o) => RP!ClosePeer(o)
    BY SameClosing
    DEF Recording!ClosePeer, RP!ClosePeer, Recording!ProducersOf, RP!ProducersOf
  <2>4. Recording!LastPeerLeaves => RP!LastPeerLeaves
    BY SameClosing
    DEF Recording!LastPeerLeaves, RP!LastPeerLeaves
  <2>5. ASSUME Recording!Next PROVE RP!Next
    <3>1. CASE \E st \in Start : \/ Recording!StartRequested(st)
                                 \/ Recording!StartStep(st) \/ Recording!StopStep(st)
      BY <3>1, SameCalls DEF RP!Next
    <3>2. CASE \E named \in BOOLEAN : Recording!StopRequested(named)
      BY <3>2, SameStop DEF RP!Next
    <3>3. CASE \E p \in Producer :
                 \/ Recording!Produce(p) \/ Recording!MicObserved(p)
                 \/ Recording!MicNotObserved(p) \/ Recording!CloseProducer(p)
      <4>1. PICK p \in Producer :
                 \/ Recording!Produce(p) \/ Recording!MicObserved(p)
                 \/ Recording!MicNotObserved(p) \/ Recording!CloseProducer(p)
        BY <3>3
      <4>2. CASE Recording!CloseProducer(p)
        BY <2>2, <4>2 DEF RP!Next
      <4>3. CASE ~Recording!CloseProducer(p)
        <5>1. RP!Produce(p) \/ RP!MicObserved(p) \/ RP!MicNotObserved(p)
          BY <4>1, <4>3, SameProducing
        <5> QED
          BY <5>1 DEF RP!Next
      <4> QED
        BY <4>2, <4>3
    <3>4. CASE \E o \in Recording!Peer : Recording!ClosePeer(o)
      BY <2>1, <2>3, <3>4 DEF RP!Next
    <3>5. CASE Recording!LastPeerLeaves
      BY <2>4, <3>5 DEF RP!Next
    <3>6. CASE \E k \in Recording!TakeId, p \in Producer :
                 Recording!WebcamAttached(k, p) \/ Recording!WebcamNotAttached(k, p)
      <4>1. PICK k \in RP!TakeId, p \in Producer :
                 Recording!WebcamAttached(k, p) \/ Recording!WebcamNotAttached(k, p)
        BY <2>1, <3>6
      <4>2. RP!WebcamAttached(k, p) \/ RP!WebcamNotAttached(k, p)
        BY <4>1, SameAttaching
      <4> QED
        BY <4>2 DEF RP!Next
    <3>7. CASE \E k \in Recording!TakeId : Recording!TakeStep(k) \/ Recording!FfmpegExits(k)
      BY <2>1, <3>7, SameTakeStep, SameEnding DEF RP!Next
    <3>8. CASE \E k \in Recording!TakeId, c \in Recording!Cause :
                 Recording!FinalizeStep(k, c)
      BY <2>1, <3>8, SameEnding DEF RP!Next
    <3> QED
      BY <2>5, <3>1, <3>2, <3>3, <3>4, <3>5, <3>6, <3>7, <3>8 DEF Recording!Next
  <2> QED
    BY <2>5 DEF Recording!vars, RP!vars
<1> QED
  BY <1>1, <1>2, PTL DEF Recording!Spec, RP!Spec

\* What is proved of RecordingService.
LEMMA RecordingInvariant == Spec => []RP!IInv
<1>1. RP!Spec => []RP!IInv
  BY RecordingAssumptions, RP!Invariant
<1> QED
  BY <1>1, RecordingIsImplemented, SameRecording, PTL

\* As much of it as is needed below.
RecordingState ==
    /\ active \in Start \union {None}
    /\ active # None => stops[active] = "none" /\ starts[active] \in {"launching", "started"}
    /\ starts \in [Start -> {"idle", "preparing", "launching", "started", "aborting",
                             "failed"}]
    /\ stops \in [Start -> {"none", "renaming", "stopping", "stopped"}]
    /\ \A st \in Start : starts[st] = "preparing" => stops[st] = "none"
    /\ sessions \in [Start -> SUBSET DOMAIN takes]
    /\ \A st \in Start : \A k \in sessions[st] : k.start = st
    /\ DOMAIN takes \subseteq Recording!TakeId
    /\ attaching \subseteq (DOMAIN takes) \X Producer
    /\ \A k \in DOMAIN takes :
        /\ k.start \in Start /\ starts[k.start] \notin {"idle", "preparing"}
        /\ takes[k] \in Recording!Take
        /\ takes[k].fin["abort"] # "none" => starts[k.start] \in {"aborting", "failed"}

LEMMA RecordingStates == Spec => []RecordingState
<1>1. ASSUME RP!IInv PROVE RecordingState
  <2>1. RP!TypeOK /\ RP!Calls /\ RP!Links
    BY <1>1 DEF RP!IInv
  <2>2. Recording!TakeId = RP!TakeId /\ Recording!Take = RP!Take
    BY DEF Recording!TakeId, RP!TakeId, Recording!IsCombined, RP!IsCombined, Recording!Take,
       RP!Take, Recording!TakePhase, RP!TakePhase, Recording!Cause, RP!Cause,
       Recording!FinPhase, RP!FinPhase
  <2>3. ASSUME NEW k \in DOMAIN takes
        PROVE  /\ k.start \in Start /\ starts[k.start] \notin {"idle", "preparing"}
               /\ takes[k] \in Recording!Take
               /\ takes[k].fin["abort"] # "none" => starts[k.start] \in {"aborting", "failed"}
    <3>1. takes[k] \in Recording!Take /\ k \in RP!TakeId
      BY <2>1, <2>2, <2>3 DEF RP!TypeOK
    <3>2. k.start \in Start
      BY <3>1 DEF RP!TakeId
    <3>3. RP!Linked(k, takes[k], sessions[k.start], starts[k.start], stops[k.start],
                    DOMAIN takes)
      BY <2>1, <2>3 DEF RP!Links
    <3> QED
      BY <3>1, <3>2, <3>3 DEF RP!Linked
  <2> QED
    <3>1. attaching \subseteq (DOMAIN takes) \X Producer
      BY <2>1 DEF RP!TypeOK
    <3>2. DOMAIN takes \subseteq Recording!TakeId /\ sessions \in [Start -> SUBSET DOMAIN takes]
      BY <2>1, <2>2 DEF RP!TypeOK
    <3> QED
      BY <2>1, <2>3, <3>1, <3>2 DEF RecordingState, RP!TypeOK, RP!Calls
<1> QED
  BY <1>1, RecordingInvariant, PTL

-----------------------------------------------------------------------------
(* The invariant of the two together *)

Empty == Rooms!Members(TheRoom) = {}

\* Nothing of st's is recording or ever was: its takes have no process.
OffAir(st) ==
    /\ sessions[st] = {}
    /\ \A k \in DOMAIN takes :
        k.start = st => takes[k].phase \in {"transport", "launching", "failed", "starved"}

\* In an empty room the active state, and every start() that may become it or
\* fail, was under way when the room became empty.
StartsKnown ==
    Empty => /\ active # None => active \in late
             /\ \A st \in Start : starts[st] \in {"preparing", "launching"} => st \in late

\* In an empty room nothing goes on the air, so that a stop from now on has nothing
\* to finalize.
NothingOnAir ==
    Empty => \A st \in Start :
        active = st \/ (stops[st] = "renaming" /\ st \notin passed) => OffAir(st)

\* In an empty room whatever is being finalized is known to the leave that emptied
\* it: that waits for it, or could not.
EndingsKnown ==
    Empty => \A k \in DOMAIN takes, c \in Recording!Cause :
        takes[k].fin[c] \in Recording!Finalizing =>
            \/ k.start \in passed
            \/ IF c = "abort" THEN k.start \in late ELSE k.start \in awaited

\* Every stop that is waited for goes on and has a closing of its own, and one that
\* no later leave went past is the only one: its closing cannot be due.
StopsWaitedFor ==
    /\ IsFiniteSet(awaited)
    /\ \A st \in awaited : st \in Start /\ stops[st] = "stopping"
    /\ Cardinality(awaited) <= closings[TheRoom]
    /\ \A st \in awaited \ passed : closings[TheRoom] = 1 /\ awaited = {st}

RoomRecordingInv == StartsKnown /\ NothingOnAir /\ EndingsKnown /\ StopsWaitedFor

\* What the two services guarantee on their own.
Services == RS!RouterInv /\ OnlyPeersProduce /\ RecordingState

LEMMA WaitsKept ==
  ASSUME StopsWaitedFor, UNCHANGED <<awaited, passed, closings>>,
         \A st \in awaited : stops'[st] = "stopping"
  PROVE  StopsWaitedFor'
BY DEF StopsWaitedFor

\* The recording is left alone, and so is the room or somebody enters it.
LEMMA RoomMoves ==
  ASSUME RoomRecordingInv, UNCHANGED <<recordingVars, awaited, late, passed, closings>>,
         Empty' => Empty
  PROVE  RoomRecordingInv'
<1>1. UNCHANGED <<active, starts, stops, takes, sessions>>
  BY DEF recordingVars
<1>2. \A st : OffAir(st)' <=> OffAir(st)
  BY <1>1 DEF OffAir
<1>3. StopsWaitedFor'
  BY <1>1, WaitsKept DEF RoomRecordingInv, StopsWaitedFor
<1> QED
  BY <1>1, <1>2, <1>3 DEF RoomRecordingInv, StartsKnown, NothingOnAir, EndingsKnown

\* A join or an answer of the worker.
LEMMA JoiningKeeps ==
  ASSUME RoomRecordingInv, JoinStep \/ RoomAnswers
  PROVE  RoomRecordingInv'
<1>1. UNCHANGED <<recordingVars, awaited, late, passed>>
  BY DEF JoinStep, RoomAnswers, Enter
<1>2. UNCHANGED closings
  BY DEF JoinStep, Join, Admitted, RoomAnswers, Rooms!JoinRequest, Rooms!Admission,
     Rooms!JoinRefused, Rooms!JoinExisting, Rooms!JoinInFlight, Rooms!JoinCreating,
     Rooms!Answer, Rooms!RouterCreated, Rooms!RouterFailed, Rooms!ObserverCreated,
     Rooms!ObserverFailed
<1>3. Empty' => Empty
  BY JoinersStay DEF Stays, Empty, Rooms!Members
<1> QED
  BY <1>1, <1>2, <1>3, RoomMoves

\* A release is one closing less, and it was not owed to a stop that goes on.
LEMMA ReleaseKeeps ==
  ASSUME RS!RouterInv, RoomRecordingInv, Release
  PROVE  RoomRecordingInv'
<1>1. /\ UNCHANGED <<recordingVars, awaited, late, passed, peers>>
      /\ ReleaseDue /\ closings' = [closings EXCEPT ![TheRoom] = @ - 1]
  BY DEF Release, Rooms!CloseRoomIfEmpty
<1>2. UNCHANGED <<active, starts, stops, takes, sessions>>
  BY <1>1 DEF recordingVars
<1>3. Empty' <=> Empty
  BY <1>1 DEF Empty, Rooms!Members
<1>4. \A st : OffAir(st)' <=> OffAir(st)
  BY <1>2 DEF OffAir
<1>5. /\ closings[TheRoom] \in Nat /\ closings'[TheRoom] = closings[TheRoom] - 1
  BY <1>1, OneRoom DEF RS!RouterInv, RS!Types
<1>6. IsFiniteSet(awaited) /\ Cardinality(awaited) \in Nat
  BY FS_CardinalityType DEF RoomRecordingInv, StopsWaitedFor
<1>7. Cardinality(awaited) <= closings'[TheRoom]
  BY <1>1, <1>5, <1>6 DEF ReleaseDue
<1>8. awaited \ passed = {}
  <2> SUFFICES ASSUME NEW st \in awaited \ passed PROVE FALSE
    OBVIOUS
  <2>1. closings[TheRoom] = 1 /\ awaited = {st}
    BY DEF RoomRecordingInv, StopsWaitedFor
  <2>2. Cardinality(awaited) = 1
    BY <2>1, FS_Singleton
  <2> QED
    BY <1>1, <2>1, <2>2 DEF ReleaseDue
<1>9. StopsWaitedFor'
  BY <1>1, <1>2, <1>7, <1>8 DEF RoomRecordingInv, StopsWaitedFor
<1> QED
  BY <1>1, <1>2, <1>3, <1>4, <1>9 DEF RoomRecordingInv, StartsKnown, NothingOnAir,
     EndingsKnown

-----------------------------------------------------------------------------
(* The takes *)

\* One take moves: it does not go on the air in an empty room, and begins no
\* finalization.
LEMMA TakeMoves ==
  ASSUME RoomRecordingInv, NEW k \in DOMAIN takes, NEW u, takes' = [takes EXCEPT ![k] = u],
         UNCHANGED <<active, starts, stops, sessions, awaited, late, passed, closings, peers>>,
         \A c \in Recording!Cause :
            u.fin[c] \in Recording!Finalizing => takes[k].fin[c] \in Recording!Finalizing,
         Empty => \/ takes[k].phase \notin {"transport", "launching", "failed", "starved"}
                  \/ u.phase \in {"transport", "launching", "failed", "starved"}
  PROVE  RoomRecordingInv'
<1>1. /\ DOMAIN takes' = DOMAIN takes /\ takes'[k] = u
      /\ \A j \in DOMAIN takes \ {k} : takes'[j] = takes[j]
  OBVIOUS
<1>2. Empty' <=> Empty
  BY DEF Empty, Rooms!Members
<1>3. StartsKnown'
  BY <1>2 DEF RoomRecordingInv, StartsKnown
<1>4. NothingOnAir'
  <2>1. ASSUME Empty, NEW st, OffAir(st) PROVE OffAir(st)'
    BY <1>1, <2>1 DEF OffAir
  <2> QED
    BY <1>2, <2>1 DEF RoomRecordingInv, NothingOnAir
<1>5. EndingsKnown'
  <2> SUFFICES ASSUME Empty', NEW j \in DOMAIN takes, NEW c \in Recording!Cause,
                      takes'[j].fin[c] \in Recording!Finalizing
               PROVE  \/ j.start \in passed
                      \/ IF c = "abort" THEN j.start \in late ELSE j.start \in awaited
    BY <1>1 DEF EndingsKnown
  <2>1. takes[j].fin[c] \in Recording!Finalizing
    BY <1>1
  <2> QED
    BY <1>2, <2>1 DEF RoomRecordingInv, EndingsKnown
<1>6. StopsWaitedFor'
  BY WaitsKept DEF RoomRecordingInv, StopsWaitedFor
<1> QED
  BY <1>3, <1>4, <1>5, <1>6 DEF RoomRecordingInv

\* In an empty room there is no producer left to record.
LEMMA NobodyProduces ==
  ASSUME RS!RouterInv, OnlyPeersProduce, Empty
  PROVE  live = {}
BY PeersAtHome, OwnerAssumption DEF OnlyPeersProduce, Empty

\* An attempt to record: only a launch goes on the air, and it needs its producers.
LEMMA AttemptKeeps ==
  ASSUME Services, RoomRecordingInv, NEW k \in Recording!TakeId,
         UNCHANGED <<roomVars, awaited, late, passed>>,
         \/ Recording!TransportCreated(k) \/ Recording!TransportFailed(k)
         \/ Recording!Launched(k) \/ Recording!AttemptFailed(k)
         \/ Recording!ProducerGone(k) \/ Recording!Verified(k)
  PROVE  RoomRecordingInv'
<1>1. k \in DOMAIN takes /\ takes[k] \in Recording!Take
  BY DEF Services, RecordingState, Recording!TransportCreated, Recording!TransportFailed,
     Recording!Launched, Recording!AttemptFailed, Recording!ProducerGone,
     Recording!Verified, Recording!At
<1>2. UNCHANGED <<active, starts, stops, sessions, closings, peers>>
  BY DEF Recording!TransportCreated, Recording!TransportFailed,
     Recording!Launched, Recording!AttemptFailed, Recording!ProducerGone,
     Recording!Verified, Recording!callVars, roomVars
<1>3. PICK u : takes' = [takes EXCEPT ![k] = u] /\ u = takes'[k]
  BY <1>1 DEF Recording!TransportCreated, Recording!TransportFailed,
     Recording!Launched, Recording!AttemptFailed, Recording!ProducerGone,
     Recording!Verified, Recording!SetTake
<1> DEFINE t == takes[k]
           Off == {"transport", "launching", "failed", "starved"}
<1>4. u.fin = t.fin /\ (Recording!Launched(k) \/ t.phase = "verifying" \/ u.phase \in Off)
  <2> HIDE DEF t
  <2>1. t \in Recording!Take /\ t = takes[k]
    BY <1>1 DEF t
  <2>2. CASE Recording!TransportCreated(k)
    <3>1. PICK P : P = Recording!Lowest(Recording!PortsNeeded(k), Recording!FreePorts)
      OBVIOUS
    <3>2. \/ u = [t EXCEPT !.phase = "launching", !.ports = P]
          \/ u = [t EXCEPT !.phase = "starved"]
      BY <1>1, <1>3, <2>1, <2>2, <3>1 DEF Recording!TransportCreated, Recording!SetTake
    <3> QED
      BY <2>1, <3>2 DEF Recording!Take
  <2>3. CASE Recording!TransportFailed(k)
    <3>1. u = [t EXCEPT !.phase = "failed"]
      BY <1>1, <1>3, <2>1, <2>3 DEF Recording!TransportFailed, Recording!SetTake
    <3> QED
      BY <2>1, <3>1 DEF Recording!Take
  <2>4. CASE Recording!Launched(k)
    <3>1. u = [[t EXCEPT !.phase = "verifying"] EXCEPT !.ffmpeg = "running"]
      BY <1>1, <1>3, <2>1, <2>4 DEF Recording!Launched, Recording!SetTake
    <3> QED
      BY <2>1, <2>4, <3>1 DEF Recording!Take
  <2>5. CASE Recording!AttemptFailed(k) \/ Recording!ProducerGone(k)
    <3>1. \A p : /\ Recording!Released(t, p).fin = t.fin
                 /\ Recording!Released(t, p).phase = p
                 /\ [Recording!Released(t, p) EXCEPT !.attempt = @ + 1].fin = t.fin
                 /\ [Recording!Released(t, p) EXCEPT !.attempt = @ + 1].phase = p
      BY <2>1 DEF Recording!Take, Recording!Released
    <3>2. \/ u = [Recording!Released(t, "transport") EXCEPT !.attempt = @ + 1]
          \/ u = Recording!Released(t, "failed")
      BY <1>1, <1>3, <2>1, <2>5 DEF Recording!AttemptFailed, Recording!ProducerGone,
         Recording!SetTake
    <3> QED
      BY <3>1, <3>2
  <2>6. CASE Recording!Verified(k)
    <3>1. /\ u = [[t EXCEPT !.phase = "persisting"] EXCEPT !.temp = TRUE]
          /\ t.phase = "verifying"
      BY <1>1, <1>3, <2>1, <2>6 DEF Recording!Verified, Recording!SetTake, Recording!At
    <3> QED
      BY <2>1, <3>1 DEF Recording!Take
  <2> QED
    BY <2>2, <2>3, <2>4, <2>5, <2>6
<1>5. CASE Recording!Launched(k)
  <2>1. k.main # None
    BY NoneAssumption DEF Recording!TakeId
  <2>2. live # {}
    BY <1>5, <2>1 DEF Recording!Launched, Recording!Producers
  <2> QED
    BY <1>1, <1>2, <1>3, <1>4, <2>2, NobodyProduces, TakeMoves DEF Services
<1>6. CASE ~Recording!Launched(k)
  BY <1>1, <1>2, <1>3, <1>4, <1>6, TakeMoves
<1> QED
  BY <1>5, <1>6

\* A take that is filed was on the air, so its state is not one that is off it.
LEMMA PersistedKeeps ==
  ASSUME Services, RoomRecordingInv, NEW k \in Recording!TakeId,
         UNCHANGED <<roomVars, awaited, late, passed>>, Recording!Persisted(k)
  PROVE  RoomRecordingInv'
<1>1. /\ k \in DOMAIN takes /\ takes[k] \in Recording!Take
      /\ takes[k].phase = "persisting" /\ k.start \in Start
      /\ sessions \in [Start -> SUBSET DOMAIN takes]
  BY DEF Services, RecordingState, Recording!Persisted, Recording!At
<1>2. UNCHANGED <<active, starts, stops, closings, peers>>
  BY DEF Recording!Persisted, Recording!callVars, roomVars
<1>3. PICK u : takes' = [takes EXCEPT ![k] = u] /\ u = [takes[k] EXCEPT !.phase = "registered"]
  BY DEF Recording!Persisted, Recording!SetTake
<1>4. u.fin = takes[k].fin
  BY <1>1, <1>3 DEF Recording!Take
<1>5. PICK S : sessions' = [sessions EXCEPT ![k.start] = S]
  BY DEF Recording!Persisted
<1>6. Empty' <=> Empty
  BY <1>2 DEF Empty, Rooms!Members
<1>7. /\ DOMAIN takes' = DOMAIN takes /\ takes'[k] = u
      /\ \A j \in DOMAIN takes \ {k} : takes'[j] = takes[j]
  BY <1>1, <1>3
<1>8. StartsKnown'
  BY <1>2, <1>6 DEF RoomRecordingInv, StartsKnown
<1>9. NothingOnAir'
  <2>1. ASSUME NEW st \in Start, OffAir(st) PROVE OffAir(st)'
    <3>1. st # k.start
      BY <1>1, <2>1 DEF OffAir
    <3>2. sessions'[st] = sessions[st]
      BY <1>1, <1>5, <3>1
    <3> QED
      BY <1>7, <2>1, <3>1, <3>2 DEF OffAir
  <2> QED
    BY <1>2, <1>6, <2>1 DEF RoomRecordingInv, NothingOnAir
<1>10. EndingsKnown'
  <2> SUFFICES ASSUME Empty', NEW j \in DOMAIN takes, NEW c \in Recording!Cause,
                      takes'[j].fin[c] \in Recording!Finalizing
               PROVE  \/ j.start \in passed
                      \/ IF c = "abort" THEN j.start \in late ELSE j.start \in awaited
    BY <1>7 DEF EndingsKnown
  <2>1. takes[j].fin[c] \in Recording!Finalizing
    BY <1>4, <1>7
  <2> QED
    BY <1>6, <2>1 DEF RoomRecordingInv, EndingsKnown
<1>11. StopsWaitedFor'
  BY <1>2, WaitsKept DEF RoomRecordingInv, StopsWaitedFor
<1> QED
  BY <1>8, <1>9, <1>10, <1>11 DEF RoomRecordingInv

\* A finalization goes on or ends; none begins.
LEMMA EndingKeeps ==
  ASSUME Services, RoomRecordingInv, NEW k \in Recording!TakeId,
         UNCHANGED <<roomVars, awaited, late, passed>>,
         \/ Recording!FfmpegExits(k)
         \/ \E c \in Recording!Cause : Recording!FinalizeStep(k, c)
  PROVE  RoomRecordingInv'
<1>1. k \in DOMAIN takes /\ takes[k] \in Recording!Take
  BY DEF Services, RecordingState, Recording!FfmpegExits, Recording!FinalizeStep,
     Recording!RemuxSucceeds, Recording!RemuxFails, Recording!NothingToRemux,
     Recording!AtFin
<1>2. UNCHANGED <<active, starts, stops, sessions, closings, peers>>
  <2>1. UNCHANGED <<closings, peers>>
    BY DEF roomVars
  <2>2. CASE Recording!FfmpegExits(k)
    BY <2>1, <2>2 DEF Recording!FfmpegExits, Recording!callVars
  <2>3. ASSUME NEW c \in Recording!Cause, Recording!FinalizeStep(k, c)
        PROVE  UNCHANGED <<active, starts, stops, sessions>>
    <3>1. \A row, temp : Recording!Store(k, c, row, temp)
                            => UNCHANGED <<active, starts, stops, sessions>>
      BY DEF Recording!Store, Recording!callVars
    <3> QED
      BY <2>3, <3>1 DEF Recording!FinalizeStep, Recording!RemuxSucceeds,
         Recording!RemuxFails, Recording!NothingToRemux
  <2> QED
    BY <2>1, <2>2, <2>3
<1>3. PICK f : f = takes[k].fin
  OBVIOUS
<1>4. f \in [Recording!Cause -> Recording!FinPhase]
  BY <1>1, <1>3 DEF Recording!Take
<1>5. CASE Recording!FfmpegExits(k)
  <2>1. PICK x : x = Recording!AfterExit(takes[k])
    OBVIOUS
  <2>2. PICK g : g = [c \in Recording!Cause |-> IF f[c] = "quitting" THEN x ELSE f[c]]
    OBVIOUS
  <2>3. PICK u : u = [[takes[k] EXCEPT !.ffmpeg = "exited"] EXCEPT !.fin = g]
    OBVIOUS
  <2>4. takes' = [takes EXCEPT ![k] = u]
    BY <1>1, <1>3, <1>5, <2>1, <2>2, <2>3 DEF Recording!FfmpegExits, Recording!SetTake,
       Recording!Take
  <2>5. u.phase = takes[k].phase /\ u.fin = g
    BY <1>1, <2>3 DEF Recording!Take
  <2>6. \A c \in Recording!Cause :
            g[c] \in Recording!Finalizing => f[c] \in Recording!Finalizing
    BY <2>2 DEF Recording!Finalizing
  <2> QED
    BY <1>1, <1>2, <1>3, <2>4, <2>5, <2>6, TakeMoves
<1>6. ASSUME NEW c \in Recording!Cause, Recording!FinalizeStep(k, c)
      PROVE  RoomRecordingInv'
  <2>1. PICK t : t = takes[k]
    OBVIOUS
  <2>2. PICK g : g = [f EXCEPT ![c] = "done"]
    OBVIOUS
  <2>3. PICK ue : ue = [[[t EXCEPT !.fin = g] EXCEPT !.row = "empty"] EXCEPT !.temp = t.temp]
    OBVIOUS
  <2>4. PICK uk : uk = [[[t EXCEPT !.fin = g] EXCEPT !.row = "kept"] EXCEPT !.temp = FALSE]
    OBVIOUS
  <2>5. /\ ue.phase = t.phase /\ ue.fin = g
        /\ uk.phase = t.phase /\ uk.fin = g
    BY <1>1, <2>1, <2>3, <2>4 DEF Recording!Take
  <2>6. \A d \in Recording!Cause :
            g[d] \in Recording!Finalizing => f[d] \in Recording!Finalizing
    BY <1>4, <2>2 DEF Recording!Finalizing
  <2>7. CASE takes' = [takes EXCEPT ![k] = ue]
    BY <1>1, <1>2, <1>3, <2>1, <2>5, <2>6, <2>7, TakeMoves
  <2>8. CASE takes' = [takes EXCEPT ![k] = uk]
    BY <1>1, <1>2, <1>3, <2>1, <2>5, <2>6, <2>8, TakeMoves
  <2>9. ASSUME Recording!RemuxSucceeds(k, c) PROVE takes' = [takes EXCEPT ![k] = uk]
    BY <1>1, <1>3, <2>1, <2>2, <2>4, <2>9 DEF Recording!RemuxSucceeds, Recording!Store,
       Recording!SetTake
  <2>10. ASSUME Recording!RemuxFails(k, c) \/ Recording!NothingToRemux(k, c)
         PROVE  takes' = [takes EXCEPT ![k] = ue]
    BY <1>1, <1>3, <2>1, <2>2, <2>3, <2>10 DEF Recording!RemuxFails,
       Recording!NothingToRemux, Recording!Store, Recording!SetTake
  <2> QED
    BY <1>6, <2>7, <2>8, <2>9, <2>10 DEF Recording!FinalizeStep
<1> QED
  BY <1>5, <1>6

LEMMA TakeStepKeeps ==
  ASSUME Services, RoomRecordingInv, NEW k \in Recording!TakeId, TakeStep(k)
  PROVE  RoomRecordingInv'
<1>1. UNCHANGED <<roomVars, awaited, late, passed>>
  BY DEF TakeStep
<1> QED
  BY <1>1, AttemptKeeps, PersistedKeeps, EndingKeeps DEF TakeStep, Recording!TakeStep

-----------------------------------------------------------------------------
(* start() and stop() *)

\* Takes begin to be finalized for cause c; the others, and the other causes, are
\* as they were.
LEMMA Beginning ==
  ASSUME NEW T, \A k \in DOMAIN T : T[k] \in Recording!Take,
         NEW K, NEW c \in Recording!Cause,
         NEW T2, T2 = Recording!BeginFinalize(T, K, c)
  PROVE  /\ DOMAIN T2 = DOMAIN T
         /\ \A k \in DOMAIN T :
                /\ T2[k] \in Recording!Take /\ T2[k].phase = T[k].phase
                /\ k \notin K => T2[k] = T[k]
                /\ \A d \in Recording!Cause \ {c} : T2[k].fin[d] = T[k].fin[d]
<1>1. DOMAIN T2 = DOMAIN T
  BY DEF Recording!BeginFinalize
<1>2. ASSUME NEW k \in DOMAIN T
      PROVE  /\ T2[k] \in Recording!Take /\ T2[k].phase = T[k].phase
             /\ k \notin K => T2[k] = T[k]
             /\ \A d \in Recording!Cause \ {c} : T2[k].fin[d] = T[k].fin[d]
  <2>1. PICK t : t = T[k]
    OBVIOUS
  <2>2. PICK x : x = IF t.ffmpeg = "running" THEN "quitting" ELSE Recording!AfterExit(t)
    OBVIOUS
  <2>3. PICK g : g = [t.fin EXCEPT ![c] = x]
    OBVIOUS
  <2>4. x \in Recording!FinPhase
    BY <2>2 DEF Recording!AfterExit, Recording!FinPhase
  <2>5. t.fin \in [Recording!Cause -> Recording!FinPhase]
    BY <1>2, <2>1 DEF Recording!Take
  <2>6. PICK u : u = [t EXCEPT !.fin = g]
    OBVIOUS
  <2>7. u \in Recording!Take /\ u.phase = t.phase /\ u.fin = g
    BY <1>2, <2>1, <2>3, <2>4, <2>5, <2>6 DEF Recording!Take
  <2>8. T2[k] = IF k \in K THEN u ELSE t
    BY <1>2, <2>1, <2>2, <2>3, <2>6 DEF Recording!BeginFinalize
  <2> QED
    BY <1>2, <2>1, <2>3, <2>5, <2>7, <2>8
<1> QED
  BY <1>1, <1>2

\* While somebody is in the room only the stops that are waited for matter.
LEMMA Occupied ==
  ASSUME RoomRecordingInv, ~Empty', UNCHANGED <<awaited, passed, closings>>,
         \A st \in awaited : stops'[st] = "stopping"
  PROVE  RoomRecordingInv'
BY WaitsKept DEF RoomRecordingInv, StartsKnown, NothingOnAir, EndingsKnown

\* The room is left alone, and what is waited for goes on.
LEMMA StillWaited ==
  ASSUME RoomRecordingInv, UNCHANGED <<roomVars, passed>>,
         awaited' = {x \in awaited : stops'[x] # "stopped"},
         \A x \in awaited : stops'[x] = stops[x]
  PROVE  /\ awaited' = awaited /\ StopsWaitedFor' /\ (Empty' <=> Empty)
<1>1. awaited' = awaited
  BY DEF RoomRecordingInv, StopsWaitedFor
<1>2. UNCHANGED <<closings, peers>>
  BY DEF roomVars
<1>3. StopsWaitedFor'
  BY <1>1, <1>2, WaitsKept DEF RoomRecordingInv, StopsWaitedFor
<1> QED
  BY <1>1, <1>2, <1>3 DEF Empty, Rooms!Members

\* The start() of st gets on; nothing is launched or finalized.
LEMMA StartMoves ==
  ASSUME Services, RoomRecordingInv, NEW st \in Start, UNCHANGED <<roomVars, late, passed>>,
         awaited' = {x \in awaited : stops'[x] # "stopped"},
         \/ Recording!SessionNotCreated(st) \/ Recording!StartSucceeds(st)
         \/ Recording!StartFails(st)
  PROVE  RoomRecordingInv'
<1>1. /\ UNCHANGED <<active, stops, takes, sessions>>
      /\ \E p \in {"failed", "started"} : starts' = [starts EXCEPT ![st] = p]
  BY DEF Recording!SessionNotCreated, Recording!StartSucceeds, Recording!StartFails
<1>2. /\ awaited' = awaited /\ StopsWaitedFor' /\ (Empty' <=> Empty)
  BY <1>1, StillWaited
<1>3. \A x : OffAir(x)' <=> OffAir(x)
  BY <1>1 DEF OffAir
<1>4. \A x \in Start : starts'[x] \in {"preparing", "launching"}
                        => starts[x] \in {"preparing", "launching"}
  BY <1>1 DEF Services, RecordingState
<1> QED
  BY <1>1, <1>2, <1>3, <1>4 DEF RoomRecordingInv, StartsKnown, NothingOnAir, EndingsKnown

\* A state becomes active, with nothing but takes that are just launched.
LEMMA SessionCreatedKeeps ==
  ASSUME Services, RoomRecordingInv, NEW st \in Start, UNCHANGED <<roomVars, late, passed>>,
         awaited' = {x \in awaited : stops'[x] # "stopped"},
         Recording!SessionCreated(st)
  PROVE  RoomRecordingInv'
<1>1. PICK K : K = Recording!InitialTakes(st, snapshot[st])
  OBVIOUS
<1>2. /\ starts[st] = "preparing" /\ active' = st
      /\ starts' = [starts EXCEPT ![st] = "launching"]
      /\ takes' = Recording!Launch(takes, K) /\ UNCHANGED <<stops, sessions>>
  BY <1>1 DEF Recording!SessionCreated
<1>3. \A k \in K : k.start = st
  BY <1>1 DEF Recording!InitialTakes
<1>4. /\ awaited' = awaited /\ StopsWaitedFor' /\ (Empty' <=> Empty)
  BY <1>2, StillWaited
<1>5. /\ sessions[st] = {} /\ \A k \in DOMAIN takes : k.start # st
      /\ stops[st] = "none"
  BY <1>2 DEF Services, RecordingState
<1>6. /\ DOMAIN takes' = DOMAIN takes \union K
      /\ \A k \in DOMAIN takes \ K : takes'[k] = takes[k]
      /\ \A k \in K : /\ takes'[k].phase = "transport"
                      /\ \A c \in Recording!Cause :
                            takes'[k].fin[c] \notin Recording!Finalizing
  BY <1>2 DEF Recording!Launch, Recording!NewTake, Recording!Finalizing
<1>7. OffAir(st)'
  BY <1>2, <1>5, <1>6 DEF OffAir
<1>8. ASSUME NEW x \in Start \ {st}, OffAir(x) PROVE OffAir(x)'
  BY <1>2, <1>3, <1>6, <1>8 DEF OffAir
<1>9. StartsKnown'
  BY <1>2, <1>4 DEF RoomRecordingInv, StartsKnown, Services, RecordingState
<1>10. NothingOnAir'
  BY <1>2, <1>4, <1>5, <1>7, <1>8 DEF RoomRecordingInv, NothingOnAir
<1>11. EndingsKnown'
  BY <1>4, <1>6 DEF RoomRecordingInv, EndingsKnown
<1> QED
  BY <1>4, <1>9, <1>10, <1>11 DEF RoomRecordingInv

\* The sessions of a state begin to be finalized, by its start() or by a stop().
LEMMA SessionsEnd ==
  ASSUME Services, RoomRecordingInv, NEW st \in Start,
         UNCHANGED <<roomVars, sessions, late, passed>>,
         NEW c \in {"stop", "abort"},
         takes' = Recording!BeginFinalize(takes, sessions[st], c),
         awaited' = awaited, StopsWaitedFor',
         active' \in {None, active},
         \A x \in Start : /\ starts'[x] \in {"preparing", "launching"} => starts'[x] = starts[x]
                          /\ stops'[x] = "renaming" => stops[x] = "renaming",
         Empty => sessions[st] = {} \/ st \in passed \/ (c = "abort" /\ st \in late)
  PROVE  RoomRecordingInv'
<1>1. Empty' <=> Empty
  BY DEF Empty, Rooms!Members, roomVars
<1>2. c \in Recording!Cause
  BY DEF Recording!Cause
<1>3. /\ DOMAIN takes' = DOMAIN takes
      /\ \A k \in DOMAIN takes :
            /\ takes'[k].phase = takes[k].phase
            /\ k \notin sessions[st] => takes'[k] = takes[k]
            /\ \A d \in Recording!Cause \ {c} : takes'[k].fin[d] = takes[k].fin[d]
  BY <1>2, Beginning DEF Services, RecordingState
<1>4. StartsKnown'
  BY <1>1, NoneAssumption DEF RoomRecordingInv, StartsKnown
<1>5. NothingOnAir'
  <2>1. ASSUME NEW x, OffAir(x) PROVE OffAir(x)'
    BY <1>3, <2>1 DEF OffAir
  <2>2. \A x \in Start : active' = x => active = x
    BY NoneAssumption
  <2> QED
    BY <1>1, <2>1, <2>2 DEF RoomRecordingInv, NothingOnAir
<1>6. EndingsKnown'
  <2> SUFFICES ASSUME Empty', NEW j \in DOMAIN takes, NEW d \in Recording!Cause,
                      takes'[j].fin[d] \in Recording!Finalizing
               PROVE  \/ j.start \in passed
                      \/ IF d = "abort" THEN j.start \in late ELSE j.start \in awaited
    BY <1>3 DEF EndingsKnown
  <2>1. CASE takes[j].fin[d] \in Recording!Finalizing
    BY <1>1, <2>1 DEF RoomRecordingInv, EndingsKnown
  <2>2. CASE takes[j].fin[d] \notin Recording!Finalizing
    <3>1. j \in sessions[st] /\ d = c
      BY <1>3, <2>2
    <3>2. j.start = st
      BY <3>1 DEF Services, RecordingState
    <3> QED
      BY <1>1, <3>1, <3>2
  <2> QED
    BY <2>1, <2>2
<1> QED
  BY <1>4, <1>5, <1>6 DEF RoomRecordingInv

\* A start() that fails in an empty room was under way when it became empty.
LEMMA StartAbortsKeeps ==
  ASSUME Services, RoomRecordingInv, NEW st \in Start, UNCHANGED <<roomVars, late, passed>>,
         awaited' = {x \in awaited : stops'[x] # "stopped"},
         Recording!StartAborts(st)
  PROVE  RoomRecordingInv'
<1>1. /\ starts[st] = "launching" /\ active' = None
      /\ starts' = [starts EXCEPT ![st] = "aborting"]
      /\ takes' = Recording!BeginFinalize(takes, sessions[st], "abort")
      /\ UNCHANGED <<stops, sessions>>
  BY DEF Recording!StartAborts, Recording!FinalizeAll
<1>2. awaited' = awaited /\ StopsWaitedFor'
  BY <1>1, StillWaited
<1>3. Empty => st \in late
  BY <1>1 DEF RoomRecordingInv, StartsKnown
<1>4. \A x \in Start : starts'[x] \in {"preparing", "launching"} => starts'[x] = starts[x]
  BY <1>1 DEF Services, RecordingState
<1> QED
  BY <1>1, <1>2, <1>3, <1>4, SessionsEnd

\* A stop that was still renaming finds nothing on the air, or the last leave went
\* past it.
LEMMA RenamedKeeps ==
  ASSUME Services, RoomRecordingInv, NEW st \in Start, UNCHANGED <<roomVars, late, passed>>,
         awaited' = {x \in awaited : stops'[x] # "stopped"},
         Recording!Renamed(st)
  PROVE  RoomRecordingInv'
<1>1. /\ stops[st] = "renaming" /\ stops' = [stops EXCEPT ![st] = "stopping"]
      /\ takes' = Recording!BeginFinalize(takes, sessions[st], "stop")
      /\ UNCHANGED <<active, starts, sessions>>
  BY DEF Recording!Renamed, Recording!FinalizeAll
<1>2. \A x \in Start \ {st} : stops'[x] = stops[x]
  BY <1>1 DEF Services, RecordingState
<1>3. st \notin awaited /\ awaited \subseteq Start
  BY <1>1 DEF RoomRecordingInv, StopsWaitedFor
<1>4. awaited' = awaited /\ StopsWaitedFor'
  BY <1>2, <1>3, StillWaited
<1>5. Empty => sessions[st] = {} \/ st \in passed
  BY <1>1 DEF RoomRecordingInv, NothingOnAir, OffAir
<1>6. \A x \in Start : stops'[x] = "renaming" => stops[x] = "renaming"
  BY <1>1, <1>2
<1> QED
  BY <1>1, <1>4, <1>5, <1>6, SessionsEnd

\* A stop returns: it has finished what it was waited for.
LEMMA StopFinishesKeeps ==
  ASSUME Services, RoomRecordingInv, NEW st \in Start, UNCHANGED <<roomVars, late, passed>>,
         awaited' = {x \in awaited : stops'[x] # "stopped"},
         Recording!StopFinishes(st)
  PROVE  RoomRecordingInv'
<1>1. /\ stops' = [stops EXCEPT ![st] = "stopped"] /\ Recording!TornDown(st, "stop")
      /\ UNCHANGED <<active, starts, takes, sessions>>
  BY DEF Recording!StopFinishes
<1>2. \A x \in Start \ {st} : stops'[x] = stops[x]
  BY <1>1 DEF Services, RecordingState
<1>3. awaited' = awaited \ {st}
  BY <1>1, <1>2 DEF RoomRecordingInv, StopsWaitedFor, Services, RecordingState
<1>4. UNCHANGED <<closings, peers>>
  BY DEF roomVars
<1>5. Empty' <=> Empty
  BY <1>4 DEF Empty, Rooms!Members
<1>6. \A x : OffAir(x)' <=> OffAir(x)
  BY <1>1 DEF OffAir
<1>7. StartsKnown'
  BY <1>1, <1>5 DEF RoomRecordingInv, StartsKnown
<1>8. NothingOnAir'
  BY <1>1, <1>2, <1>5, <1>6 DEF RoomRecordingInv, NothingOnAir, Services, RecordingState
<1>9. EndingsKnown'
  <2> SUFFICES ASSUME Empty', NEW k \in DOMAIN takes, NEW c \in Recording!Cause,
                      takes[k].fin[c] \in Recording!Finalizing, k.start \notin passed,
                      c # "abort"
               PROVE  k.start \in awaited'
    BY <1>1, <1>5 DEF EndingsKnown, RoomRecordingInv
  <2>1. k.start \in awaited
    BY <1>5 DEF RoomRecordingInv, EndingsKnown
  <2>2. c \in {"closing", "stop"}
    BY DEF Recording!Cause
  <2>3. k.start # st
    BY <1>1, <2>2 DEF Recording!TornDown, Recording!TakesOf
  <2> QED
    BY <1>3, <2>1, <2>3
<1>10. StopsWaitedFor'
  <2>1. IsFiniteSet(awaited') /\ Cardinality(awaited') <= Cardinality(awaited)
    BY <1>3, FS_Subset DEF RoomRecordingInv, StopsWaitedFor
  <2>2. Cardinality(awaited') \in Nat /\ Cardinality(awaited) \in Nat
    BY <2>1, FS_CardinalityType DEF RoomRecordingInv, StopsWaitedFor
  <2>3. closings[TheRoom] \in Nat
    BY OneRoom DEF Services, RS!RouterInv, RS!Types
  <2>4. Cardinality(awaited') <= closings'[TheRoom]
    BY <1>4, <2>1, <2>2, <2>3 DEF RoomRecordingInv, StopsWaitedFor
  <2>5. \A x \in awaited' : x \in Start /\ stops'[x] = "stopping"
    BY <1>2, <1>3 DEF RoomRecordingInv, StopsWaitedFor
  <2>6. \A x \in awaited' \ passed' : closings'[TheRoom] = 1 /\ awaited' = {x}
    BY <1>3, <1>4 DEF RoomRecordingInv, StopsWaitedFor
  <2> QED
    BY <2>1, <2>4, <2>5, <2>6 DEF StopsWaitedFor
<1> QED
  BY <1>7, <1>8, <1>9, <1>10 DEF RoomRecordingInv

LEMMA StartOrStopKeeps ==
  ASSUME Services, RoomRecordingInv, NEW st \in Start, StartOrStopStep(st)
  PROVE  RoomRecordingInv'
<1>1. /\ UNCHANGED <<roomVars, late, passed>>
      /\ awaited' = {x \in awaited : stops'[x] # "stopped"}
  BY DEF StartOrStopStep
<1> QED
  BY <1>1, StartMoves, SessionCreatedKeeps, StartAbortsKeeps, RenamedKeeps,
     StopFinishesKeeps DEF StartOrStopStep, Recording!StartStep, Recording!StopStep

\* Whoever asks to record an empty room is late.
LEMMA StartRequestedKeeps ==
  ASSUME Services, RoomRecordingInv, NEW st \in Start, StartRequested(st)
  PROVE  RoomRecordingInv'
<1>1. /\ UNCHANGED <<roomVars, active, stops, takes, sessions, awaited, passed>>
      /\ starts' = [starts EXCEPT ![st] = "preparing"]
      /\ late' = IF Empty THEN late \union {st} ELSE late
  BY DEF StartRequested, Recording!StartRequested, Empty
<1>2. UNCHANGED <<closings, peers>>
  BY <1>1 DEF roomVars
<1>3. Empty' <=> Empty
  BY <1>2 DEF Empty, Rooms!Members
<1>4. \A x : OffAir(x)' <=> OffAir(x)
  BY <1>1 DEF OffAir
<1>5. StartsKnown'
  BY <1>1, <1>3 DEF RoomRecordingInv, StartsKnown, Services, RecordingState
<1>6. NothingOnAir'
  BY <1>1, <1>3, <1>4 DEF RoomRecordingInv, NothingOnAir
<1>7. EndingsKnown'
  BY <1>1, <1>3 DEF RoomRecordingInv, EndingsKnown
<1>8. StopsWaitedFor'
  BY <1>1, <1>2, WaitsKept DEF RoomRecordingInv, StopsWaitedFor
<1> QED
  BY <1>5, <1>6, <1>7, <1>8 DEF RoomRecordingInv

-----------------------------------------------------------------------------
(* stop-recording and the producers *)

LEMMA StopRequestedKeeps ==
  ASSUME Services, RoomRecordingInv, NEW named \in BOOLEAN, Recording!StopRequested(named),
         UNCHANGED <<roomVars, awaited, late, passed>>
  PROVE  RoomRecordingInv'
<1>1. /\ active \in Start /\ active' = None /\ stops[active] = "none"
      /\ UNCHANGED <<starts, sessions>>
  BY DEF Recording!StopRequested, Services, RecordingState
<1>2. UNCHANGED <<closings, peers>>
  BY DEF roomVars
<1>3. PICK p \in {"renaming", "stopping"} : stops' = [stops EXCEPT ![active] = p]
  BY DEF Recording!StopRequested
<1>4. /\ stops'[active] = p /\ \A x \in Start \ {active} : stops'[x] = stops[x]
  BY <1>1, <1>3 DEF Services, RecordingState
<1>5. active \notin awaited /\ awaited \subseteq Start
  BY <1>1 DEF RoomRecordingInv, StopsWaitedFor
<1>6. StopsWaitedFor'
  BY <1>2, <1>4, <1>5, WaitsKept DEF RoomRecordingInv, StopsWaitedFor
<1>7. Empty => OffAir(active)
  BY <1>1 DEF RoomRecordingInv, NothingOnAir
<1>8. CASE named
  <2>1. UNCHANGED takes
    BY <1>8 DEF Recording!StopRequested
  <2>2. Empty' <=> Empty
    BY <1>2 DEF Empty, Rooms!Members
  <2>3. \A x : OffAir(x)' <=> OffAir(x)
    BY <1>1, <2>1 DEF OffAir
  <2>4. StartsKnown'
    BY <1>1, <2>2, NoneAssumption DEF RoomRecordingInv, StartsKnown
  <2>5. NothingOnAir'
    BY <1>1, <1>4, <1>7, <2>2, <2>3, NoneAssumption DEF RoomRecordingInv, NothingOnAir
  <2>6. EndingsKnown'
    BY <2>1, <2>2 DEF RoomRecordingInv, EndingsKnown
  <2> QED
    BY <1>6, <2>4, <2>5, <2>6 DEF RoomRecordingInv
<1>9. CASE ~named
  <2>1. /\ takes' = Recording!BeginFinalize(takes, sessions[active], "stop")
        /\ stops' = [stops EXCEPT ![active] = "stopping"]
    BY <1>9 DEF Recording!StopRequested, Recording!FinalizeAll
  <2>2. \A x \in Start : stops'[x] = "renaming" => stops[x] = "renaming"
    BY <1>1, <2>1 DEF Services, RecordingState
  <2>3. Empty => sessions[active] = {}
    BY <1>7 DEF OffAir
  <2> QED
    BY <1>1, <1>6, <2>1, <2>2, <2>3, SessionsEnd
<1> QED
  BY <1>8, <1>9

\* The end of a produce that was in flight when the room became empty: at most it
\* launches a take that finds its producer gone.
LEMMA LateProduceKeeps ==
  ASSUME Services, RoomRecordingInv, Empty, NEW p \in Producer,
         Recording!MicObserved(p) \/ Recording!MicNotObserved(p),
         UNCHANGED <<roomVars, awaited, late, passed>>
  PROVE  RoomRecordingInv'
<1>1. UNCHANGED <<active, starts, stops>>
  BY DEF Recording!MicObserved, Recording!MicNotObserved, Recording!callVars
<1>2. UNCHANGED <<closings, peers>>
  BY DEF roomVars
<1>3. Empty' <=> Empty
  BY <1>2 DEF Empty, Rooms!Members
<1>4. StopsWaitedFor' /\ StartsKnown'
  BY <1>1, <1>2, <1>3, WaitsKept DEF RoomRecordingInv, StopsWaitedFor, StartsKnown
<1>5. CASE UNCHANGED <<takes, sessions>>
  <2>1. \A x : OffAir(x)' <=> OffAir(x)
    BY <1>5 DEF OffAir
  <2> QED
    BY <1>1, <1>3, <1>4, <1>5, <2>1 DEF RoomRecordingInv, NothingOnAir, EndingsKnown
<1>6. CASE /\ takes' = Recording!Launch(takes, {Recording!NotifiedTake(p, None)})
           /\ UNCHANGED sessions
  <2>1. PICK n : n = Recording!NotifiedTake(p, None)
    OBVIOUS
  <2>2. /\ DOMAIN takes' = DOMAIN takes \union {n}
        /\ \A k \in DOMAIN takes \ {n} : takes'[k] = takes[k]
        /\ takes'[n].phase = "transport"
        /\ \A c \in Recording!Cause : takes'[n].fin[c] \notin Recording!Finalizing
    BY <1>6, <2>1 DEF Recording!Launch, Recording!NewTake, Recording!Finalizing
  <2>3. ASSUME NEW x, OffAir(x) PROVE OffAir(x)'
    BY <1>6, <2>2, <2>3 DEF OffAir
  <2>4. NothingOnAir'
    BY <1>1, <1>3, <2>3 DEF RoomRecordingInv, NothingOnAir
  <2>5. EndingsKnown'
    BY <1>3, <2>2 DEF RoomRecordingInv, EndingsKnown
  <2> QED
    BY <1>4, <2>4, <2>5 DEF RoomRecordingInv
<1>7. active # None => Recording!SoloWebcams(p) = {}
  <2> SUFFICES ASSUME active # None PROVE Recording!SoloWebcams(p) = {}
    OBVIOUS
  <2>1. sessions[active] = {}
    BY DEF Services, RecordingState, RoomRecordingInv, NothingOnAir, OffAir
  <2> QED
    BY <2>1 DEF Recording!SoloWebcams, Recording!PeersSessions
<1> QED
  BY <1>5, <1>6, <1>7 DEF Recording!MicObserved, Recording!MicNotObserved,
     Recording!NotifyProducerCreated, Recording!AttachWebcam

\* A webcam joins a camera session, or does not.
LEMMA AttachKeeps ==
  ASSUME Services, RoomRecordingInv, NEW k, NEW p,
         Recording!WebcamAttached(k, p) \/ Recording!WebcamNotAttached(k, p),
         UNCHANGED <<roomVars, awaited, late, passed>>
  PROVE  RoomRecordingInv'
<1>1. k \in DOMAIN takes /\ takes[k] \in Recording!Take
  BY DEF Services, RecordingState, Recording!WebcamAttached, Recording!WebcamNotAttached
<1>2. UNCHANGED <<active, starts, stops, sessions, closings, peers>>
  BY DEF Recording!WebcamAttached, Recording!WebcamNotAttached, Recording!callVars, roomVars
<1>3. PICK u : u = [takes[k] EXCEPT !.video = p]
  OBVIOUS
<1>4. u.fin = takes[k].fin /\ u.phase = takes[k].phase
  BY <1>1, <1>3 DEF Recording!Take
<1>5. CASE takes' = [takes EXCEPT ![k] = u]
  BY <1>1, <1>2, <1>4, <1>5, TakeMoves
<1>6. CASE UNCHANGED takes
  <2>1. Empty' <=> Empty
    BY <1>2 DEF Empty, Rooms!Members
  <2>2. \A x : OffAir(x)' <=> OffAir(x)
    BY <1>2, <1>6 DEF OffAir
  <2>3. StopsWaitedFor'
    BY <1>2, WaitsKept DEF RoomRecordingInv, StopsWaitedFor
  <2> QED
    BY <1>2, <1>6, <2>1, <2>2, <2>3 DEF RoomRecordingInv, StartsKnown, NothingOnAir,
       EndingsKnown
<1> QED
  BY <1>3, <1>5, <1>6 DEF Recording!WebcamAttached, Recording!WebcamNotAttached,
     Recording!SetTake

LEMMA ProducerStepKeeps ==
  ASSUME Services, RoomRecordingInv, ProducerStep
  PROVE  RoomRecordingInv'
<1>1. UNCHANGED <<roomVars, awaited, late, passed>>
  BY DEF ProducerStep
<1>2. UNCHANGED <<closings, peers>>
  BY <1>1 DEF roomVars
<1>3. Empty' <=> Empty
  BY <1>2 DEF Empty, Rooms!Members
<1>4. ASSUME NEW named \in BOOLEAN, StopRequested(named) PROVE RoomRecordingInv'
  BY <1>1, <1>4, StopRequestedKeeps DEF StopRequested
<1>5. ASSUME NEW p \in Producer, Produce(p) \/ Recording!CloseProducer(p)
      PROVE  RoomRecordingInv'
  <2>1. ~Empty
    <3>1. CASE Produce(p)
      BY <3>1, PeersAtHome, OwnerAssumption DEF Produce, Empty, Services
    <3>2. CASE Recording!CloseProducer(p)
      BY <3>2, NobodyProduces DEF Recording!CloseProducer, Services
    <3> QED
      BY <1>5, <3>1, <3>2
  <2>2. UNCHANGED stops
    BY <1>5 DEF Produce, Recording!Produce, Recording!CloseProducer,
       Recording!CloseProducers, Recording!callVars
  <2> QED
    BY <1>1, <1>2, <1>3, <2>1, <2>2, Occupied DEF RoomRecordingInv, StopsWaitedFor
<1>6. ASSUME NEW p \in Producer, Recording!MicObserved(p) \/ Recording!MicNotObserved(p)
      PROVE  RoomRecordingInv'
  <2>1. CASE Empty
    BY <1>1, <1>6, <2>1, LateProduceKeeps
  <2>2. CASE ~Empty
    <3>1. UNCHANGED stops
      BY <1>6 DEF Recording!MicObserved, Recording!MicNotObserved, Recording!callVars
    <3> QED
      BY <1>1, <1>2, <1>3, <2>2, <3>1, Occupied DEF RoomRecordingInv, StopsWaitedFor
  <2> QED
    BY <2>1, <2>2
<1>7. ASSUME NEW k, NEW p, Recording!WebcamAttached(k, p) \/ Recording!WebcamNotAttached(k, p)
      PROVE  RoomRecordingInv'
  BY <1>1, <1>7, AttachKeeps
<1> QED
  BY <1>4, <1>5, <1>6, <1>7 DEF ProducerStep

-----------------------------------------------------------------------------
(* Leaving *)

\* What a last leave does to a take: nothing to another state's, and it finalizes
\* none for start()'s sake.
LEMMA LeavesOthers ==
  ASSUME RecordingState, NEW S, Recording!CloseLastPeer(S), NEW k \in DOMAIN takes
  PROVE  /\ k.start # active => takes'[k] = takes[k]
         /\ active # None => takes'[k].fin["abort"] = takes[k].fin["abort"]
<1>1. CASE active = None
  BY <1>1 DEF Recording!CloseLastPeer, Recording!CloseProducers,
     Recording!NotifyProducersClosing
<1>2. CASE active # None
  <2>1. PICK D : D = Recording!Detach(takes, S)
    OBVIOUS
  <2>2. PICK E : E = Recording!EndedBy(S)
    OBVIOUS
  <2>3. PICK B : B = Recording!BeginFinalize(D, E, "closing")
    OBVIOUS
  <2>4. PICK R : R = sessions[active] \ E
    OBVIOUS
  <2>5. takes' = Recording!BeginFinalize(B, R, "stop")
    BY <1>2, <2>1, <2>2, <2>3, <2>4 DEF Recording!CloseLastPeer
  <2>6. /\ E \subseteq sessions[active] /\ R \subseteq sessions[active]
        /\ \A j \in sessions[active] : j.start = active
    BY <1>2, <2>2, <2>4 DEF Recording!EndedBy, RecordingState
  <2>7. /\ DOMAIN D = DOMAIN takes
        /\ \A j \in DOMAIN takes :
              /\ D[j] \in Recording!Take /\ D[j].fin = takes[j].fin
              /\ j \notin sessions[active] => D[j] = takes[j]
    <3>1. DOMAIN D = DOMAIN takes
      BY <2>1 DEF Recording!Detach
    <3>2. ASSUME NEW j \in DOMAIN takes
          PROVE  /\ D[j] \in Recording!Take /\ D[j].fin = takes[j].fin
                 /\ j \notin sessions[active] => D[j] = takes[j]
      <4>1. PICK t : t = takes[j]
        OBVIOUS
      <4>2. PICK u : u = [t EXCEPT !.video = None]
        OBVIOUS
      <4>3. t \in Recording!Take
        BY <3>2, <4>1 DEF RecordingState
      <4>4. u \in Recording!Take /\ u.fin = t.fin
        BY <4>2, <4>3 DEF Recording!Take
      <4>5. \/ D[j] = t
            \/ j \in sessions[active] /\ D[j] = u
        BY <2>1, <3>2, <4>1, <4>2 DEF Recording!Detach
      <4> QED
        BY <4>1, <4>3, <4>4, <4>5
    <3> QED
      BY <3>1, <3>2
  <2>8. /\ "closing" \in Recording!Cause /\ "stop" \in Recording!Cause
        /\ "abort" \in Recording!Cause
    BY DEF Recording!Cause
  <2>9. /\ DOMAIN B = DOMAIN D
        /\ \A j \in DOMAIN D :
              /\ B[j] \in Recording!Take
              /\ j \notin E => B[j] = D[j]
              /\ B[j].fin["abort"] = D[j].fin["abort"]
    BY <2>3, <2>7, <2>8, Beginning
  <2>10. /\ k \notin R => takes'[k] = B[k]
         /\ takes'[k].fin["abort"] = B[k].fin["abort"]
    BY <2>5, <2>7, <2>8, <2>9, Beginning
  <2> QED
    BY <2>6, <2>7, <2>9, <2>10
<1> QED
  BY <1>1, <1>2

\* The last peer leaves: the active state's stop is waited for, and every other
\* that is being stopped or finalized is known.
LEMMA LastLeaveKeeps ==
  ASSUME Services, RoomRecordingInv, NEW s \in Socket, Leave(s), IsPeer(s),
         Rooms!Members(TheRoom) = {s}
  PROVE  RoomRecordingInv'
<1> DEFINE S == Recording!ProducersOf(s)
<1>1. /\ Recording!CloseLastPeer(S)
      /\ awaited' = awaited \union ({active} \ {None})
      /\ late' = late \union {st \in Start : starts[st] \in {"preparing", "launching"}}
      /\ passed' = passed \union {st \in Start : NotWaitedFor(st)}
  BY DEF Leave, ClosesProducers, StopsWithLastPeer
<1> HIDE DEF S
<1>2. closings' = [closings EXCEPT ![TheRoom] = @ + 1]
  BY LeaverGoes DEF Services
<1>3. closings[TheRoom] \in Nat /\ closings'[TheRoom] = closings[TheRoom] + 1
  BY <1>2, OneRoom DEF Services, RS!RouterInv, RS!Types
<1>4. /\ active' = None /\ UNCHANGED starts
      /\ IF active = None THEN UNCHANGED stops
                          ELSE stops' = [stops EXCEPT ![active] = "stopping"]
  BY <1>1 DEF Recording!CloseLastPeer, Recording!CloseProducers, Recording!callVars
<1>5. \A x \in Start \ {active} : stops'[x] = stops[x]
  BY <1>4 DEF Services, RecordingState
<1>6. active # None => active \in Start /\ stops'[active] = "stopping" /\ active \notin awaited
  BY <1>4 DEF Services, RecordingState, RoomRecordingInv, StopsWaitedFor
<1>7. \A x \in awaited : x \in Start /\ x # active /\ x \in passed'
  <2> SUFFICES ASSUME NEW x \in awaited
               PROVE  x \in Start /\ x # active /\ x \in passed'
    OBVIOUS
  <2>1. x \in Start /\ stops[x] = "stopping"
    BY DEF RoomRecordingInv, StopsWaitedFor
  <2>2. x # active
    BY <1>6, <2>1, NoneAssumption
  <2>3. NotWaitedFor(x)
    BY <2>1, <2>2 DEF NotWaitedFor
  <2> QED
    BY <1>1, <2>1, <2>2, <2>3
<1>8. IsFiniteSet(awaited) /\ Cardinality(awaited) \in Nat
  BY FS_CardinalityType DEF RoomRecordingInv, StopsWaitedFor
<1>9. StartsKnown'
  BY <1>1, <1>4 DEF StartsKnown
<1>10. NothingOnAir'
  <2>1. \A x \in Start : stops'[x] = "renaming" => x \in passed'
    BY <1>1, <1>5, <1>6, NoneAssumption DEF NotWaitedFor
  <2> QED
    BY <1>4, <2>1, NoneAssumption DEF NothingOnAir
<1>11. StopsWaitedFor'
  <2>1. /\ IsFiniteSet(awaited')
        /\ Cardinality(awaited') <= Cardinality(awaited) + 1
    <3>1. CASE active = None
      <4>1. awaited' = awaited
        BY <1>1, <3>1
      <4> QED
        BY <1>8, <4>1
    <3>2. CASE active # None
      <4>1. awaited' = awaited \union {active}
        BY <1>1, <3>2
      <4> QED
        BY <1>6, <1>8, <3>2, <4>1, FS_AddElement
    <3> QED
      BY <3>1, <3>2
  <2>2. Cardinality(awaited') \in Nat
    BY <2>1, FS_CardinalityType
  <2>3. Cardinality(awaited') <= closings'[TheRoom]
    BY <1>3, <1>8, <2>1, <2>2 DEF RoomRecordingInv, StopsWaitedFor
  <2>4. \A x \in awaited' : x \in Start /\ stops'[x] = "stopping"
    BY <1>1, <1>5, <1>6, <1>7 DEF RoomRecordingInv, StopsWaitedFor
  <2>5. ASSUME NEW x \in awaited' \ passed'
        PROVE  closings'[TheRoom] = 1 /\ awaited' = {x}
    <3>1. x = active /\ x \in Start
      BY <1>1, <1>6, <1>7, <2>5
    <3>2. closings[TheRoom] = 0
      BY <1>1, <1>3, <2>5, <3>1 DEF NotWaitedFor
    <3>3. Cardinality(awaited) = 0
      BY <1>8, <3>2 DEF RoomRecordingInv, StopsWaitedFor
    <3>4. awaited = {}
      BY <1>8, <3>3, FS_EmptySet
    <3> QED
      BY <1>1, <1>3, <3>1, <3>2, <3>4, NoneAssumption
  <2> QED
    BY <2>1, <2>3, <2>4, <2>5 DEF StopsWaitedFor
<1>12. EndingsKnown'
  <2>1. DOMAIN takes' = DOMAIN takes
    BY <1>1 DEF Recording!CloseLastPeer, Recording!CloseProducers,
       Recording!NotifyProducersClosing, Recording!BeginFinalize, Recording!Detach
  <2> SUFFICES ASSUME NEW k \in DOMAIN takes, NEW c \in Recording!Cause,
                      takes'[k].fin[c] \in Recording!Finalizing
               PROVE  \/ k.start \in passed'
                      \/ IF c = "abort" THEN k.start \in late' ELSE k.start \in awaited'
    BY <2>1 DEF EndingsKnown
  <2>2. k.start \in Start
    BY DEF Services, RecordingState
  <2>3. CASE k.start # active
    <3>1. takes'[k] = takes[k]
      BY <1>1, <2>3, LeavesOthers DEF Services
    <3>2. NotWaitedFor(k.start)
      BY <2>3, <3>1 DEF NotWaitedFor
    <3> QED
      BY <1>1, <2>2, <3>2
  <2>4. CASE k.start = active /\ c # "abort"
    BY <1>1, <2>2, <2>4, NoneAssumption
  <2>5. CASE k.start = active /\ c = "abort"
    <3>1. takes[k].fin["abort"] = "none" /\ active # None
      BY <2>2, <2>5, NoneAssumption DEF Services, RecordingState
    <3>2. takes'[k].fin["abort"] = "none"
      BY <1>1, <3>1, LeavesOthers DEF Services
    <3> QED
      BY <2>5, <3>2 DEF Recording!Finalizing
  <2> QED
    BY <2>3, <2>4, <2>5
<1> QED
  BY <1>9, <1>10, <1>11, <1>12 DEF RoomRecordingInv

\* A leave of anybody else closes nothing that is waited for.
LEMMA LeaveKeeps ==
  ASSUME Services, RoomRecordingInv, NEW s \in Socket, Leave(s)
  PROVE  RoomRecordingInv'
<1>1. CASE IsPeer(s) /\ Rooms!Members(TheRoom) = {s}
  BY <1>1, LastLeaveKeeps
<1>2. CASE ~IsPeer(s)
  <2>1. UNCHANGED <<recordingVars, awaited, late, passed>>
    BY <1>2 DEF Leave
  <2>2. Rooms!Members(TheRoom) # {s}
    BY <1>2, PeersAtHome DEF Services
  <2>3. UNCHANGED <<closings, peers>>
    BY <1>2, <2>2, LeaverGoes DEF Services, Leave, Rooms!LeaveRoom, Rooms!Disconnect, IsPeer
  <2>4. Empty' => Empty
    BY <2>3 DEF Empty, Rooms!Members
  <2> QED
    BY <2>1, <2>3, <2>4, RoomMoves
<1>3. CASE IsPeer(s) /\ Rooms!Members(TheRoom) # {s}
  <2>1. UNCHANGED <<stops, awaited, late, passed, closings>>
    BY <1>3, LeaverGoes DEF Services, Leave, ClosesProducers, Recording!ClosePeer,
       Recording!CloseProducers, Recording!callVars, recordingVars
  <2>2. PICK t \in Socket \ {s} : peers[t].room = TheRoom
    BY <1>3, PeersAtHome DEF Services, Rooms!Members
  <2>3. peers' = [peers EXCEPT ![s] = Rooms!NoPeer]
    BY <1>3 DEF Leave, Rooms!LeaveRoom, Rooms!Disconnect, Rooms!ClosePeer, IsPeer
  <2>4. ~Empty'
    BY <2>2, <2>3 DEF Empty, Rooms!Members, Services, RS!RouterInv, RS!Types
  <2> QED
    BY <2>1, <2>4, Occupied DEF RoomRecordingInv, StopsWaitedFor
<1> QED
  BY <1>1, <1>2, <1>3

-----------------------------------------------------------------------------
(* The theorems *)

\* A room without peers or recordings satisfies the invariant.
THEOREM InitialState == Init => RoomRecordingInv
<1> SUFFICES ASSUME Init PROVE RoomRecordingInv
  OBVIOUS
<1>1. /\ active = None /\ awaited = {} /\ DOMAIN takes = {} /\ closings[TheRoom] = 0
      /\ \A st \in Start : starts[st] = "idle" /\ stops[st] = "none"
  BY OneRoom DEF Init, Rooms!Init, Recording!Init
<1>2. IsFiniteSet(awaited) /\ Cardinality(awaited) = 0
  BY <1>1, FS_EmptySet
<1> QED
  BY <1>1, <1>2, NoneAssumption DEF RoomRecordingInv, StartsKnown, NothingOnAir,
     EndingsKnown, StopsWaitedFor

\* Every step of either service keeps it, with what they guarantee on their own.
THEOREM StepKeepsInvariant == Services /\ RoomRecordingInv /\ [Next]_vars => RoomRecordingInv'
<1> SUFFICES ASSUME Services, RoomRecordingInv, [Next]_vars PROVE RoomRecordingInv'
  OBVIOUS
<1>1. CASE UNCHANGED vars
  <2>1. UNCHANGED <<recordingVars, awaited, late, passed, closings, peers>>
    BY <1>1 DEF vars, roomVars
  <2> QED
    BY <2>1, RoomMoves DEF Empty, Rooms!Members
<1>2. CASE Release
  BY <1>2, ReleaseKeeps DEF Services
<1>3. CASE JoinStep \/ RoomAnswers
  BY <1>3, JoiningKeeps
<1>4. CASE ProducerStep
  BY <1>4, ProducerStepKeeps
<1>5. ASSUME NEW s \in Socket, Leave(s) PROVE RoomRecordingInv'
  BY <1>5, LeaveKeeps
<1>6. ASSUME NEW st \in Start, StartRequested(st) \/ StartOrStopStep(st)
      PROVE  RoomRecordingInv'
  BY <1>6, StartRequestedKeeps, StartOrStopKeeps
<1>7. ASSUME NEW k \in Recording!TakeId, TakeStep(k) PROVE RoomRecordingInv'
  BY <1>7, TakeStepKeeps
<1> QED
  BY <1>1, <1>2, <1>3, <1>4, <1>5, <1>6, <1>7 DEF Next

\* Whatever joins, leaves, recordings and answers there are, what is recorded,
\* stopped and finalized in an empty room is what the leave that emptied it knew of.
THEOREM Invariant == Spec => [](Services /\ RoomRecordingInv)
<1>1. Spec => []Services
  BY RoomTypes, LiveProducers, RecordingStates, PTL DEF Services
<1> QED
  BY <1>1, InitialState, StepKeepsInvariant, PTL DEF Spec

\* RecordingStopsWithRoom: the last leave deletes the active state, and only a start
\* that was under way then, or is requested later by a socket that has left, makes
\* another one active.
THEOREM RecordingStops == Spec => []RecordingStopsWithRoom
<1>1. RoomRecordingInv => RecordingStopsWithRoom
  BY DEF RoomRecordingInv, StartsKnown, RecordingStopsWithRoom, Empty
<1> QED
  BY <1>1, Invariant, PTL

\* RouterOutlivesFinalization: a release is due only when more closings are pending
\* than stops are waited for, so an ffmpeg that is still asked to quit is of a state
\* that no stop is waited for.
THEOREM RouterOutlives == Spec => RouterOutlivesFinalization
<1> DEFINE Kept == (routersByRoom[TheRoom] # None /\ routersByRoom'[TheRoom] = None) =>
                      \A k \in DOMAIN takes, c \in Recording!Cause :
                          takes[k].fin[c] = "quitting" =>
                              k.start \in passed \/ (c = "abort" /\ k.start \in late)
<1>1. Services /\ RoomRecordingInv /\ [Next]_vars => Kept
  <2> SUFFICES ASSUME Services, RoomRecordingInv, [Next]_vars,
                      routersByRoom[TheRoom] # None, routersByRoom'[TheRoom] = None,
                      NEW k \in DOMAIN takes, NEW c \in Recording!Cause,
                      takes[k].fin[c] = "quitting", k.start \notin passed
               PROVE  c = "abort" /\ k.start \in late
    OBVIOUS
  <2>1. Release /\ Empty
    <3>1. CASE Release
      BY <3>1 DEF Release, Rooms!CloseRoomIfEmpty, Rooms!IsRoomOccupied, Rooms!routerVars,
         Empty
    <3>2. CASE RoomAnswers
      <4>1. UNCHANGED routersByRoom \/ Rooms!RouterCreated(TheRoom)
        BY <3>2 DEF RoomAnswers, Rooms!Answer, Rooms!RouterFailed, Rooms!ObserverCreated,
           Rooms!ObserverFailed
      <4>2. ASSUME Rooms!RouterCreated(TheRoom) PROVE routersByRoom'[TheRoom] # None
        BY <4>2, OneRoom, NoneAssumption DEF Rooms!RouterCreated, Services, RS!RouterInv,
           RS!Types
      <4> QED
        BY <4>1, <4>2
    <3>3. CASE JoinStep
      BY <3>3 DEF JoinStep, Join, Admitted, Rooms!JoinRequest, Rooms!Admission,
         Rooms!JoinRefused, Rooms!JoinExisting, Rooms!JoinInFlight, Rooms!JoinCreating,
         Rooms!routerVars
    <3>4. ASSUME NEW s \in Socket, Leave(s) PROVE FALSE
      BY <3>4, LeaverGoes DEF Services
    <3>5. ~UNCHANGED roomVars
      BY DEF roomVars
    <3> QED
      BY <3>1, <3>2, <3>3, <3>4, <3>5 DEF Next, vars, ProducerStep, StartRequested,
         StartOrStopStep, TakeStep
  <2>2. IF c = "abort" THEN k.start \in late ELSE k.start \in awaited
    BY <2>1 DEF RoomRecordingInv, EndingsKnown, Recording!Finalizing
  <2>3. k.start \notin awaited
    <3> SUFFICES ASSUME k.start \in awaited PROVE FALSE
      OBVIOUS
    <3>1. closings[TheRoom] = 1 /\ awaited = {k.start}
      BY DEF RoomRecordingInv, StopsWaitedFor
    <3>2. Cardinality(awaited) = 1
      BY <3>1, FS_Singleton
    <3> QED
      BY <2>1, <3>1, <3>2 DEF Release, ReleaseDue
  <2> QED
    BY <2>2, <2>3
<1>2. Services /\ RoomRecordingInv /\ [Next]_vars => [Kept]_vars
  BY <1>1
<1> QED
  BY <1>2, Invariant, PTL DEF Spec, RouterOutlivesFinalization

\* What may stay active in an empty room records nothing: no session is registered in
\* it and no ffmpeg of its takes runs.
SilentWhenEmpty ==
    (active # None /\ Rooms!Members(TheRoom) = {}) =>
        /\ sessions[active] = {}
        /\ \A k \in DOMAIN takes : k.start = active => takes[k].ffmpeg # "running"

\* A start() (recording.service.ts) that was under way when closePeer (room.service.ts)
\* took the last peer away may leave its state active in the empty room, which no later
\* leave stops: that state records nothing.
THEOREM EmptyRoomsAreNotRecorded == Spec => []SilentWhenEmpty
<1>1. RP!IInv /\ Services /\ RoomRecordingInv => SilentWhenEmpty
  <2> SUFFICES ASSUME RP!IInv, Services, RoomRecordingInv, active # None, Empty
               PROVE  /\ sessions[active] = {}
                      /\ \A k \in DOMAIN takes :
                            k.start = active => takes[k].ffmpeg # "running"
    BY DEF SilentWhenEmpty, Empty
  <2>1. OffAir(active)
    BY DEF RoomRecordingInv, NothingOnAir, Services, RecordingState
  <2>2. \A k \in DOMAIN takes : RP!Shape(takes[k])
    BY DEF RP!IInv, RP!Books
  <2> QED
    BY <2>1, <2>2 DEF OffAir, RP!Shape
<1> QED
  BY <1>1, Invariant, RecordingInvariant, PTL

\* What RoomService promises of its slots and routers it keeps when the recording
\* that a release waits for is the real one.
THEOREM RoomPromisesKept ==
  Spec => []/\ Rooms!SlotLoadCountsRooms
            /\ Rooms!NoLeakedRouter
            /\ Rooms!OwnWorkersPorts
<1>1. RS!Spec => []RS!SlotLoadCountsRooms
  BY RoomAssumptions, RS!LoadIsExact
<1>2. RS!Spec => []RS!NoLeakedRouter
  BY RoomAssumptions, RS!NoRouterLeaks
<1>3. RS!Spec => []RS!OwnWorkersPorts
  BY RoomAssumptions, RS!PortsOfTheRightWorker
<1>4. RS!SlotLoadCountsRooms => Rooms!SlotLoadCountsRooms
  <2>1. \A S : Rooms!Cardinality(S) = RS!Cardinality(S)
    BY DEF Rooms!Cardinality, RS!Cardinality
  <2>2. \A w : Rooms!Assigned(w) = RS!Assigned(w)
    BY DEF Rooms!Assigned, RS!Assigned
  <2> QED
    BY <2>1, <2>2 DEF Rooms!SlotLoadCountsRooms, RS!SlotLoadCountsRooms
<1>5. RS!NoLeakedRouter => Rooms!NoLeakedRouter
  BY DEF RS!NoLeakedRouter, Rooms!NoLeakedRouter
<1>6. RS!OwnWorkersPorts => Rooms!OwnWorkersPorts
  BY DEF RS!OwnWorkersPorts, Rooms!OwnWorkersPorts, RS!NoPeer, Rooms!NoPeer
<1> QED
  BY <1>1, <1>2, <1>3, <1>4, <1>5, <1>6, RoomsAreImplemented, SameRooms, PTL

\* No step of the room with its recording closes a router under one of its peers.
THEOREM RoutersOfPeersStayOpen == Spec => Rooms!RouterNotClosedUnderPeer
<1>1. RS!Spec => RS!RouterNotClosedUnderPeer
  BY RoomAssumptions, RS!NoRouterClosedUnderPeer
<1>2. RS!RouterNotClosedUnderPeer => Rooms!RouterNotClosedUnderPeer
  BY DEF RS!RouterNotClosedUnderPeer, Rooms!RouterNotClosedUnderPeer, RS!vars, Rooms!vars
<1> QED
  BY <1>1, <1>2, RoomsAreImplemented, SameRooms, PTL

\* And so with RecordingService: the ports, the rows and the finalizations of a
\* recording that is also stopped by leaves are as it promises.
THEOREM RecordingPromisesKept ==
  Spec => []/\ Recording!PortsExclusive
            /\ Recording!NoPortLeaks
            /\ Recording!RowsMatchFiles
            /\ Recording!ClosedSessionsLeave
            /\ Recording!StoppedMeansStored
            /\ Recording!FailedStartLeavesNothing
<1>1. /\ RP!Spec => []RP!PortsExclusive
      /\ RP!Spec => []RP!NoPortLeaks
      /\ RP!Spec => []RP!RowsMatchFiles
      /\ RP!Spec => []RP!ClosedSessionsLeave
      /\ RP!Spec => []RP!StoppedMeansStored
      /\ RP!Spec => []RP!FailedStartLeavesNothing
  BY RecordingAssumptions, RP!PortsBelongToOneTake, RP!PortsComeBack,
     RP!RowsTellWhatIsThere, RP!OneFinalization, RP!StopWaits, RP!FailedStartCleansUp
<1>2. RP!PortsExclusive => Recording!PortsExclusive
  BY
  DEF Recording!PortsExclusive, RP!PortsExclusive, Recording!Refinalized,
      RP!Refinalized, Recording!Holding, RP!Holding, Recording!Cause, RP!Cause
<1>3. RP!NoPortLeaks => Recording!NoPortLeaks
  BY
  DEF Recording!NoPortLeaks, RP!NoPortLeaks, Recording!Holding, RP!Holding,
      Recording!Cause, RP!Cause, Recording!IsCombined, RP!IsCombined
<1>4. RP!RowsMatchFiles => Recording!RowsMatchFiles
  BY
  DEF Recording!RowsMatchFiles, RP!RowsMatchFiles, Recording!Refinalized,
      RP!Refinalized, Recording!Cause, RP!Cause
<1>5. RP!ClosedSessionsLeave => Recording!ClosedSessionsLeave
  BY
  DEF Recording!ClosedSessionsLeave, RP!ClosedSessionsLeave, Recording!Refinalized,
      RP!Refinalized, Recording!Cause, RP!Cause
<1>6. RP!StoppedMeansStored => Recording!StoppedMeansStored
  BY
  DEF Recording!StoppedMeansStored, RP!StoppedMeansStored, Recording!Finalizing,
      RP!Finalizing
<1>7. RP!FailedStartLeavesNothing => Recording!FailedStartLeavesNothing
  BY
  DEF Recording!FailedStartLeavesNothing, RP!FailedStartLeavesNothing,
      Recording!TakesOf, RP!TakesOf, Recording!SameKey, RP!SameKey,
      Recording!IsCombined, RP!IsCombined
<1> QED
  BY <1>1, <1>2, <1>3, <1>4, <1>5, <1>6, <1>7, RecordingIsImplemented, SameRecording, PTL
=============================================================================
