-------------------------- MODULE RecordingService --------------------------
(***************************************************************************)
(* Recording one room (recording.service.ts): start() and stop(), the      *)
(* takes they launch, the ports and ffmpeg processes a take holds, and the *)
(* finalization that turns a capture into a stored recording.              *)
(*                                                                         *)
(* A take is one call of startVideoSession or startCombinedCameraSession.  *)
(* RecordingService.rooms has one entry per room and a call touches only   *)
(* its room's, so one room is modelled; ports are shared by everything.    *)
(* As in RoomService an action is what runs between two awaits.            *)
(***************************************************************************)
EXTENDS Integers, FiniteSets

CONSTANTS
    Producer,       \* producer ids, each used for one producer
    Owner,          \* Owner[p]: the peer that produces p
    Source,         \* Source[p]: "mic", "webcam" or "screen"
    Start,          \* calls of start(), each with the state object it creates
    MaxAttempts,    \* MAX_ATTEMPTS
    PortMin, PortMax,
    None

ASSUME SourceAssumption == Source \in [Producer -> {"mic", "webcam", "screen"}]
ASSUME NoneAssumption == None \notin Producer \union Start
ASSUME BoundAssumption ==
    MaxAttempts \in Nat \ {0} /\ PortMin \in Nat /\ PortMax \in Nat

VARIABLES
    active,         \* rooms.get(room): whose state it is, or None
    starts,         \* where each start() is
    stops,          \* where the stop() of each state is
    snapshot,       \* the producers a start() was handed
    live,           \* producers their peers have and have not closed
    announced,      \* has produce called notifyProducerCreated and answered?
    takes,          \* the takes launched so far, and how far each is
    sessions,       \* videoSessions and cameraSessions of each state
    attaching,      \* webcams being attached to a camera session
    usedPorts

vars == <<active, starts, stops, snapshot, live, announced, takes, sessions,
          attaching, usedPorts>>

callVars == <<active, starts, stops, snapshot>>
producerVars == <<live, announced>>

\* A take by the state it belongs to, the producer that anchors it, the webcam
\* it is combined with, and the path that launched it.
TakeId ==
    {k \in [start : Start, main : Producer, webcam : Producer \union {None},
            via : {"snapshot", "notify"}] :
        k.webcam # None => /\ Source[k.main] = "mic" /\ Source[k.webcam] = "webcam"
                           /\ Owner[k.main] = Owner[k.webcam]}

\* Why a take is finalized: its producer closed, stop(), or start()'s catch.
Cause == {"closing", "stop", "abort"}

FinPhase == {"none", "quitting", "remuxing", "empty", "done"}

TakePhase == {"transport", "launching", "verifying", "persisting",
              "registered", "failed", "starved"}

Take == [phase : TakePhase,
         attempt : 1..MaxAttempts,
         ports : SUBSET (PortMin..PortMax),
         ffmpeg : {"none", "running", "exited"},
         video : Producer \union {None},    \* videoProducerId
         temp : BOOLEAN,                    \* the temp file holds media
         row : {"open", "kept", "empty"},       \* stoppedAt, hasContent
         fin : [Cause -> FinPhase]]

Init ==
    /\ active = None
    /\ starts = [st \in Start |-> "idle"]
    /\ stops = [st \in Start |-> "none"]
    /\ snapshot = [st \in Start |-> {}]
    /\ live = {}
    /\ announced = [p \in Producer |-> "no"]
    /\ takes = [k \in {} |-> None]
    /\ sessions = [st \in Start |-> {}]
    /\ attaching = {}
    /\ usedPorts = {}

-----------------------------------------------------------------------------
(* Helpers *)

NewTake(k) ==
    [phase |-> "transport", attempt |-> 1, ports |-> {}, ffmpeg |-> "none",
     video |-> k.webcam, temp |-> FALSE, row |-> "open",
     fin |-> [c \in Cause |-> "none"]]

\* The take table with the takes in K launched.
Launch(T, K) ==
    [k \in DOMAIN T \union K |-> IF k \in K THEN NewTake(k) ELSE T[k]]

TakesOf(st) == {k \in DOMAIN takes : k.start = st}

IsCombined(k) == k.webcam # None

\* A take is in phase p; its finalization for cause c is.
At(k, p) == k \in DOMAIN takes /\ takes[k].phase = p

AtFin(k, c, p) == k \in DOMAIN takes /\ takes[k].fin[c] = p

Finalizing == {"quitting", "remuxing", "empty"}

\* Both maps are keyed: a solo session by its producer, a camera session by its
\* peer.  A new session replaces the one under its key.
SameKey(j, k) ==
    IF IsCombined(j) THEN IsCombined(k) /\ Owner[j.main] = Owner[k.main]
                     ELSE ~IsCombined(k) /\ j.main = k.main

\* ffmpeg is gone: remux the temp file if it holds anything.
AfterExit(take) == IF take.temp THEN "remuxing" ELSE "empty"

\* stopFfmpegGracefully resolves at once for a process that has exited.
BeginFinalize(T, K, c) ==
    [k \in DOMAIN T |->
        IF k \notin K THEN T[k]
        ELSE [T[k] EXCEPT !.fin[c] =
                IF T[k].ffmpeg = "running" THEN "quitting" ELSE AfterExit(T[k])]]

\* Every finalization that gets past ffmpeg releases the take's ports.
PortsPastExit(K) ==
    UNION {takes[k].ports : k \in {j \in K : takes[j].ffmpeg # "running"}}

\* Mutant: the ports are released before ffmpeg has been asked to quit.
ReleaseFirst(K, c) ==
    /\ takes' = BeginFinalize(takes, K, c)
    /\ usedPorts' = usedPorts \ UNION {takes[k].ports : k \in K}

FinalizeAll(K, c) ==
    /\ takes' = BeginFinalize(takes, K, c)
    /\ usedPorts' = usedPorts \ PortsPastExit(K)

\* allocatePort hands out even ports whose odd neighbour is in range too.
FreePorts ==
    {p \in PortMin..PortMax : p % 2 = 0 /\ p + 1 <= PortMax} \ usedPorts

Lowest(n, P) == {p \in P : Cardinality({q \in P : q < p}) < n}

PortsNeeded(k) == IF IsCombined(k) THEN 2 ELSE 1

-----------------------------------------------------------------------------
(* start *)

\* The gateway takes the snapshot and calls start(), which looks rooms up once
\* and then awaits the directories and the session row.
StartRequested(st) ==
    /\ starts[st] = "idle"
    /\ active = None
    /\ starts' = [starts EXCEPT ![st] = "preparing"]
    /\ snapshot' = [snapshot EXCEPT ![st] = live]
    /\ UNCHANGED <<active, stops, producerVars, takes, sessions, attaching, usedPorts>>

SessionNotCreated(st) ==
    /\ starts[st] = "preparing"
    /\ starts' = [starts EXCEPT ![st] = "failed"]
    /\ UNCHANGED <<active, stops, snapshot, producerVars, takes, sessions,
                   attaching, usedPorts>>

PairedPeers(S) ==
    {Owner[p] : p \in {p \in S : Source[p] = "mic"}}
        \intersect {Owner[p] : p \in {p \in S : Source[p] = "webcam"}}

\* The first in map order; which one that is does not matter here.
FirstOf(S, o, source) == CHOOSE p \in S : Owner[p] = o /\ Source[p] = source

\* One combined take for each peer with both a mic and a webcam, one take for
\* everything else that is not a further mic or webcam of such a peer.
InitialTakes(st, S) ==
    {[start |-> st, main |-> FirstOf(S, o, "mic"),
      webcam |-> FirstOf(S, o, "webcam"), via |-> "snapshot"] : o \in PairedPeers(S)}
    \union
    {[start |-> st, main |-> p, webcam |-> None, via |-> "snapshot"] :
        p \in {q \in S : Owner[q] \in PairedPeers(S) => Source[q] = "screen"}}

\* rooms.set, whoever's state is there by now, and one task per initial take.
SessionCreated(st) ==
    /\ starts[st] = "preparing"
    /\ active' = st
    /\ starts' = [starts EXCEPT ![st] = "launching"]
    /\ takes' = Launch(takes, InitialTakes(st, snapshot[st]))
    /\ UNCHANGED <<stops, snapshot, producerVars, sessions, attaching, usedPorts>>

Tasks(st) == {k \in TakesOf(st) : k.via = "snapshot"}

Settled(k) == takes[k].phase \in {"registered", "failed", "starved"}

Succeeded(k) == takes[k].phase = "registered"

\* allSettled, no task rejected.
StartSucceeds(st) ==
    /\ starts[st] = "launching"
    /\ \A k \in Tasks(st) : Succeeded(k)
    /\ starts' = [starts EXCEPT ![st] = "started"]
    /\ UNCHANGED <<active, stops, snapshot, producerVars, takes, sessions,
                   attaching, usedPorts>>

\* Mutant: Promise.all instead of Promise.allSettled.
AbortsAtFirstRejection(st) ==
    /\ starts[st] = "launching"
    /\ \E k \in Tasks(st) : Settled(k) /\ ~Succeeded(k)
    /\ active' = None
    /\ starts' = [starts EXCEPT ![st] = "aborting"]
    /\ FinalizeAll(sessions[st], "abort")
    /\ UNCHANGED <<stops, snapshot, producerVars, sessions, attaching>>

\* allSettled, a task rejected: rooms.delete, whoever's state is there, and
\* teardownRoom, which leaves the two session maps as they are.
StartAborts(st) ==
    /\ starts[st] = "launching"
    /\ \A k \in Tasks(st) : Settled(k)
    /\ \E k \in Tasks(st) : ~Succeeded(k)
    /\ active' = None
    /\ starts' = [starts EXCEPT ![st] = "aborting"]
    /\ FinalizeAll(sessions[st], "abort")
    /\ UNCHANGED <<stops, snapshot, producerVars, sessions, attaching>>

\* Mutant: pendingFinalizations are not waited for.
TornDownButPending(st, c) == \A k \in TakesOf(st) : takes[k].fin[c] \notin Finalizing

\* teardownRoom has waited for its own finalizations and for those that closing
\* producers had begun (pendingFinalizations).
TornDown(st, c) ==
    \A k \in TakesOf(st) :
        takes[k].fin[c] \notin Finalizing /\ takes[k].fin["closing"] \notin Finalizing

StartFails(st) ==
    /\ starts[st] = "aborting"
    /\ TornDown(st, "abort")
    /\ starts' = [starts EXCEPT ![st] = "failed"]
    /\ UNCHANGED <<active, stops, snapshot, producerVars, takes, sessions,
                   attaching, usedPorts>>

-----------------------------------------------------------------------------
(* stop *)

\* rooms.delete; with a name from the dialog the session row is renamed first.
StopRequested(named) ==
    /\ active # None
    /\ active' = None
    /\ IF named
       THEN /\ stops' = [stops EXCEPT ![active] = "renaming"]
            /\ UNCHANGED <<takes, usedPorts>>
       ELSE /\ stops' = [stops EXCEPT ![active] = "stopping"]
            /\ FinalizeAll(sessions[active], "stop")
    /\ UNCHANGED <<starts, snapshot, producerVars, sessions, attaching>>

Renamed(st) ==
    /\ stops[st] = "renaming"
    /\ stops' = [stops EXCEPT ![st] = "stopping"]
    /\ FinalizeAll(sessions[st], "stop")
    /\ UNCHANGED <<active, starts, snapshot, producerVars, sessions, attaching>>

\* teardownRoom returns and the session row gets its stoppedAt.
StopFinishes(st) ==
    /\ stops[st] = "stopping"
    /\ TornDown(st, "stop")
    /\ stops' = [stops EXCEPT ![st] = "stopped"]
    /\ UNCHANGED <<active, starts, snapshot, producerVars, takes, sessions,
                   attaching, usedPorts>>

-----------------------------------------------------------------------------
(* startVideoSession, startCombinedCameraSession *)

SetTake(k, take) == takes' = [takes EXCEPT ![k] = take]

\* The transports exist; the ports are allocated outside the try.  A combined
\* take that finds one free port keeps it allocated when the second throws.
TransportCreated(k) ==
    /\ At(k, "transport")
    /\ IF Cardinality(FreePorts) >= PortsNeeded(k)
       THEN LET P == Lowest(PortsNeeded(k), FreePorts) IN
            /\ SetTake(k, [takes[k] EXCEPT !.phase = "launching", !.ports = P])
            /\ usedPorts' = usedPorts \union P
       ELSE /\ SetTake(k, [takes[k] EXCEPT !.phase = "starved"])
            /\ usedPorts' = usedPorts \union FreePorts
    /\ UNCHANGED <<callVars, producerVars, sessions, attaching>>

\* createPlainTransport rejects, outside the try: no retry.
TransportFailed(k) ==
    /\ At(k, "transport")
    /\ SetTake(k, [takes[k] EXCEPT !.phase = "failed"])
    /\ UNCHANGED <<callVars, producerVars, sessions, attaching, usedPorts>>

Producers(k) == {k.main, k.webcam} \ {None}

\* The consumer whose closing ends the verification.
Watched(k) == IF IsCombined(k) THEN k.webcam ELSE k.main

\* connect, consume, ffmpeg up, consumers resumed.
Launched(k) ==
    /\ At(k, "launching")
    /\ Producers(k) \subseteq live
    /\ SetTake(k, [takes[k] EXCEPT !.phase = "verifying", !.ffmpeg = "running"])
    /\ UNCHANGED <<callVars, producerVars, sessions, attaching, usedPorts>>

\* The catch: release the ports, kill ffmpeg, unlink the temp file.
Released(take, phase) ==
    [take EXCEPT !.phase = phase, !.ports = {}, !.ffmpeg = "none"]

\* Mutant: one attempt too many.
AttemptFailedOffByOne(k) ==
    /\ At(k, "launching") \/ At(k, "verifying")
    /\ usedPorts' = usedPorts \ takes[k].ports
    /\ IF takes[k].attempt <= MaxAttempts
       THEN SetTake(k, [Released(takes[k], "transport") EXCEPT !.attempt = @ + 1])
       ELSE SetTake(k, Released(takes[k], "failed"))
    /\ UNCHANGED <<callVars, producerVars, sessions, attaching>>

\* Mutant: attempts are not counted.
AttemptFailedUncounted(k) ==
    /\ At(k, "launching") \/ At(k, "verifying")
    /\ usedPorts' = usedPorts \ takes[k].ports
    /\ SetTake(k, Released(takes[k], "transport"))
    /\ UNCHANGED <<callVars, producerVars, sessions, attaching>>

\* Anything in the try threw, or no data arrived: a fresh attempt, up to the last.
AttemptFailed(k) ==
    /\ At(k, "launching") \/ At(k, "verifying")
    /\ usedPorts' = usedPorts \ takes[k].ports
    /\ IF takes[k].attempt < MaxAttempts
       THEN SetTake(k, [Released(takes[k], "transport") EXCEPT !.attempt = @ + 1])
       ELSE SetTake(k, Released(takes[k], "failed"))
    /\ UNCHANGED <<callVars, producerVars, sessions, attaching>>

\* Mutant: the early way out of the catch skips releasePort.
ProducerGoneKeepingPorts(k) ==
    /\ At(k, "verifying")
    /\ Watched(k) \notin live
    /\ SetTake(k, Released(takes[k], "failed"))
    /\ UNCHANGED <<callVars, producerVars, sessions, attaching, usedPorts>>

\* ProducerGoneError: not retried.
ProducerGone(k) ==
    /\ At(k, "verifying")
    /\ Watched(k) \notin live
    /\ usedPorts' = usedPorts \ takes[k].ports
    /\ SetTake(k, Released(takes[k], "failed"))
    /\ UNCHANGED <<callVars, producerVars, sessions, attaching>>

\* waitForRecordingToStart saw the temp file grow.
Verified(k) ==
    /\ At(k, "verifying")
    /\ SetTake(k, [takes[k] EXCEPT !.phase = "persisting", !.temp = TRUE])
    /\ UNCHANGED <<callVars, producerVars, sessions, attaching, usedPorts>>

\* The row is created, or the failure was logged; either way the session is
\* registered in its state, whatever became of that state and of the producers.
Persisted(k) ==
    /\ At(k, "persisting")
    /\ SetTake(k, [takes[k] EXCEPT !.phase = "registered"])
    /\ sessions' = [sessions EXCEPT ![k.start] =
                        {j \in @ : ~SameKey(j, k)} \union {k}]
    /\ UNCHANGED <<callVars, producerVars, attaching, usedPorts>>

-----------------------------------------------------------------------------
(* finalizeVideoSession, finalizeCombinedCameraSession *)

\* Mutant: only a teardown asks the process to quit.
FfmpegExitsForTeardown(k) ==
    /\ AtFin(k, "stop", "quitting") \/ AtFin(k, "abort", "quitting")
    /\ SetTake(k, [takes[k] EXCEPT
            !.ffmpeg = "exited",
            !.fin = [c \in Cause |->
                IF @[c] = "quitting" THEN AfterExit(takes[k]) ELSE @[c]]])
    /\ usedPorts' = usedPorts \ takes[k].ports
    /\ UNCHANGED <<callVars, producerVars, sessions, attaching>>

\* The recording process exits, asked to or killed after the timeout.  Every
\* finalization that waits for it releases the ports and goes on to remux.
FfmpegExits(k) ==
    /\ \E c \in Cause : AtFin(k, c, "quitting")
    /\ SetTake(k, [takes[k] EXCEPT
            !.ffmpeg = "exited",
            !.fin = [c \in Cause |->
                IF @[c] = "quitting" THEN AfterExit(takes[k]) ELSE @[c]]])
    /\ usedPorts' = usedPorts \ takes[k].ports
    /\ UNCHANGED <<callVars, producerVars, sessions, attaching>>

\* The last await of a finalization: the row gets its stoppedAt and hasContent.
Store(k, c, row, temp) ==
    /\ SetTake(k, [takes[k] EXCEPT !.fin[c] = "done", !.row = row, !.temp = temp])
    /\ UNCHANGED <<callVars, producerVars, sessions, attaching, usedPorts>>

\* remuxToFinalFile: the temp file is unlinked once the final file exists.
RemuxSucceeds(k, c) == AtFin(k, c, "remuxing") /\ Store(k, c, "kept", FALSE)

\* Mutant: the temp file is unlinked whether or not the remux worked.
RemuxFailsUnlinking(k, c) == AtFin(k, c, "remuxing") /\ Store(k, c, "empty", FALSE)

\* The temp file is left where it is.
RemuxFails(k, c) == AtFin(k, c, "remuxing") /\ Store(k, c, "empty", takes[k].temp)

\* There was no temp file to remux.
NothingToRemux(k, c) == AtFin(k, c, "empty") /\ Store(k, c, "empty", takes[k].temp)

-----------------------------------------------------------------------------
(* RoomService.produce and notifyProducerCreated *)

PeersSessions(p) == {k \in sessions[active] : Owner[k.main] = Owner[p]}

\* The peer's webcams that are being recorded on their own.
SoloWebcams(p) ==
    {k \in PeersSessions(p) : ~IsCombined(k) /\ Source[k.main] = "webcam"}

\* The peer's camera session, if its video half has detached.
DetachedCameras(p) ==
    {k \in PeersSessions(p) : IsCombined(k) /\ takes[k].video = None}

NotifiedTake(p, webcam) ==
    [start |-> active, main |-> p, webcam |-> webcam, via |-> "notify"]

\* A mic whose peer's webcam is already recorded: finalize that solo take and
\* launch a combined one with the same webcam producer.
UpgradeToCombined(p) ==
    LET solo == CHOOSE k \in SoloWebcams(p) : TRUE IN
    /\ takes' = Launch(BeginFinalize(takes, {solo}, "closing"),
                       {NotifiedTake(p, solo.main)})
    /\ usedPorts' = usedPorts \ PortsPastExit({solo})
    /\ sessions' = [sessions EXCEPT ![active] = @ \ {solo}]
    /\ UNCHANGED attaching

AttachWebcam(p) ==
    /\ attaching' = attaching \union {<<k, p>> : k \in DetachedCameras(p)}
    /\ UNCHANGED <<takes, sessions, usedPorts>>

NotifyProducerCreated(p) ==
    IF active = None THEN UNCHANGED <<takes, sessions, attaching, usedPorts>>
    ELSE IF Source[p] = "mic" /\ SoloWebcams(p) # {} THEN UpgradeToCombined(p)
    ELSE IF Source[p] = "webcam" /\ DetachedCameras(p) # {} THEN AttachWebcam(p)
    ELSE /\ takes' = Launch(takes, {NotifiedTake(p, None)})
         /\ UNCHANGED <<sessions, attaching, usedPorts>>

\* The producer exists.  A mic is first added to the room's audio observer, an
\* await during which it is already in the peer's producers.
Produce(p) ==
    /\ announced[p] = "no"
    /\ live' = live \union {p}
    /\ IF Source[p] = "mic"
       THEN /\ announced' = [announced EXCEPT ![p] = "pending"]
            /\ UNCHANGED <<takes, sessions, attaching, usedPorts>>
       ELSE /\ announced' = [announced EXCEPT ![p] = "yes"]
            /\ NotifyProducerCreated(p)
    /\ UNCHANGED callVars

MicObserved(p) ==
    /\ announced[p] = "pending"
    /\ announced' = [announced EXCEPT ![p] = "yes"]
    /\ NotifyProducerCreated(p)
    /\ UNCHANGED <<callVars, live>>

\* addProducer rejects: produce throws and never notifies.
MicNotObserved(p) ==
    /\ announced[p] = "pending"
    /\ announced' = [announced EXCEPT ![p] = "rejected"]
    /\ UNCHANGED <<callVars, live, takes, sessions, attaching, usedPorts>>

\* The consume was sent while p was live; p or the session may be gone by now.
WebcamAttached(k, p) ==
    /\ <<k, p>> \in attaching
    /\ attaching' = attaching \ {<<k, p>>}
    /\ SetTake(k, [takes[k] EXCEPT !.video = p])
    /\ UNCHANGED <<callVars, producerVars, sessions, usedPorts>>

WebcamNotAttached(k, p) ==
    /\ <<k, p>> \in attaching
    /\ attaching' = attaching \ {<<k, p>>}
    /\ UNCHANGED <<callVars, producerVars, takes, sessions, usedPorts>>

-----------------------------------------------------------------------------
(* closeProducer, closePeer and notifyProducerClosing *)

\* Camera sessions are looked at before solo ones, and the first match ends the
\* lookup: a camera session ends with its mic, a solo session with its producer.
EndedBy(S) ==
    LET cameras == {k \in sessions[active] : IsCombined(k)}
        claimed == {k.main : k \in cameras} \union {takes[k].video : k \in cameras}
    IN  {k \in sessions[active] :
            k.main \in S /\ (IsCombined(k) \/ k.main \notin claimed)}

\* A camera session that loses its webcam keeps recording the mic.
Detach(T, S) ==
    [k \in DOMAIN T |->
        IF k \in sessions[active] /\ IsCombined(k) /\ T[k].video \in S
        THEN [T[k] EXCEPT !.video = None] ELSE T[k]]

\* Mutant: the session is finalized but stays in the map.
ClosingKeepsSession(S) ==
    IF active = None THEN UNCHANGED <<takes, sessions, usedPorts>>
    ELSE /\ takes' = BeginFinalize(Detach(takes, S), EndedBy(S), "closing")
         /\ usedPorts' = usedPorts \ PortsPastExit(EndedBy(S))
         /\ UNCHANGED sessions

NotifyProducersClosing(S) ==
    IF active = None THEN UNCHANGED <<takes, sessions, usedPorts>>
    ELSE /\ takes' = BeginFinalize(Detach(takes, S), EndedBy(S), "closing")
         /\ usedPorts' = usedPorts \ PortsPastExit(EndedBy(S))
         /\ sessions' = [sessions EXCEPT ![active] = @ \ EndedBy(S)]

CloseProducers(S) ==
    /\ live' = live \ S
    /\ NotifyProducersClosing(S)
    /\ UNCHANGED <<callVars, announced, attaching>>

\* A client can name a producer once produce has answered with its id.
CloseProducer(p) == p \in live /\ announced[p] = "yes" /\ CloseProducers({p})

ProducersOf(o) == {p \in live : Owner[p] = o}

ClosePeer(o) == ProducersOf(o) # {} /\ CloseProducers(ProducersOf(o))

\* The last peer's producers in S close, and stop() finalizes whatever else is
\* recorded before anything else can run.
CloseLastPeer(S) ==
    IF active = None THEN CloseProducers(S)
    ELSE LET rest == sessions[active] \ EndedBy(S) IN
         /\ live' = live \ S
         /\ active' = None
         /\ stops' = [stops EXCEPT ![active] = "stopping"]
         /\ takes' = BeginFinalize(BeginFinalize(Detach(takes, S), EndedBy(S), "closing"),
                                   rest, "stop")
         /\ usedPorts' = usedPorts \ PortsPastExit(sessions[active])
         /\ sessions' = [sessions EXCEPT ![active] = rest]
         /\ UNCHANGED <<starts, snapshot, announced, attaching>>

\* The producers there are belong to one peer, and it leaves; or it has none.
LastPeerLeaves == (\A p, q \in live : Owner[p] = Owner[q]) /\ CloseLastPeer(live)

-----------------------------------------------------------------------------

Peer == {Owner[p] : p \in Producer}

StartStep(st) ==
    \/ SessionNotCreated(st) \/ SessionCreated(st)
    \/ StartSucceeds(st) \/ StartAborts(st) \/ StartFails(st)

StopStep(st) == Renamed(st) \/ StopFinishes(st)

TakeStep(k) ==
    \/ TransportCreated(k) \/ TransportFailed(k)
    \/ Launched(k) \/ AttemptFailed(k) \/ ProducerGone(k) \/ Verified(k)
    \/ Persisted(k)

FinalizeStep(k, c) ==
    RemuxSucceeds(k, c) \/ RemuxFails(k, c) \/ NothingToRemux(k, c)

Next ==
    \/ \E st \in Start : StartRequested(st) \/ StartStep(st) \/ StopStep(st)
    \/ \E named \in BOOLEAN : StopRequested(named)
    \/ \E p \in Producer :
        Produce(p) \/ MicObserved(p) \/ MicNotObserved(p) \/ CloseProducer(p)
    \/ \E o \in Peer : ClosePeer(o)
    \/ LastPeerLeaves
    \/ \E k \in TakeId, p \in Producer : WebcamAttached(k, p) \/ WebcamNotAttached(k, p)
    \/ \E k \in TakeId : TakeStep(k) \/ FfmpegExits(k)
    \/ \E k \in TakeId, c \in Cause : FinalizeStep(k, c)

Spec == Init /\ [][Next]_vars

(* Every await ends: the database, the disk, mediasoup and ffmpeg answer or  *)
(* fail, verification and the ffmpeg quit have timeouts.  Nobody is obliged  *)
(* to start, stop, produce or close anything.                                *)
(* A call and a take each make finitely many steps, so one condition for all *)
(* the steps of each of them is enough.                                      *)
Fairness ==
    /\ \A st \in Start : WF_vars(StartStep(st) \/ StopStep(st))
    /\ \A k \in TakeId :
        WF_vars(\/ TakeStep(k) \/ FfmpegExits(k)
                \/ \E c \in Cause : FinalizeStep(k, c))

FairSpec == Spec /\ Fairness

-----------------------------------------------------------------------------
(* Properties *)

TypeOK ==
    /\ active \in Start \union {None}
    /\ starts \in [Start -> {"idle", "preparing", "launching", "started",
                             "aborting", "failed"}]
    /\ stops \in [Start -> {"none", "renaming", "stopping", "stopped"}]
    /\ snapshot \in [Start -> SUBSET Producer]
    /\ live \subseteq Producer
    /\ announced \in [Producer -> {"no", "pending", "yes", "rejected"}]
    /\ DOMAIN takes \subseteq TakeId
    /\ \A k \in DOMAIN takes : takes[k] \in Take
    /\ sessions \in [Start -> SUBSET DOMAIN takes]
    /\ attaching \subseteq (DOMAIN takes) \X Producer
    /\ usedPorts \subseteq PortMin..PortMax

Refinalized(k) ==
    \E c, d \in Cause : c # d /\ takes[k].fin[c] # "none" /\ takes[k].fin[d] # "none"

\* A take's ffmpeg is bound to its ports until a finalization has seen it exit.
Holding == {k \in DOMAIN takes : \A c \in Cause : takes[k].fin[c] \in {"none", "quitting"}}

\* allocatePort, the retries and the finalizations keep the books right: while
\* no take is finalized twice, a port belongs to one take at a time and is
\* never offered again before the ffmpeg that reads it is gone.
PortsExclusive ==
    (\A k \in DOMAIN takes : ~Refinalized(k)) =>
        \A j, k \in Holding :
            /\ takes[k].ports \subseteq usedPorts
            /\ j # k => takes[j].ports \intersect takes[k].ports = {}

\* No port stays allocated once its take has failed or been finalized, whichever
\* of the error paths it took; only a combined take that was one port short
\* leaks one.
NoPortLeaks ==
    \/ usedPorts \subseteq UNION {takes[k].ports : k \in Holding}
    \/ \E k \in DOMAIN takes : IsCombined(k) /\ takes[k].phase = "starved"

\* What the row says is what the disk holds: a capture that verified and was
\* filed as empty still has its temp file, so nothing is lost for good.
RowsMatchFiles ==
    \A k \in DOMAIN takes :
        ~Refinalized(k) => (takes[k].row = "empty" => takes[k].temp)
                           /\ (takes[k].row = "kept" => ~takes[k].temp)

\* A producer closing, an upgrade and a stop never finalize the same session;
\* only a start that fails after it was stopped does so again.
ClosedSessionsLeave ==
    \A k \in DOMAIN takes :
        Refinalized(k) => /\ takes[k].fin["closing"] = "none"
                          /\ stops[k.start] # "none"
                          /\ starts[k.start] \in {"aborting", "failed"}

\* When stop() returns, everything it or a closing producer began to finalize
\* is stored (the comment on pendingFinalizations).
StoppedMeansStored ==
    \A k \in DOMAIN takes :
        stops[k.start] = "stopped" =>
            \A c \in {"closing", "stop"} : takes[k].fin[c] \notin Finalizing

\* A start that failed leaves no ffmpeg of its own behind ("racing ahead on the
\* first rejection could leak a still-in-flight one"), unless the producer was
\* also announced and recorded twice.
FailedStartLeavesNothing ==
    \A k \in DOMAIN takes :
        starts[k.start] = "failed" /\ k.via = "snapshot" =>
            \/ takes[k].ffmpeg # "running"
            \/ \E j \in TakesOf(k.start) : j.via = "notify" /\ SameKey(j, k)

\* start() returns or throws, whatever fails under it.
EveryStartSettles ==
    \A st \in Start :
        starts[st] \in {"preparing", "launching", "aborting"}
            ~> starts[st] \in {"started", "failed"}

\* stop() returns: it never waits for a finalization that nobody completes.
EveryStopSettles ==
    \A st \in Start : stops[st] # "none" ~> stops[st] = "stopped"

\* "A concurrent start-recording call for the same room fails fast": the session
\* that records is the one stop() and the producer hooks can reach.
OneSession ==
    \A st \in Start :
        starts[st] \in {"launching", "started"} /\ stops[st] = "none" => active = st

\* stop() "finalizes every open file for the room".
StopFinalizesEverything ==
    \A k \in DOMAIN takes :
        stops[k.start] = "stopped" /\ takes[k].phase = "registered"
            => \E c \in Cause : takes[k].fin[c] # "none"

=============================================================================
