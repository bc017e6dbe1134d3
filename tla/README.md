# Formal models of the groupspace media server

groupspace is a NestJS server for video rooms: a mediasoup SFU driven over
socket.io, with server-side recording (ffmpeg), chat, room access rules and push
notifications. This directory holds TLA+ models of the parts whose correctness
depends on *order*: what happens when two handlers interleave at their awaits,
when a step of several fails, when a peer leaves in the middle of something.

Node runs one handler at a time. Between two awaits nothing else can happen, so
**an action of these modules is one stretch of code between two awaits** and an
`await` is where other actions may come in. An await of a promise that is
already settled only yields to microtasks, not to other requests, and is not
modelled as a boundary.

## 1. Inventory

| Component | State it keeps | Operations | Models |
|---|---|---|---|
| Room and router lifecycle (`room.service.ts`, `room.gateway.ts`) | `peers`, `routersByRoom`, `slotByRoom`, `IWorkerSlot.routers`, `routerCreations`, `audioLevelObserversByRoom` | join-room, leave-room, disconnect, `getOrCreateRouter`, `createRouterFor`, `closePeer`, `closeRoomIfEmpty` | `RoomService`, `RoomHosting` |
| Recording (`recording.service.ts`) | `rooms`, `usedPorts`, per session `videoSessions`, `cameraSessions`, `pendingFinalizations`; session and recording rows, temp and final files | `start`, `stop`, `startVideoSession`, `startCombinedCameraSession`, `attachWebcam`, `detachWebcam`, `upgradeToCombined`, `notifyProducerCreated/Closing`, finalization, `teardownRoom` | `RecordingService`, its files `RecordingFiles`, with the room `RoomRecording` |
| Room media (`room.service.ts`, `room.gateway.ts`) | a peer's transports, producers, consumers, mute and focus flags | `createTransport`, `produce`, `consume`, `pause/resume/closeProducer`, `setConsumerQuality`, mute, focus, away | `RoomMedia` |
| Room access (`room-provisioning`, `room-invitation`, `rooms.controller`, `passcode*`) | room, membership, module, module role and invitation rows; failed attempts | create, join, visit, invite, accept, revoke, `setVisibility`, `setPasscode`, enable and disable a module | `RoomAccess` |
| Chat and reactions (`chat.service.ts`, `chat-reaction*.ts`, `room.gateway.ts`) | message and reaction rows | send, delete, react, history, link preview and video poster patches | `ChatRoom` |
| Push notifications (`push-*.ts`, `fcm*.ts`) | subscription and token rows, `peerJoinedAnnouncedAt` | register, unregister, notify, dismiss, announce, pruning of dead registrations | `PushDelivery` |
| Link previews, chat media, thumbnails, transcoding, GIFs | caches, files | one call at a time, no shared protocol | previews' cache planned |
| Identity and sessions, names, user settings, module registry, application shell | none beyond single rows | stateless | not modelled |

How they interact: the gateway authenticates a join (identity, access), then asks
`RoomService` for the room's router and registers the peer. `RoomService.produce`,
`closeProducer` and `closePeer` call `RecordingService.notifyProducerCreated` and
`notifyProducerClosing` synchronously, without awaiting what these begin. The last
peer to leave triggers `recordingService.stop(room)` and, when that settles,
`closeRoomIfEmpty`. The gateway's start-recording handler takes a snapshot of the
room's producers and hands it to `RecordingService.start`. Chat handlers save and
notify without awaiting.

What is hard, and what makes each part correct:

* **Router creation is shared** by concurrent joiners and has two awaits, either of
  which can fail; the room map is filled between the two. Correct: the slot counters
  stay exact, no open router is forgotten, a joiner always gets an answer, peers of
  a room share a router.
* **Releasing an empty room waits for the recording to stop**, and people can join
  meanwhile. Correct: occupancy is re-checked and a router in use is never closed.
* **start and stop of a recording overlap** with each other and with producers that
  come and go. Correct: one session per room, `stop()` finalizes all, a failed
  `start()` leaves nothing, and each session is finalized once.
* **A take retries** and holds UDP ports and an ffmpeg process. Correct: a port has
  one user, and every error path gives it back.
* **Finalization outlives the request** that began it. Correct: what a row says
  agrees with the files, and a session that is stamped as stopped is stored.

* **A joiner's roster is a snapshot** that reaches it three queries later, while
  streams start and end. Correct: snapshot and broadcasts add up; nothing flows for
  a peer that is gone; a video that starts to flow has had a keyframe requested.
* **Access rules are read, decided and written in separate queries.** Correct: a
  room keeps its one owner, an invitation grants all or nothing, and a private
  module's room is private.
* **A message is broadcast before it is saved**, and decorated, reacted to and
  deleted by handlers that run detached from each other; a client puts pages of
  history and broadcasts together. Correct: what a client is told agrees with the
  tables, and patches of one row do not undo each other.
* **A fan-out works on registrations it has read**, while devices re-register.
  Correct: one buzz per handset, and a live registration is not pruned.

`PROJECT.json` lists every hazard with its line.

## 2. The modules

### RoomHosting - what the rooms promise

Hosting without routers, promises or sockets: a room is carried by at most one
worker, does not move while it is carried, a participant is in one room, and
hosting is never taken from a room with participants. It does not promise that an
occupied room is hosted: the code does not keep that (finding `PeersShareRouter`).

### RoomService

| TLA+ | code |
|---|---|
| `joins[s][r]` | where the join-room handler of socket `s` waits: `admitting` (identity and access checks), `waiting` (sharing `routerCreations`) |
| `peers[s]` | the `peers` map: room and router of a socket |
| `routerCreations[r]` | the promise in flight: before (`creating`) and after (`observing`) `createRouter` answers; `slot` is the one claimed |
| `openOn[k]` | the mediasoup router itself: which worker runs it, until `router.close()` |
| `closings[r]` | `recordingService.stop(room).finally(closeRoomIfEmpty)` still pending |
| `JoinRequest`, `JoinRefused`, `JoinExisting`, `JoinInFlight`, `JoinCreating` | `onJoinRoom` and the three ways through `getOrCreateRouter` |
| `RouterCreated`, `RouterFailed`, `ObserverCreated`, `ObserverFailed` | the resumptions of `createRouterFor` |
| `LeaveRoom`, `Disconnect`, `CloseRoomIfEmpty` | `onLeaveRoom`, `handleDisconnect`, `closePeer`, `closeRoomIfEmpty` |

`ObserverCreated` also registers every joiner that shares the promise: their
continuations are microtasks of the same settlement. Router identities are reused
once nothing refers to them (`InUse`), which keeps the instance finite; six are
enough for every reference the two-room instance can hold at once.

### RecordingService

| TLA+ | code |
|---|---|
| `active` | `rooms.get(room)`, as the `start()` call that created the state |
| `starts`, `stops` | how far each `start()` and the `stop()` of its state are |
| `snapshot` | the producers the gateway collected before calling `start()` |
| `takes` | one record per call of `startVideoSession` or `startCombinedCameraSession`: phase, attempt, ports, ffmpeg, temp file, row, and one finalization per cause |
| `fin[c]` | a run of `finalizeVideoSession`/`finalizeCombinedCameraSession`, begun because a producer closed, by `stop()`, or by the catch of `start()` |
| `sessions` | `videoSessions` and `cameraSessions`, which are keyed by producer and by peer (`SameKey`) |
| `attaching` | `attachWebcam` calls waiting for their consumer |
| `live`, `announced` | the producers peers have, and whether `produce` has called `notifyProducerCreated` yet |
| `ClosePeer`, `LastPeerLeaves` | `closePeer`: a peer's producers close; when it is the last one, `stop()` has deleted the state and begun to finalize the rest before anything else runs |

One room is modelled, since `rooms` has one entry per room and nothing but
`usedPorts` is shared. Failures of the row updates are only logged by the code and
do not change its control, so a row here is what the code asked for. An ffmpeg
process exits only when asked to: a spontaneous crash makes a later finalization
skip its wait and adds no new order of steps. A peer keeps its entry until it leaves;
what a repeated join makes of the entry's streams is `RoomMedia`'s subject.

### RecordingFiles

What becomes of one video recording once it is registered. `RecordingService` says when
it is finalized; here the finalization, the two thumbnails and the upload overlap, and
each can fail.

| TLA+ | code |
|---|---|
| `job[j]` | a run of `finalizeVideoSession` or `finalizeCombinedCameraSession` (`stop`), `generateLiveThumbnail`, `generateFinalThumbnail`, `uploadAndNotify`: `working` on files, `writing` the row, `telling` the page |
| `files` | the temp file, the final file, the object in the bucket, and the one thumbnail file both thumbnails are written to |
| `registered` | whether the thumbnail's timer still finds the session in its map |
| `row` | `stoppedAt`, `hasContent`, `gcsUploadedAt`, `thumbnailStatus` |
| `page`, `answer` | a playback page between `get-recording-session` and its answer, and what `getSessionDetail` read for it |
| `view` | the links the page shows: the answer, changed by `recording-ready`, `thumbnail-updated` and `recording-uploaded` |
| `Shown` | `buildPlaybackUrls` |
| `unlinking`, `Unlinked` | the two unlinks nobody awaits (1312, 1382): the file is there until the unlink takes effect, which it may do at any time; one that fails never does |
| `overtaken`, `unwritten`, `late`, `unsigned` | history, for the exceptions the properties name |

That a page subscribes before it asks, and drops an event for a recording it has not
been answered yet, is how the gateway's messages are used. A microphone's recording has
no thumbnails. A recording is finalized once: the race in which it is not is
`RecordingService`'s (`ClosedSessionsLeave`).

### RoomRecording

`RoomService` and `RecordingService` are instances over the variables of this module,
and its actions are theirs, joined where the code joins them:

| TLA+ | code |
|---|---|
| `ClosesProducers`, `StopsWithLastPeer` | `closePeer`: the leaver's producers close, and if it was the last peer `stop()` finalizes the rest (`CloseLastPeer`) |
| `awaited` | the `stop()` calls whose `finally` will run `closeRoomIfEmpty`; a leave that finds no active recording waits for nothing |
| `ReleaseDue`, `Release` | a settled stop's `finally`: it is a microtask, so it runs before any other request is served |
| `entered`, `MayAsk` | `socket.data.roomName`, which `leave-room` does not clear: whoever has been in the room may still start or stop its recording |
| `StartRequested` | `onStartRecording`: no snapshot for a room without a router |
| `late` | history: starts that no leave could stop, because they were still creating their row or launching takes when the room emptied, or came later |
| `passed` | history: states whose finalization a last leave did not wait for (`NotWaitedFor`): another stop or a failed start was finalizing it already, or the release is due to an earlier leave |

Bound: a socket joins only when it has no entry. A join on top of an entry is in
`RoomService` (its rooms and routers) and in `RoomMedia` (its streams).

`RoomService` alone assumes that a `stop()` settles and may take any time. Here
that assumption is discharged: `EmptiedRoomReleased` holds because the recording's
own steps end.

### RoomMedia

| TLA+ | code |
|---|---|
| `<<s, n>>` | the n-th `IPeerState` of socket `s`: handlers keep the object they looked up, also when the socket has left, or has joined again |
| `present`, `joined` | which sockets have an entry in `peers`, and how many they have had; the entry is the last one (`Me`, `Registered`) |
| `replaced` | history: entries that a repeated `join-room` has replaced (288); nothing closes what they have |
| `acks[o]` | `existingProducers` of the join-room answer for entry `o` that the history, settings and member queries still hold up; after a repeated join it lists the joiner's own former producers too |
| `view[s]` | what the client of `s` has been told: the acks, plus `new-producer`, minus `producer-closed` |
| `transports[o][d]` | the transports of one direction, numbered as they are assigned (366-368): `last` is the one the peer object refers to, the earlier ones are open and out of reach, `closed` is the one `closePeer` closed |
| `listed`, `open` | the peer's `producers` map, and the producers the worker still has; they differ after a transport closed under a produce |
| `producers[p].on`, `consumers[o][p].on` | the number of the transport the stream is on |
| `consumers[o][p]` | phase of the consume handler, `hears` (the `producerresume` handler is registered), `key` (a keyframe was requested since frames last began to flow) |

`socket.join`, with the in-memory adapter, is not a boundary; the three queries
after it are. That a client consumes only what it was told of, and closes only what
it was given an id for, is how the gateway's messages are used. Neither a client that
joins again nor one that opens a second transport is ruled out: the handlers ask for
neither. `requestKeyFrame` may fail; the code logs that and goes on, so a request that
fails counts as one here. Bound: an entry has one consumer of a producer. The room's
router, whose closing ends every stream of an empty room, is left to `RoomService`, and
so is a join that changes rooms.

### RoomAccess

| TLA+ | code |
|---|---|
| `room`, `members`, `modules`, `moduleRoles`, `invitations` | the tables, for one room |
| `creating`, `configuring`, `enabling`, `inviting`, `accepting`, `visiting` | calls between two of their queries, with what they have read (`seen`) |
| `CreateChecked`, `CreateCommits`, `CreateRollsBack` | `create`: the look-up, and the transaction that the unique name may roll back |
| `VisibilityChecked`, `VisibilityWritten` | the read and the write of `setVisibility` |
| `AcceptBegins`, `AcceptReads`, `AcceptCommits`, `AcceptRollsBack` | `accept`: the invitation, the present role, the transaction |
| `Admitted`, `AdmittedByPasscode`, `RecordVisit` | `assertMayJoin`, a right passcode, and the upsert both lead to |

A transaction is one action. Guard and effect are one action where the guard's
answer cannot change meanwhile (an owner stays the owner, which is `OneOwner`).
A room with a module that demands a generated name has a name nobody else types.

### PushDelivery

| TLA+ | code |
|---|---|
| `rows` | `PushSubscription` and `FcmToken` rows of one user; an upsert keeps the id, a deletion and a new registration do not |
| `address[d]` | the endpoint or token at which the vendor currently reaches device `d` (external) |
| `fanOuts[f]` | a run of `notifyRoomMembers` for this user, of `dismissOtherDevices` or of `announceAppUpdate`: what it listed, whom it still sends to, which rows it found dead; `before` is history |
| `announcedAt`, `lastJoin` | the entry of `peerJoinedAnnouncedAt` for one joiner, and history |

### ChatRoom

| TLA+ | code |
|---|---|
| `rows[m]` | the `ChatMessage` row and how far its detached insert is; `decorations` are its `linkPreview` and `attachments` columns |
| `reactions` | the `ChatMessageReaction` rows |
| `SendMessage`, `InsertSettles` | `onChatMessage` (broadcast, then `saveMessage`, not awaited) and the insert's outcome |
| `decorating[m][d]` | `scrapeLinkPreview` and `ensureVideoPosters`: fetching, the row's update, the broadcast |
| `reacting[k]` | an `onChatReaction` handler between its queries: `missing` (nothing deleted), `counted`, `toggled`, `listed` |
| `deleting[m]` | `onChatMessageDelete` between the update and its broadcast |
| `clients[c]` | a join between `socket.join` and its ack, or a scroll between the query and its answer; `page` is what the database found |
| `told[c][m]` | what the server has told this client: `chat-message`, `chat-message-updated`, pages |
| `unsaved`, `overtaken` | history, for the exceptions the properties name |

Each query is an action of its own, and so is the broadcast of what it found. What
a client is told is kept as the messages say it: fields a broadcast carries replace
what was there. That clients listen from `socket.join` on, and ask for what is before
the oldest message they have, is how the gateway's messages are used. The server
keeps nothing per client, so one client stands for all of them. There is one room: that
a reaction or a deletion is of a message of the caller's own room is checked by nobody
(`onChatReaction` 600-603, `onChatMessageDelete` 631-636), and no property is about it.

## 3. What TLC checks

Every configuration says `CHECK_DEADLOCK FALSE`: the system may come to rest
(everyone has left, all recordings are stopped).

| Run | Instance | Shows |
|---|---|---|
| `rooms_safety` | 2 rooms, 2 sockets, 2 workers, 6 router ids, `MaxClosings` 1, symmetry | types, exact slot counters, no leaked router, ports of the right worker, no router closed under a peer, refinement of `RoomHosting` |
| `rooms_split` | 1 room, 2 sockets | counterexample to `PeersShareRouter` |
| `rooms_ghost` | 1 room, 2 sockets | counterexample to `DisconnectedPeerGone` |
| `recording_safety` | 1 start, one peer with mic, webcam and a second webcam producer, `MaxAttempts` 2, ports 1..6, at most two takes | port book-keeping, files against rows, who finalizes what, what `stop()` and a failed `start()` leave behind |
| `room_recording` | 1 room, 2 sockets, 1 worker, 1 start, a webcam, `MaxAttempts` 1, one pair of ports, the guest's connection may drop | the recording stops with the room; no router closed under a finalization the last leave could wait for; joins, releases, starts and stops settle |
| `recording_two_starts` | 2 starts, one producer | counterexample to `OneSession` |
| `recording_stop_race` | 1 start, one producer | counterexample to `StopFinalizesEverything` |
| `recording_files` | one video recording, one page, a bucket; every job may fail at every step, every unlink may come late or never | the capture survives, links play, the final thumbnail stays, the page catches up - but for the races the properties name |
| `rooms_media` | a host with mic and webcam, a guest who watches, `MaxJoins` 2 each, two transports of an entry, `MaxToggles` 1, `OneStreamTwoRepeats` | no stream missing, none left over but by a repeated join or transport, keyframes requested |
| `rooms_access` | 2 users, 1 module that is private, led and untitled, 2 invitations, `MaxInFlight` 2, symmetry | one owner, one creation, revocation against acceptance, and which races lower a role or open a private room |
| `push_delivery` | an app and a browser on one platform, 2 addresses each, 4 row ids, 1 fan-out at a time, `Window` 2, `MaxTime` 3, symmetry | one buzz per handset, which race loses a live registration, the sliding window |
| `chat_room` | 2 messages, 1 client, 2 reaction handlers, 3 emoji, `Cap` 1, `PageSize` 1, `MaxTime` 1, `MaxInFlight` 2, `OneTopic`, symmetry | what clients are told against the tables, the cap under overlap, patches against each other |

Bounds, and why they are enough:

* `MaxClosings` bounds how many stops of one room may be pending when a new join
  arrives. One is enough for a join to overlap a release, and since leaves of
  admitted joiners do not look at the bound, two releases can still overlap.
* Two sockets give the creator of a router and a second joiner; the two-room
  instance adds sockets that change rooms.
* `MaxAttempts` is the code's `MAX_ATTEMPTS`, 3 there; 2 has a first, a middle
  decision to retry and a last attempt. `room_recording` uses 1: retries add no
  waiting, and `recording_safety` covers them.
* `room_recording` has the producer of a host and a guest who comes and goes, which
  is what a release during a finalization needs. One start: two that overlap
  orphan a session (finding `OneSession`), and then nothing waits for its takes.
  `Dropping` names the sockets that may disconnect besides leaving; the host only
  leaves, and both ways run the same `cleanupPeer`. The theorems of
  `RoomRecordingProofs` have none of these bounds, and the parts of their invariant were
  model-checked before they were proved, also with a webcam and a screen (8.9 million
  states) and with two starts (34 million). That is where an earlier, narrower
  `RouterOutlivesFinalization` failed: a start that fails finalizes on its own, and no
  leave waits for that.
* Ports 1..6 have an odd lower end, two usable pairs (2-3, 4-5) and a last port
  whose RTCP companion is out of range: a combined take and a solo one compete.
* `TwoTakes` stops exploring once a third take is launched. Two takes are what an
  upgrade (a solo webcam replaced by a combined take), a duplicate of a producer
  and a competition for ports need.
* `recording_files` has no bound: a recording has four jobs, each runs once, and a page
  opened once at any time stands for every page.
* In `rooms_media` the guest does not send and the host does not watch
  (`MCMaxTransports`): streams of one direction do not meet those of the other. Two joins
  per socket give a handler of an old entry beside a new one, two transports one that is
  overwritten. `OneStreamTwoRepeats` explores one stream at a time - no handler reads
  two - and at most two of the second joins and second transports there could be. Both
  streams at once, with streams, second joins and second transports at most three in
  all, were checked once in the same model (1.9 million states, no error). The theorems
  have no bound.
* `MaxInFlight` 2 lets two calls be between their queries at once: every race of
  the access rules is between two. Two invitations of one user are what a demotion
  needs, and one redeeming call for each suffices since a second call of the same
  invitation takes the same steps.
* In `chat_room` one message of two gets reactions and the other decorations, and a
  behaviour explores one of the two (`OneTopic`): they share no column, and no
  action reads both. `MaxInFlight` 2 lets two of what is begun and not settled
  overlap. Pages of one message need two to scroll through two, and one instant of
  the clock shared by both is the tie at a page boundary. With `Cap` 1, two handlers
  and three emoji the cap can be exceeded by one, and by two if the count were wrong.
* Four row ids cover two rows and the two a fan-out may still refer to. Two
  addresses are an old and a new one. `Window` 2 has an instant inside, and
  `MaxTime` 3 has one after the window that a fixed window would wrongly announce.

Some properties are *characterizations*: the code does not rule the bad outcome out,
and the property says that only the race it names leads to it. Without the exception
each of them is violated.

| Property | Bad outcome | The race |
|---|---|---|
| `NoDemotionUnlessOvertaken` | a role is lowered | two invitations of one person accepted at once |
| `PrivateUnlessOvertaken` | a public room has a private module on | the module is enabled inside `setVisibility` |
| `LostOnlyIfReplaced` | a live registration is pruned | the device re-registers in place during the send |
| `RouterOutlivesFinalization` | a router is closed under an ffmpeg being finalized, against the comment at `room.service.ts:584` | when a last peer left, another stop or a failed start was finalizing already, or an earlier leave's stop had not settled; or a start that was under way then fails afterwards |
| `RecordingStopsWithRoom` | a recording is active in an empty room | its start was creating the session row when the room emptied, or came from a socket that had left |
| `ClosedSessionsLeave` | a session is finalized twice, against the comment at `recording.service.ts:1224`: ports that may have a new user are freed, and a good recording is filed as empty | `stop()` during a `start()` that then fails |
| `LinkPlaysUnlessUnrecorded` | the link a page is given names a file that is gone, against the comment at `recording.service.ts:286` | the upload deletes the file before `gcsUploadedAt` is set, and for good if that update fails |
| `FinalThumbnailStays` | the grayscale thumbnail replaces the final one | the live extraction was still running when the recording was ready, or its timer fired afterwards and the unlink of the temp file had not taken effect |
| `NoOrphanStream` | a stream goes on whose peer entry is gone, against the comment at `room.service.ts:572` | `join-room` repeated by a socket that is in (288 replaces the entry and closes nothing), or a second `create-transport` in the same direction (366 assigns over the first, and 594 closes the last) |
| `PageIsCurrent` | a page shows other links than a reload would | an event crossed the page's answer, or a link was not stored or signed |
| `DivergesOnlyIfOvertaken` | a client shows other reactions than the table, against the comments at `room.gateway.ts:576` and `606` | a list or page overtaken by a write before it was told, or a list that failed after the write |
| `CapOverrunBounded` | more emoji than `MAX_REACTIONS_PER_USER_PER_MESSAGE` | taps of one person that overlap, each adding at most one |
| `MissedOnlyIfUnsavedOrTied` | a message nobody shows this client | its insert was running when a page was read, or it shares an instant with a page boundary |
| `DecorationLostOnlyIfThrown` | a preview shown and not stored | its update ran before the insert, or failed |

Fairness (`FairSpec`, in `room_recording`) is weak fairness of every resumption: database and access
queries return, workers answer or reject, `stop()` settles, verification and the
ffmpeg quit have timeouts in the code (`waitForRecordingToStart`,
`stopFfmpegGracefully`). Nobody is obliged to join, leave, produce, start or stop. The release of an empty
room is not assumed to happen at its leisure: it follows its stop at once, and that
the stop settles is a consequence of the recording's steps.

## 4. Findings

Each is a claim of a comment in the code that TLC refutes on the model; details
and line numbers are in `PROJECT.json`.

1. `PeersShareRouter` (`room.service.ts:202`): peers of one room can be on two
   routers, the first of them closed. `createRouterFor` publishes the router
   before it awaits the observer, so a second joiner can enter and leave, closing
   the router, while the first still waits on the promise.
2. `DisconnectedPeerGone` (`room.service.ts:572`): a join that is awaiting the
   router when its socket disconnects registers a peer that nothing removes.
3. `OneSession` (`recording.service.ts:331`): two starts can both pass the check;
   the first session becomes unreachable.
4. `StopFinalizesEverything` (`recording.service.ts:375`): a take that is still
   being launched when `stop()` runs registers afterwards and is never finalized.

## 5. What is proved

`RoomServiceProofs` holds for every finite set of rooms and any sets of sockets,
workers and routers:

| Theorem | States |
|---|---|
| `RouterInvariant` | `Spec => []RouterInv`, the inductive invariant |
| `TypeCorrect` | `Spec => []TypeOK` |
| `LoadIsExact` | `Spec => []SlotLoadCountsRooms` |
| `NoRouterLeaks` | `Spec => []NoLeakedRouter` |
| `PortsOfTheRightWorker` | `Spec => []OwnWorkersPorts` |
| `NoRouterClosedUnderPeer` | `Spec => RouterNotClosedUnderPeer` |
| `HostingIsImplemented` | `Spec => ImplementsHosting` |

Assumptions: `NoneAssumption` (`None` is not a room, worker or router) and
`RoomAssumption` (finitely many rooms, so that rooms of a slot can be counted).

The argument. None of the properties is inductive alone: `OwnWorkersPorts` breaks
if a room's slot could name another worker than the one its router runs on, and
`NoLeakedRouter` if two rooms could share a router. `RouterInv` adds what rules
these out: `MapsAgree` (`routersByRoom` and `slotByRoom` have the same rooms),
`CreationShape` (a creation holds a slot exactly while it waits for the router, and
then the room has neither router nor slot yet), and `RoutersStayHome` (a peer, a
creation or a room map that names an open router agrees on which room and worker it
belongs to). Its preservation is proved action by action (`StepRouterInv`);
the counters rest on `ClaimCounts` and `GiveBackCounts`, which say how the set of
rooms assigned to a slot grows and shrinks by one.
`RouterNotClosedUnderPeer` and the refinement follow from the invariant and one step.

`ChatRoomProofs` proves the type invariant and every safety
property of `ChatRoom`, for any users, emoji and clients, any finite sets of messages
and handlers, any cap and any page size:

| Theorem | States |
|---|---|
| `TypeCorrect` | `Spec => []TypeOK` |
| `CapHolds` | `Spec => []CapOverrunBounded` |
| `DecorationsKept` | `Spec => []DecorationLostOnlyIfThrown` |
| `DeletionsReach` | `Spec => []DeletionReachesEveryone` |
| `ReactionsConverge` | `Spec => []DivergesOnlyIfOvertaken` |
| `HistoryComplete` | `Spec => []MissedOnlyIfUnsavedOrTied` |

Assumption: `ChatAssumption` (a cap and a page size of at least one, a clock bounded
by a natural number, `None` is not a user, finitely many handlers and messages).

The argument. `Shape` says what every state looks like: the types, that nothing is
known, stored or under way of a message nobody has sent, that reactions and pages are
of stored messages only, and that a client outside the room has been told nothing.
One lemma per variable (`SentStep`, `RowsStep`, `DecoratingStep`, `DeletingStep`,
`ClientsStep`, `ToldStep`) names its writers and shows what they leave;
`KnowledgeStep` says how what one client knows of one message may change. On top of
it each property has a strengthening of its own:

* `CapInv`: what a user holds, plus the taps that have been counted in and not yet
  inserted, is at most `Cap - 1` plus the number of handlers. Each count admits a
  tap only below the cap, and each insert moves one from the second number to the
  first; the count alone would not bound anything.
* `DecorationInv`: a patch that settled is in the row, and a page says no more than
  the row. Rows only gain decorations, so a page that is late adds nothing false.
* `DeletionInv` also covers messages that are on a page still under way: the broadcast
  reaches a client before the page does, and the page does not take it back.
* `ReactionInv`: unless overtaken, every list that is read and not yet told equals the
  table; whatever is told last is therefore right (`SettleStep`, `WriteStep`).
* `HistoryInv`: what a client in the room has not reached is no later than all it has
  reached and another page is to come, or it ties with a known message. It rests on
  the clock (`TimeStep`: what is sent later is not earlier) and on `PageHolds`: a
  page that is not full holds everything there was to read.

`RoomMediaProofs`, for any sockets, any streams of theirs and any number of joins,
transports and pauses:

| Theorem | States |
|---|---|
| `TypeCorrect` | `Spec => []TypeOK` |
| `StreamsKnown` | `Spec => []NoStreamMissing` |
| `NoOrphans` | `Spec => []NoOrphanStream` |
| `KeyframesFollow` | `Spec => []KeyframeFollows` |

Assumptions: `OwnerAssumption`, `SourceAssumption`, `JoinsAssumption`,
`TransportsAssumption`, `TogglesAssumption` and `NoneAssumption` (`None` is not a set of
producers). None of the three safety properties is inductive, since a handler may go on
for an entry and a transport that are long gone. The invariant says what it can still
find there: `Unclosed` (nothing of a registered entry, or of one to come, has been closed)
and `Rides` (what was begun on the n-th transport of an entry was begun while the entry
was registered; since then `closePeer` has come, for that transport or a later one, or
never will, the entry having been replaced). `Produces` and `Consumes` state `Rides` of
each stream, `Lists` that the worker's producers are listed and on transports it has not
closed; together they leave only `OutOfReach`. `Knows` (an announced live stream of a
present entry is in the view or in an ack under way) gives `NoStreamMissing`, `Listens`
(video stays paused until its consumer listens for `producerresume`) `KeyframeFollows`.

`RoomAccessProofs`, for any users, modules, invitations and redeeming calls; the run
bounds the calls under way to two, the theorems do not:

| Theorem | States |
|---|---|
| `TypeCorrect` | `Spec => []TypeOK` |
| `OwnerIsCreator` | `Spec => []OneOwner` |
| `CreatedOnce` | `Spec => []OneCreation` |
| `RevokedIsVoid` | `Spec => []RevokedGrantsNothing` |
| `NoDemotion` | `Spec => NoDemotionUnlessOvertaken` |
| `StaysPrivate` | `Spec => PrivateUnlessOvertaken` |

Assumptions: `ManifestAssumption`, and `NoneAssumption` (`None` is neither a user nor a
role). What makes `OneOwner` inductive is `Redemptions`: a role that an accept has read
may be stale, but not in whether it is the owner's, because ownership changes only in
the step that creates the room, and before that nobody is invited (`Founded`).
`Issues` keeps ids of invitations apart, and `Changes` says that a visibility change to
public goes on only from modules that allow it.

`PushDeliveryProofs`, for any devices, platforms, row ids, concurrent fan-outs and
window; the run has one fan-out:

| Theorem | States |
|---|---|
| `TypeCorrect` | `Spec => []TypeOK` |
| `OneBuzz` | `Spec => []NoSecondBuzz` |
| `PruningIsExact` | `Spec => LostOnlyIfReplaced` |
| `WindowSlides` | `Spec => AnnouncedAfterQuiet` |

Assumptions: `DeviceAssumption`, `WindowAssumption`, `BoundAssumption` and
`NoneAssumption` (`None` is not a time). The key is `Known`: any row a fan-out holds on
to has an address no newer than its device's, and the row that has its id now is its
successor. So a row that left the table never comes back as it was (`RegisterStep`),
and what is pruned is a row whose device has moved on.

`RecordingServiceProofs`, for any producers, any calls of `start()` and `stop()`, any
range of ports and any number of attempts; the run has one `start()`, one peer with
three producers and at most two takes:

| Theorem | States |
|---|---|
| `TypeCorrect` | `Spec => []TypeOK` |
| `PortsBelongToOneTake` | `Spec => []PortsExclusive` |
| `PortsComeBack` | `Spec => []NoPortLeaks` |
| `RowsTellWhatIsThere` | `Spec => []RowsMatchFiles` |
| `OneFinalization` | `Spec => []ClosedSessionsLeave` |
| `StopWaits` | `Spec => []StoppedMeansStored` |
| `FailedStartCleansUp` | `Spec => []FailedStartLeavesNothing` |

Assumptions: `SourceAssumption`, `NoneAssumption` and `BoundAssumption`. The invariant
has one part for each thing that keeps the books:

* `Shape` (one take): what a take holds follows from its phase, and a registered one
  has its process exactly until a finalization has seen it exit (`Held`). `Single`,
  finalized for at most one cause, is the condition under which a row matches the disk.
* `Books` (takes and ports): the two port properties, stated for a table of takes.
  Finalizing again leaves them alone because the second finalization either finds the
  process running, and releases nothing, or makes the take no longer `Single`.
* `Linked` (a take and its calls): a session that is in a map has not been finalized
  for a closing producer; one that was stopped or aborted belongs to a call that got
  that far; one that start() launched and that is in no map any more was finalized or
  replaced. `FailedStartLeavesNothing` needs the last part, and `Apart`: two takes that
  one start() launches never share a key, so only an announced producer replaces one.
* `Calls`: the state in `rooms` belongs to a running start() without a stop(), so no
  producer hook reaches a state that is being torn down.

Each action has a lemma; `TakeMoves`, `CallMoves`, `TeardownKeeps` and `ClosingLinks`
say once what actions of one kind have in common.

`RecordingFilesProofs`, with or without a bucket (the run has one):

| Theorem | States |
|---|---|
| `TypeCorrect` | `Spec => []TypeOK` |
| `NothingIsLost` | `Spec => []CaptureSurvives` |
| `LinksPlay` | `Spec => []LinkPlaysUnlessUnrecorded` |
| `PagesCatchUp` | `Spec => []PageIsCurrent` |
| `FinalThumbnailKept` | `Spec => FinalThumbnailStays` |

Assumptions: `GcsBucketAssumption` and `NoneAssumption`. `Place` follows the
capture from file to file: where it came from is there only while it is to be unlinked,
and only what is elsewhere is unlinked. `Order` says which job needs which to have
begun, and `Recorded` how far the row follows the disk. `Thumbnails` is why a final
thumbnail stays: when it is begun the temp file is gone or to be unlinked, so a timer
that fires later finds nothing to read, or is `late`.
`Current` is `PageIsCurrent` before all is quiet: links are right except between a row's
update and the event that tells of it.

`RoomRecordingProofs`, for any sockets, workers, routers, producers, starts, ports and
attempts, and any bound on closings; the run has one producer and one start:

| Theorem | States |
|---|---|
| `RoomsAreImplemented` | `Spec => Rooms!Spec` |
| `RecordingIsImplemented` | `Spec => Recording!Spec` |
| `RoomPromisesKept`, `RoutersOfPeersStayOpen` | `SlotLoadCountsRooms`, `NoLeakedRouter`, `OwnWorkersPorts` and `RouterNotClosedUnderPeer` of the composition |
| `RecordingPromisesKept` | the six safety properties of `RecordingService` of the composition |
| `Invariant` | `Spec => [](Services /\ RoomRecordingInv)` |
| `RecordingStops` | `Spec => []RecordingStopsWithRoom` |
| `RouterOutlives` | `Spec => RouterOutlivesFinalization` |
| `EmptyRoomsAreNotRecorded` | a state that stays active in an empty room has no session and no ffmpeg |

Assumptions: `OneRoomAssumption`, `OwnerAssumption` (producers belong to sockets),
`SourceAssumption`, `NoneAssumption` and `BoundAssumption`.

The argument. Each step of the composition is a step of each service or leaves it
alone, so both specifications are implemented and what is proved of them carries over.
For `RoomService` that is immediate. For `RecordingService` it is not: that a last leave
is its `LastPeerLeaves` needs that whatever is live then belongs to the leaver, which is
`OnlyPeersProduce`, an invariant that takes the room's part to state and to prove. The
modules of the proofs are instances of their own (`RS`, `RP`); the `Same...` lemmas
expand both definitions to show that they say the same. On top of both services:

* `StartsKnown` is `RecordingStopsWithRoom` together with the starts that may still make
  it false: in an empty room they are all `late`.
* `NothingOnAir`: in an empty room the active state, and one whose stop is still
  renaming its row, has no session and no take that got as far as ffmpeg, since a launch
  needs live producers and there are none. So a stop that runs then finalizes nothing.
* `EndingsKnown`: whatever is being finalized in an empty room is waited for, or the
  leave that emptied the room could not wait for it. In an empty room a finalization
  begins only when a start aborts or a stop that the leave went past has renamed its
  row; by `NothingOnAir` no other stop finds anything.
* `StopsWaitedFor`: there are at least as many closings as stops that are waited for,
  and a stop that no later leave went past is the only one and has the only closing. So
  when a release is due (`ReleaseDue`), what is still quitting is not waited for.

The types of `RoomMedia`, `RoomAccess`, `PushDelivery` and `RecordingFiles` are theorems
and are not checked again by the runs.

Every safety property that a run checks is a theorem. Only model-checked: liveness
(`JoinSettles`, `EmptiedRoomReleased`, `EveryStartSettles`, `EveryStopSettles`), for
fairness and ENABLED are out of the prover's reach. The violated properties are, of
course, not theorems.

## 6. Not modelled, and why

* In recording: the list of sessions (one query) and the join/leave timeline, which is
  logged and only read back.
* In media: `connect-transport`, mute, focus and away flags, `setConsumerQuality`:
  each sets one field or passes one call on.
* In chat: sanitizing texts, attachments and emoji, the order of badges, typing
  events (nothing is kept), the chat replay of a finished recording (one query).
  The link previews' cache is planned; it is shared by rooms and has no part in
  what a message shows.
* In access: the run of wrong passcodes and its lock, expiry of invitations, guests,
  listings. In push: the choice of recipients, wording, the title cache.
* mediasoup, ffmpeg, the database and the disk are external: they answer or fail.
* Components marked `not_modelled` in `PROJECT.json` without a plan are stateless
  or do one row or one file per call.

## 7. Plan

1. `RoomService`, `RoomHosting` and their proofs (done).
2. `RecordingService` and its proofs (done).
3. `RoomMedia`, `RoomAccess`, `PushDelivery` and their proofs (done).
4. `RoomRecording` and `ChatRoom` with their proofs (done).
5. `RecordingFiles` and its proofs (done); then the previews' cache, where a later failed
   scrape replaces a good entry (`link-preview.service.ts:120`).
6. A run for a stream that is announced after its peer has left (`room.service.ts:403`),
   one for a pruned live registration, one for the link of a recording that is being
   uploaded (`recording.service.ts:286`), and what becomes of a webcam that closes while
   it is attached (`recording.service.ts:561`).
7. Pure algorithms: `planWorkerPorts`, reaction grouping.
