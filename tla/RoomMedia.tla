----------------------------- MODULE RoomMedia -----------------------------
(***************************************************************************)
(* The streams of one room (room.service.ts, room.gateway.ts): transports, *)
(* producers and consumers of the peers that come and go, and what the     *)
(* gateway tells each participant about the streams of the others.         *)
(*                                                                         *)
(* A handler keeps the IPeerState it looked up before its await, so peers  *)
(* are objects here: <<s, n>> is the n-th entry socket s had.  An entry    *)
(* ends when closePeer closes it, or when its socket repeats join-room.    *)
(* The room's router is left to RoomService, which closes it with all its  *)
(* streams once the room is empty; recording is left to RecordingService.  *)
(***************************************************************************)
EXTENDS Integers, FiniteSets

CONSTANTS
    Socket,
    Producer,       \* producer ids, each used for one producer
    Owner,          \* Owner[p]: the socket that produces p
    Source,         \* Source[p]: "mic" or "webcam"
    MaxJoins,       \* bound: MaxJoins[s], the joins of socket s
    MaxTransports,  \* bound: MaxTransports[s][d], those of one entry of s
    MaxToggles,     \* bound: pauses of one producer
    None

ASSUME OwnerAssumption == Owner \in [Producer -> Socket]
ASSUME JoinsAssumption == MaxJoins \in [Socket -> Nat]
ASSUME TransportsAssumption == MaxTransports \in [Socket -> [{"send", "recv"} -> Nat]]
ASSUME NoneAssumption == \A P \in SUBSET Producer : None # P
ASSUME TogglesAssumption == MaxToggles \in Nat
ASSUME SourceAssumption == Source \in [Producer -> {"mic", "webcam"}]

VARIABLES
    joined,         \* how many peer entries a socket has had
    present,        \* sockets with an entry in RoomService.peers
    acks,           \* existingProducers of the ack still to be sent for an entry
    view,           \* the streams a socket has been told of and not told closed
    transports,     \* sendTransport and recvTransport of each peer object
    producers,      \* where the produce handler of each is, for whom, and on what
    listed,         \* producers in the producers map of their peer object
    open,           \* producers the worker has
    paused,         \* producers that are paused
    toggles,        \* pauses so far
    consumers,      \* consumers[o][p]: the consumer of p that peer o asked for
    \* History:
    replaced        \* entries that a repeated join-room has replaced

vars == <<joined, present, acks, view, transports, producers, listed, open,
          paused, toggles, consumers, replaced>>

roomVars == <<joined, present, acks, replaced>>
streamVars == <<view, producers, listed, open>>
pauseVars == <<paused, toggles>>

Peer == UNION {{s} \X (1..MaxJoins[s]) : s \in Socket}

Direction == {"send", "recv"}

\* last: the transports assigned so far, the last of which the peer refers to; the
\* earlier ones stay open.  closed: the one that closePeer closed, 0 if none.
Transport == [creating : Nat, last : Nat, closed : Nat]

ProducePhase == {"unused", "producing", "observing", "announced", "failed"}

ConsumePhase == {"none", "requested", "layering", "ready", "resuming", "closed"}

\* key: was a keyframe asked for since frames last began to flow?  A request that
\* fails is logged and counts as one.  on: the transport, by its number.
Consumer == [phase : ConsumePhase, paused : BOOLEAN, hears : BOOLEAN,
             key : {"stale", "requested"}, on : Nat]

NoConsumer == [phase |-> "none", paused |-> TRUE, hears |-> FALSE, key |-> "stale",
               on |-> 0]

Init ==
    /\ joined = [s \in Socket |-> 0]
    /\ present = {}
    /\ acks = [o \in Peer |-> None]
    /\ view = [s \in Socket |-> {}]
    /\ transports = [o \in Peer |-> [d \in Direction |->
                        [creating |-> 0, last |-> 0, closed |-> 0]]]
    /\ producers = [p \in Producer |-> [phase |-> "unused", peer |-> None, on |-> 0]]
    /\ listed = {}
    /\ open = {}
    /\ paused = {}
    /\ toggles = [p \in Producer |-> 0]
    /\ consumers = [o \in Peer |-> [p \in Producer |-> NoConsumer]]
    /\ replaced = {}

-----------------------------------------------------------------------------
(* Helpers *)

Me(s) == <<s, joined[s]>>

\* o is the entry RoomService.peers has for its socket.
Registered(o) == o[1] \in present /\ o = Me(o[1])

HeldBy(o) == {p \in listed : producers[p].peer = o}

\* socket.to(room): everyone who has joined the socket.io room but the sender.
Audience(s) == present \ {s}

\* Does the peer object o refer to the transport it produces or consumes on?
OnLast(o, d, n) == n = transports[o][d].last

\* The worker closes consumers with their producer, and with their transport: P are
\* producers that close, and the recvTransport of o does.
EndConsumers(P, o) ==
    [q \in Peer |-> [p \in Producer |->
        IF /\ consumers[q][p].phase # "none"
           /\ p \in P \/ (q = o /\ OnLast(q, "recv", consumers[q][p].on))
        THEN [NoConsumer EXCEPT !.phase = "closed"] ELSE consumers[q][p]]]

SetPhase(p, phase) == producers' = [producers EXCEPT ![p].phase = phase]

-----------------------------------------------------------------------------
(* join-room, leave-room, disconnect *)

\* Mutant: socket.join is only awaited once the queries are done, and what the
\* room has meanwhile been told never reaches the joiner.
JoinAnsweredAlone(o) ==
    /\ acks[o] # None
    /\ view' = [view EXCEPT ![o[1]] = acks[o]]
    /\ acks' = [acks EXCEPT ![o] = None]
    /\ UNCHANGED <<joined, present, replaced, transports, producers, listed, open,
                   pauseVars, consumers>>

\* The router is there: peers.set, socket.join, and what the present entries produce
\* - the joiner's own last one among them, if it has one - is put into an ack that
\* three queries still hold up.  An entry the socket has is replaced and not closed.
JoinRoom(s) ==
    /\ joined[s] < MaxJoins[s]
    /\ joined' = [joined EXCEPT ![s] = @ + 1]
    /\ acks' = [acks EXCEPT ![<<s, joined[s] + 1>>] = UNION {HeldBy(Me(t)) : t \in present}]
    /\ present' = present \union {s}
    /\ replaced' = IF s \in present THEN replaced \union {Me(s)} ELSE replaced
    /\ UNCHANGED <<streamVars, transports, pauseVars, consumers>>

JoinAnswered(o) ==
    /\ acks[o] # None
    /\ view' = [view EXCEPT ![o[1]] = @ \union acks[o]]
    /\ acks' = [acks EXCEPT ![o] = None]
    /\ UNCHANGED <<joined, present, replaced, transports, producers, listed, open,
                   pauseVars, consumers>>

\* The client that leaves is told nothing more; the others get producer-closed for
\* each producer of its entry.
TellGone(s) ==
    /\ acks' = [o \in Peer |-> IF o[1] = s THEN None ELSE acks[o]]
    /\ view' = [t \in Socket |-> IF t = s THEN {} ELSE view[t] \ HeldBy(Me(s))]

\* Mutant: the send transport is left open.
ClosePeerKeepingSend(s) ==
    /\ s \in present
    /\ present' = present \ {s}
    /\ TellGone(s)
    /\ transports' = [transports EXCEPT ![Me(s)]["recv"].closed =
                            transports[Me(s)]["recv"].last]
    /\ consumers' = EndConsumers({}, Me(s))
    /\ UNCHANGED <<joined, replaced, producers, listed, open, pauseVars>>

\* closePeer closes the two transports the entry refers to now: not one that is
\* still being created, nor one that another was assigned over.
ClosePeer(s) ==
    LET o == Me(s)
        ended == {p \in open : producers[p].peer = o /\ OnLast(o, "send", producers[p].on)}
    IN
    /\ s \in present
    /\ present' = present \ {s}
    /\ TellGone(s)
    /\ transports' = [transports EXCEPT ![o] =
            [d \in Direction |-> [transports[o][d] EXCEPT !.closed = transports[o][d].last]]]
    /\ open' = open \ ended
    /\ consumers' = EndConsumers(ended, o)
    /\ UNCHANGED <<joined, replaced, producers, listed, pauseVars>>

-----------------------------------------------------------------------------
(* create-transport *)

Requested(o, d) == transports[o][d].creating + transports[o][d].last

\* Nothing asks whether the entry has such a transport, or one on its way.
CreateTransport(s, d) ==
    /\ s \in present
    /\ Requested(Me(s), d) < MaxTransports[s][d]
    /\ transports' = [transports EXCEPT ![Me(s)][d].creating = @ + 1]
    /\ UNCHANGED <<roomVars, streamVars, pauseVars, consumers>>

\* Assigned to the peer object, registered or not, over the one that is there.
TransportCreated(o, d) ==
    /\ transports[o][d].creating > 0
    /\ transports' = [transports EXCEPT ![o][d].creating = @ - 1, ![o][d].last = @ + 1]
    /\ UNCHANGED <<roomVars, streamVars, pauseVars, consumers>>

TransportFailed(o, d) ==
    /\ transports[o][d].creating > 0
    /\ transports' = [transports EXCEPT ![o][d].creating = @ - 1]
    /\ UNCHANGED <<roomVars, streamVars, pauseVars, consumers>>

-----------------------------------------------------------------------------
(* produce, close-producer, pause-producer, resume-producer *)

Produce(s, p) ==
    /\ s \in present
    /\ Owner[p] = s
    /\ producers[p].phase = "unused"
    /\ transports[Me(s)]["send"].last > 0
    /\ producers' = [producers EXCEPT ![p] = [phase |-> "producing", peer |-> Me(s),
                                              on |-> transports[Me(s)]["send"].last]]
    /\ UNCHANGED <<roomVars, view, listed, open, transports, pauseVars, consumers>>

\* The gateway's new-producer, and the id to the owner.
Announce(p) ==
    /\ SetPhase(p, "announced")
    /\ view' = [t \in Socket |->
                    IF t \in Audience(Owner[p]) THEN view[t] \union {p} ELSE view[t]]

\* The worker's answer.  It has the producer unless the transport was closed;
\* the handler goes on either way, and a mic waits for the audio observer.
Produced(p) ==
    /\ producers[p].phase = "producing"
    /\ listed' = listed \union {p}
    /\ open' = IF producers[p].on = transports[producers[p].peer]["send"].closed
               THEN open ELSE open \union {p}
    /\ IF Source[p] = "mic" THEN SetPhase(p, "observing") /\ UNCHANGED view
                            ELSE Announce(p)
    /\ UNCHANGED <<roomVars, transports, pauseVars, consumers>>

ProduceFailed(p) ==
    /\ producers[p].phase = "producing"
    /\ SetPhase(p, "failed")
    /\ UNCHANGED <<roomVars, view, listed, open, transports, pauseVars, consumers>>

MicObserved(p) ==
    /\ producers[p].phase = "observing"
    /\ Announce(p)
    /\ UNCHANGED <<roomVars, listed, open, transports, pauseVars, consumers>>

\* addProducer rejects and so does produce; the producer stays.
MicNotObserved(p) ==
    /\ producers[p].phase = "observing"
    /\ SetPhase(p, "failed")
    /\ UNCHANGED <<roomVars, view, listed, open, transports, pauseVars, consumers>>

\* The owner was given the id and its present entry has the producer.
Controls(s, p) ==
    /\ producers[p].phase = "announced"
    /\ s \in present
    /\ p \in HeldBy(Me(s))

CloseProducer(s, p) ==
    /\ Controls(s, p)
    /\ listed' = listed \ {p}
    /\ open' = open \ {p}
    /\ view' = [t \in Socket |-> IF t \in Audience(s) THEN view[t] \ {p} ELSE view[t]]
    /\ consumers' = EndConsumers({p}, None)
    /\ UNCHANGED <<roomVars, producers, transports, pauseVars>>

PauseProducer(s, p) ==
    /\ Controls(s, p)
    /\ p \notin paused
    /\ toggles[p] < MaxToggles
    /\ paused' = paused \union {p}
    /\ toggles' = [toggles EXCEPT ![p] = @ + 1]
    /\ UNCHANGED <<roomVars, streamVars, transports, consumers>>

\* Consumers that listen for producerresume ask for a keyframe; frames start to
\* flow again in every consumer that is not paused itself.
ResumeProducer(s, p) ==
    /\ Controls(s, p)
    /\ p \in paused
    /\ paused' = paused \ {p}
    /\ consumers' = [o \in Peer |-> [consumers[o] EXCEPT ![p].key =
            IF consumers[o][p].hears THEN "requested" ELSE "stale"]]
    /\ UNCHANGED <<roomVars, streamVars, transports, toggles>>

-----------------------------------------------------------------------------
(* consume, resume-consumer *)

SetConsumer(o, p, c) == consumers' = [consumers EXCEPT ![o][p] = c]

\* The client consumes what it was told of; canConsume wants a live producer.
\* Bound: one consumer of p for each entry.
Consume(s, p) ==
    /\ s \in present
    /\ p \in view[s] \intersect open
    /\ transports[Me(s)]["recv"].last > 0
    /\ consumers[Me(s)][p].phase = "none"
    /\ SetConsumer(Me(s), p, [NoConsumer EXCEPT !.phase = "requested",
                                               !.on = transports[Me(s)]["recv"].last])
    /\ UNCHANGED <<roomVars, streamVars, transports, pauseVars>>

\* Audio is ready at once, video first sets its layers; should that fail, the
\* consumer stays where it is and its client never learns of it.
ConsumerCreated(o, p) ==
    /\ consumers[o][p].phase = "requested"
    /\ SetConsumer(o, p, [consumers[o][p] EXCEPT
            !.phase = IF Source[p] = "mic" THEN "ready" ELSE "layering"])
    /\ UNCHANGED <<roomVars, streamVars, transports, pauseVars>>

ConsumeFailed(o, p) ==
    /\ consumers[o][p].phase = "requested"
    /\ SetConsumer(o, p, [consumers[o][p] EXCEPT !.phase = "closed"])
    /\ UNCHANGED <<roomVars, streamVars, transports, pauseVars>>

\* Mutant: the handler is never registered.
LayersSetDeaf(o, p) ==
    /\ consumers[o][p].phase = "layering"
    /\ SetConsumer(o, p, [consumers[o][p] EXCEPT !.phase = "ready"])
    /\ UNCHANGED <<roomVars, streamVars, transports, pauseVars>>

\* The producerresume handler goes in, and the ack goes out.
LayersSet(o, p) ==
    /\ consumers[o][p].phase = "layering"
    /\ SetConsumer(o, p, [consumers[o][p] EXCEPT !.phase = "ready", !.hears = TRUE])
    /\ UNCHANGED <<roomVars, streamVars, transports, pauseVars>>

\* resume(): frames flow, and for video a keyframe is yet to be asked for.  A client
\* may resume again.
ResumeConsumer(s, p) ==
    LET c == consumers[Me(s)][p] IN
    /\ s \in present
    /\ c.phase \in {"ready", "resuming"}
    /\ SetConsumer(Me(s), p, [c EXCEPT !.paused = FALSE,
            !.phase = IF Source[p] = "webcam" THEN "resuming" ELSE @])
    /\ UNCHANGED <<roomVars, streamVars, transports, pauseVars>>

\* requestKeyFrame(), of which a failure is caught and logged.
KeyframeRequested(o, p) ==
    /\ consumers[o][p].phase = "resuming"
    /\ SetConsumer(o, p, [consumers[o][p] EXCEPT !.phase = "ready", !.key = "requested"])
    /\ UNCHANGED <<roomVars, streamVars, transports, pauseVars>>

-----------------------------------------------------------------------------

HandlerStep(o, p) ==
    \/ ConsumerCreated(o, p) \/ ConsumeFailed(o, p)
    \/ LayersSet(o, p) \/ KeyframeRequested(o, p)

ProduceStep(p) ==
    Produced(p) \/ ProduceFailed(p) \/ MicObserved(p) \/ MicNotObserved(p)

Next ==
    \/ \E s \in Socket : JoinRoom(s) \/ ClosePeer(s)
    \/ \E o \in Peer : JoinAnswered(o)
    \/ \E s \in Socket, d \in Direction : CreateTransport(s, d)
    \/ \E o \in Peer, d \in Direction : TransportCreated(o, d) \/ TransportFailed(o, d)
    \/ \E s \in Socket, p \in Producer :
        \/ Produce(s, p) \/ CloseProducer(s, p)
        \/ PauseProducer(s, p) \/ ResumeProducer(s, p)
        \/ Consume(s, p) \/ ResumeConsumer(s, p)
    \/ \E p \in Producer : ProduceStep(p)
    \/ \E o \in Peer, p \in Producer : HandlerStep(o, p)

Spec == Init /\ [][Next]_vars

-----------------------------------------------------------------------------
(* Properties *)

TypeOK ==
    /\ joined \in [Socket -> Nat] /\ \A s \in Socket : joined[s] <= MaxJoins[s]
    /\ present \subseteq Socket
    /\ acks \in [Peer -> (SUBSET Producer) \union {None}]
    /\ view \in [Socket -> SUBSET Producer]
    /\ transports \in [Peer -> [Direction -> Transport]]
    /\ producers \in [Producer -> [phase : ProducePhase, peer : Peer \union {None}, on : Nat]]
    /\ listed \subseteq Producer
    /\ open \subseteq Producer
    /\ paused \subseteq Producer
    /\ toggles \in [Producer -> 0..MaxToggles]
    /\ consumers \in [Peer -> [Producer -> Consumer]]
    /\ replaced \subseteq Peer

\* Every participant whose last join was answered knows every announced live stream of
\* the others who are present, whether it started before, during or after the join, on
\* whichever of its owner's transports.  What an entry that is gone has left behind is
\* in no roster any more.
NoStreamMissing ==
    \A s \in present, p \in Producer :
        /\ acks[Me(s)] = None
        /\ producers[p].phase = "announced"
        /\ p \in open
        /\ Owner[p] # s
        /\ Registered(producers[p].peer)
        => p \in view[s]

\* What closePeer did not reach, or will not: it never came for the entry, which was
\* replaced, or closed the transport that was assigned over this one.
OutOfReach(o, d, n) == o \in replaced \/ n < transports[o][d].closed

\* Nothing flows for a peer that is gone, whatever produce or consume handlers of its
\* old entry still do: the worker has a producer only for the registered entry that
\* lists it, and open consumers only for registered entries.  A replaced entry and an
\* overwritten transport are the only ways out of "Tears down everything owned by a
\* disconnecting peer" (closePeer).
NoOrphanStream ==
    /\ \A p \in open :
        \/ p \in listed /\ Registered(producers[p].peer)
        \/ OutOfReach(producers[p].peer, "send", producers[p].on)
    /\ \A o \in Peer, p \in Producer :
        consumers[o][p].phase \notin {"none", "closed"} =>
            /\ p \in open
            /\ Registered(o) \/ OutOfReach(o, "recv", consumers[o][p].on)

\* A video that flows to a viewer has had a keyframe requested since it last
\* began to flow: no tile waits black for the sender's own schedule.
KeyframeFollows ==
    \A o \in Peer, p \in Producer :
        Source[p] = "webcam" /\ p \notin paused
            /\ consumers[o][p].phase = "ready" /\ ~consumers[o][p].paused
        => consumers[o][p].key = "requested"

=============================================================================
