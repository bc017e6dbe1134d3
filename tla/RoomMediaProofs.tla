--------------------------- MODULE RoomMediaProofs ---------------------------
(***************************************************************************)
(* Proofs about RoomMedia for any sockets, any streams of theirs, and any  *)
(* number of joins and pauses.                                             *)
(***************************************************************************)
EXTENDS RoomMedia, TLAPS

\* Types, and that whoever is present has joined.
Types ==
    /\ joined \in [Socket -> Nat] /\ \A s \in Socket : joined[s] <= MaxJoins[s]
    /\ present \subseteq Socket /\ \A s \in present : joined[s] >= 1
    /\ acks \in [Peer -> (SUBSET Producer) \union {None}]
    /\ view \in [Socket -> SUBSET Producer]
    /\ transports \in [Peer -> [Direction -> Transport]]
    /\ producers \in [Producer -> [phase : ProducePhase, peer : Peer \union {None}, on : Nat]]
    /\ listed \subseteq Producer
    /\ open \subseteq Producer
    /\ paused \subseteq Producer
    /\ toggles \in [Producer -> 0..MaxToggles]
    /\ consumers \in [Peer -> [Producer -> Consumer]]
    /\ replaced \subseteq Peer

\* closePeer has closed nothing of an entry that is registered or is still to come.
Unclosed ==
    \A o \in Peer, d \in Direction :
        Registered(o) \/ o[2] > joined[o[1]] => transports[o][d].closed = 0

\* What was begun on the n-th transport of o was begun while o was registered.  Since
\* then closePeer has come for o - for this transport, or a later one that had been
\* assigned over it - or never will, o having been replaced.
Rides(o, d, n) ==
    /\ n \in 1..transports[o][d].last
    /\ Registered(o) \/ o \in replaced \/ n <= transports[o][d].closed

\* A produce handler works for an entry its owner has had.
Produces ==
    \A p \in Producer : producers[p].phase # "unused" =>
        /\ producers[p].peer \in Peer /\ producers[p].peer[1] = Owner[p]
        /\ producers[p].peer[2] <= joined[Owner[p]]
        /\ Rides(producers[p].peer, "send", producers[p].on)

\* A listed producer is past the worker's answer; the worker's producers are listed,
\* on transports it has not closed.
Lists ==
    /\ \A p \in listed : producers[p].phase \notin {"unused", "producing"}
    /\ \A p \in open :
        p \in listed /\ producers[p].on # transports[producers[p].peer]["send"].closed

Consumes ==
    \A o \in Peer, p \in Producer : consumers[o][p].phase \notin {"none", "closed"} =>
        /\ p \in open
        /\ Rides(o, "recv", consumers[o][p].on)
        /\ consumers[o][p].on # transports[o]["recv"].closed

\* An announced live stream of a present entry is known, or in the ack under way.
Knows ==
    \A s \in present, p \in open :
        /\ producers[p].phase = "announced" /\ Owner[p] # s
        /\ Registered(producers[p].peer)
        => p \in view[s] \/ (acks[Me(s)] # None /\ p \in acks[Me(s)])

\* Video waits paused until its layers are set, and listens from then on.
Listens(c) ==
    /\ c.phase \in {"requested", "layering"} => c.paused
    /\ c.phase \in {"ready", "resuming"} => c.hears

Keyframes ==
    \A o \in Peer, p \in Producer : Source[p] = "webcam" =>
        /\ Listens(consumers[o][p])
        /\ p \notin paused /\ consumers[o][p].phase = "ready" /\ ~consumers[o][p].paused
              => consumers[o][p].key = "requested"

Inv == Types /\ Unclosed /\ Produces /\ Lists /\ Consumes /\ Knows /\ Keyframes

-----------------------------------------------------------------------------
(* Entries *)

\* The present entry of a socket is one of its own.
LEMMA MyEntry ==
  ASSUME Types, NEW s \in present
  PROVE  Me(s) \in Peer /\ Me(s)[1] = s /\ Registered(Me(s))
<1>1. s \in Socket /\ joined[s] \in 1..MaxJoins[s]
  BY JoinsAssumption DEF Types
<1>2. Me(s) \in {s} \X (1..MaxJoins[s])
  BY <1>1 DEF Me
<1> QED
  BY <1>1, <1>2 DEF Me, Peer, Registered

\* A peer object is the entry of a socket.
LEMMA EntryOfSocket ==
  ASSUME NEW o \in Peer
  PROVE  o[1] \in Socket
BY DEF Peer

\* What a step does not change of entries and transports.
SameEntries ==
    /\ joined' = joined /\ present' = present /\ replaced' = replaced
    /\ transports' = transports

LEMMA EntriesKept ==
  ASSUME SameEntries
  PROVE  /\ \A o : Registered(o)' <=> Registered(o)
         /\ \A t : Me(t)' = Me(t)
         /\ \A o, d, n : Rides(o, d, n)' <=> Rides(o, d, n)
         /\ Unclosed => Unclosed'
BY DEF SameEntries, Registered, Me, Rides, Unclosed

\* A join registers the new entry and ends the registration of the one it replaces.
LEMMA Comings ==
  ASSUME Types, NEW s \in Socket, JoinRoom(s), NEW o \in Peer
  PROVE  /\ Registered(o)' => (Registered(o) /\ o # Me(s)) \/ o = <<s, joined[s] + 1>>
         /\ Registered(o) => Registered(o)' \/ o \in replaced'
         /\ joined[o[1]] <= joined'[o[1]]
<1>1. /\ present' = present \union {s} /\ joined' = [joined EXCEPT ![s] = @ + 1]
      /\ s \in present => replaced' = replaced \union {Me(s)}
      /\ joined \in [Socket -> Nat]
  BY DEF JoinRoom, Types
<1>2. PICK t \in Socket, n \in Nat : o = <<t, n>>
  BY JoinsAssumption DEF Peer
<1>3. CASE t = s
  BY <1>1, <1>2, <1>3 DEF Registered, Me
<1>4. CASE t # s
  BY <1>1, <1>2, <1>4 DEF Registered, Me
<1> QED
  BY <1>3, <1>4

LEMMA Goings ==
  ASSUME Types, NEW s \in Socket, ClosePeer(s), NEW o
  PROVE  Registered(o)' <=> Registered(o) /\ o # Me(s)
<1>1. present' = present \ {s} /\ joined' = joined /\ s \in present
  BY DEF ClosePeer
<1>2. Me(s)[1] = s
  BY DEF Me
<1>3. ASSUME Registered(o), o # Me(s)
      PROVE  o[1] # s
  BY <1>3 DEF Registered
<1> QED
  BY <1>1, <1>2, <1>3 DEF Registered, Me

\* One consumer changes.
LEMMA OneConsumer ==
  ASSUME consumers \in [Peer -> [Producer -> Consumer]],
         NEW o \in Peer, NEW p \in Producer, NEW c \in Consumer, SetConsumer(o, p, c)
  PROVE  /\ consumers' \in [Peer -> [Producer -> Consumer]]
         /\ \A q \in Peer, r \in Producer :
              consumers'[q][r] = IF q = o /\ r = p THEN c ELSE consumers[q][r]
BY DEF SetConsumer

\* The consumers that end are closed, the others stay as they are.
LEMMA Ended ==
  ASSUME consumers \in [Peer -> [Producer -> Consumer]], NEW P, NEW x,
         consumers' = EndConsumers(P, x)
  PROVE  /\ consumers' \in [Peer -> [Producer -> Consumer]]
         /\ \A q \in Peer, r \in Producer :
              \/ consumers'[q][r].phase = "closed"
              \/ consumers'[q][r] = consumers[q][r]
         /\ \A q \in Peer, r \in Producer :
              (r \in P \/ (q = x /\ OnLast(q, "recv", consumers[q][r].on)))
                  => consumers'[q][r].phase \in {"none", "closed"}
<1> DEFINE over == [NoConsumer EXCEPT !.phase = "closed"]
           ends(q, r) == r \in P \/ (q = x /\ OnLast(q, "recv", consumers[q][r].on))
<1>1. over \in Consumer /\ over.phase = "closed"
  BY DEF NoConsumer, Consumer, ConsumePhase
<1>2. consumers' = [q \in Peer |-> [p \in Producer |->
        IF consumers[q][p].phase # "none" /\ ends(q, p)
        THEN over ELSE consumers[q][p]]]
  BY DEF EndConsumers
<1> HIDE DEF over, ends
<1>3. \A q \in Peer, r \in Producer :
        consumers'[q][r] = IF consumers[q][r].phase # "none" /\ ends(q, r)
                           THEN over ELSE consumers[q][r]
  BY <1>2
<1>4. consumers' \in [Peer -> [Producer -> Consumer]]
  BY <1>1, <1>2
<1> QED
  BY <1>1, <1>3, <1>4 DEF ends

\* Closed consumers wait for no keyframe.
LEMMA KeyframesKept ==
  ASSUME Keyframes, paused' = paused,
         \A q \in Peer, r \in Producer :
              \/ consumers'[q][r].phase = "closed"
              \/ consumers'[q][r] = consumers[q][r]
  PROVE  Keyframes'
<1> SUFFICES ASSUME NEW q \in Peer, NEW r \in Producer, Source[r] = "webcam"
             PROVE  /\ Listens(consumers[q][r])'
                    /\ r \notin paused' /\ consumers'[q][r].phase = "ready"
                          /\ ~consumers'[q][r].paused => consumers'[q][r].key = "requested"
  BY DEF Keyframes
<1>1. CASE consumers'[q][r].phase = "closed"
  BY <1>1 DEF Listens
<1>2. CASE consumers'[q][r] = consumers[q][r]
  BY <1>2 DEF Keyframes, Listens
<1> QED
  BY <1>1, <1>2

-----------------------------------------------------------------------------
(* Steps that change consumers only *)

\* What consume and resume-consumer make of a consumer.
LEMMA ConsumerSteps ==
  ASSUME Inv, NEW o \in Peer, NEW p \in Producer, NEW c \in Consumer,
         SetConsumer(o, p, c),
         UNCHANGED <<roomVars, streamVars, transports, pauseVars>>,
         c.phase \notin {"none", "closed"} =>
             /\ p \in open /\ Rides(o, "recv", c.on)
             /\ c.on # transports[o]["recv"].closed,
         Source[p] = "webcam" =>
             /\ Listens(c)
             /\ p \notin paused /\ c.phase = "ready" /\ ~c.paused => c.key = "requested"
  PROVE  Inv'
<1>0. Types /\ Unclosed /\ Produces /\ Lists /\ Consumes /\ Knows /\ Keyframes
  BY DEF Inv
<1>1. /\ UNCHANGED <<acks, view, producers, listed, open, transports, paused, toggles>>
      /\ SameEntries
      /\ consumers' \in [Peer -> [Producer -> Consumer]]
      /\ \A q \in Peer, r \in Producer :
              consumers'[q][r] = IF q = o /\ r = p THEN c ELSE consumers[q][r]
  BY <1>0, OneConsumer DEF Types, roomVars, streamVars, pauseVars, SameEntries
<1>2. /\ \A q : Registered(q)' <=> Registered(q)
      /\ \A q : Me(q)' = Me(q)
      /\ \A q, d, n : Rides(q, d, n)' <=> Rides(q, d, n)
      /\ Unclosed'
  BY <1>0, <1>1, EntriesKept
<1>3. Types'
  BY <1>0, <1>1 DEF Types, SameEntries
<1>4. Produces' /\ Lists' /\ Knows'
  BY <1>0, <1>1, <1>2 DEF Produces, Lists, Knows, SameEntries
<1>5. Consumes'
  <2> SUFFICES ASSUME NEW q \in Peer, NEW r \in Producer,
                      consumers'[q][r].phase \notin {"none", "closed"}
               PROVE  /\ r \in open' /\ Rides(q, "recv", consumers'[q][r].on)
                      /\ consumers'[q][r].on # transports'[q]["recv"].closed
    BY <1>2 DEF Consumes
  <2>1. CASE q = o /\ r = p
    BY <1>1, <2>1
  <2>2. CASE ~(q = o /\ r = p)
    BY <1>0, <1>1, <2>2 DEF Consumes
  <2> QED
    BY <2>1, <2>2
<1>6. Keyframes'
  BY <1>0, <1>1 DEF Keyframes, Listens
<1> QED
  BY <1>2, <1>3, <1>4, <1>5, <1>6 DEF Inv

LEMMA HandlerSteps ==
  ASSUME Inv, NEW o \in Peer, NEW p \in Producer, HandlerStep(o, p)
  PROVE  Inv'
<1> DEFINE old == consumers[o][p]
<1>0. /\ old \in Consumer
      /\ old.phase \notin {"none", "closed"} =>
            /\ p \in open /\ Rides(o, "recv", old.on)
            /\ old.on # transports[o]["recv"].closed
      /\ Source[p] = "webcam" => Listens(old)
      /\ Source[p] \in {"mic", "webcam"}
  BY SourceAssumption DEF Inv, Types, Consumes, Keyframes
<1>1. CASE ConsumerCreated(o, p)
  <2>1. PICK c : c = [old EXCEPT !.phase = IF Source[p] = "mic" THEN "ready" ELSE "layering"]
    OBVIOUS
  <2>2. /\ c \in Consumer /\ c.paused = old.paused /\ c.on = old.on
        /\ c.phase = IF Source[p] = "mic" THEN "ready" ELSE "layering"
    BY <1>0, <2>1 DEF Consumer, ConsumePhase
  <2>3. /\ old.phase = "requested" /\ SetConsumer(o, p, c)
        /\ UNCHANGED <<roomVars, streamVars, transports, pauseVars>>
    BY <1>1, <2>1 DEF ConsumerCreated
  <2> HIDE DEF old
  <2> QED
    BY <1>0, <2>2, <2>3, ConsumerSteps DEF Listens
<1>2. CASE ConsumeFailed(o, p)
  <2>1. PICK c : c = [old EXCEPT !.phase = "closed"]
    OBVIOUS
  <2>2. c \in Consumer /\ c.phase = "closed"
    BY <1>0, <2>1 DEF Consumer, ConsumePhase
  <2>3. /\ SetConsumer(o, p, c)
        /\ UNCHANGED <<roomVars, streamVars, transports, pauseVars>>
    BY <1>2, <2>1 DEF ConsumeFailed
  <2> HIDE DEF old
  <2> QED
    BY <2>2, <2>3, ConsumerSteps DEF Listens
<1>3. CASE LayersSet(o, p)
  <2>1. PICK c : c = [old EXCEPT !.phase = "ready", !.hears = TRUE]
    OBVIOUS
  <2>2. c \in Consumer /\ c.phase = "ready" /\ c.hears /\ c.paused = old.paused
        /\ c.on = old.on
    BY <1>0, <2>1 DEF Consumer, ConsumePhase
  <2>3. /\ old.phase = "layering" /\ SetConsumer(o, p, c)
        /\ UNCHANGED <<roomVars, streamVars, transports, pauseVars>>
    BY <1>3, <2>1 DEF LayersSet
  <2> HIDE DEF old
  <2> QED
    BY <1>0, <2>2, <2>3, ConsumerSteps DEF Listens
<1>4. CASE KeyframeRequested(o, p)
  <2>1. PICK c : c = [old EXCEPT !.phase = "ready", !.key = "requested"]
    OBVIOUS
  <2>2. c \in Consumer /\ c.phase = "ready" /\ c.key = "requested" /\ c.hears = old.hears
        /\ c.on = old.on
    BY <1>0, <2>1 DEF Consumer, ConsumePhase
  <2>3. /\ old.phase = "resuming" /\ SetConsumer(o, p, c)
        /\ UNCHANGED <<roomVars, streamVars, transports, pauseVars>>
    BY <1>4, <2>1 DEF KeyframeRequested
  <2> HIDE DEF old
  <2> QED
    BY <1>0, <2>2, <2>3, ConsumerSteps DEF Listens
<1> QED
  BY <1>1, <1>2, <1>3, <1>4 DEF HandlerStep

LEMMA RequestSteps ==
  ASSUME Inv, NEW s \in Socket, NEW p \in Producer, Consume(s, p) \/ ResumeConsumer(s, p)
  PROVE  Inv'
<1>0. Types /\ s \in present
  BY DEF Inv, Consume, ResumeConsumer
<1>1. Me(s) \in Peer /\ Registered(Me(s))
  BY <1>0, MyEntry
<1>2. CASE Consume(s, p)
  <2> DEFINE n == transports[Me(s)]["recv"].last
  <2>1. PICK c : c = [NoConsumer EXCEPT !.phase = "requested", !.on = n]
    OBVIOUS
  <2>2. "recv" \in Direction /\ transports[Me(s)]["recv"] \in Transport
    BY <1>0, <1>1 DEF Types, Direction
  <2>3. n \in Nat /\ transports[Me(s)]["recv"].closed = 0
    BY <1>1, <2>2 DEF Inv, Unclosed, Transport
  <2>4. c \in Consumer /\ c.phase = "requested" /\ c.paused /\ c.on = n
    BY <2>1, <2>3 DEF NoConsumer, Consumer, ConsumePhase
  <2>5. /\ p \in open /\ n > 0 /\ SetConsumer(Me(s), p, c)
        /\ UNCHANGED <<roomVars, streamVars, transports, pauseVars>>
    BY <1>2, <2>1 DEF Consume
  <2>6. Rides(Me(s), "recv", n) /\ n # transports[Me(s)]["recv"].closed
    BY <1>1, <2>3, <2>5 DEF Rides
  <2> HIDE DEF n
  <2> QED
    BY <1>1, <2>4, <2>5, <2>6, ConsumerSteps DEF Listens
<1>3. CASE ResumeConsumer(s, p)
  <2> DEFINE old == consumers[Me(s)][p]
  <2>1. PICK c : c = [old EXCEPT !.paused = FALSE,
                        !.phase = IF Source[p] = "webcam" THEN "resuming" ELSE @]
    OBVIOUS
  <2>2. /\ old \in Consumer /\ old.phase \in {"ready", "resuming"}
        /\ p \in open /\ Rides(Me(s), "recv", old.on)
        /\ old.on # transports[Me(s)]["recv"].closed
        /\ Source[p] = "webcam" => Listens(old)
    BY <1>1, <1>3 DEF ResumeConsumer, Inv, Types, Consumes, Keyframes
  <2>3. /\ c \in Consumer /\ c.hears = old.hears /\ c.on = old.on
        /\ c.phase = IF Source[p] = "webcam" THEN "resuming" ELSE old.phase
    BY <2>1, <2>2 DEF Consumer, ConsumePhase
  <2>4. /\ SetConsumer(Me(s), p, c)
        /\ UNCHANGED <<roomVars, streamVars, transports, pauseVars>>
    BY <1>3, <2>1 DEF ResumeConsumer
  <2> HIDE DEF old
  <2> QED
    BY <1>1, <2>2, <2>3, <2>4, ConsumerSteps DEF Listens
<1> QED
  BY <1>2, <1>3

-----------------------------------------------------------------------------
(* create-transport, pause and resume *)

\* A transport is asked for, or assigned over the last one: what rides on a transport
\* stays on it, and none is closed.
LEMMA TransportSteps ==
  ASSUME Inv, NEW o \in Peer, NEW d \in Direction, NEW new \in Transport,
         transports' = [transports EXCEPT ![o][d] = new],
         new.closed = transports[o][d].closed, new.last >= transports[o][d].last,
         UNCHANGED <<roomVars, streamVars, pauseVars, consumers>>
  PROVE  Inv'
<1>0. Types /\ Unclosed /\ Produces /\ Lists /\ Consumes /\ Knows /\ Keyframes
  BY DEF Inv
<1>1. /\ UNCHANGED <<joined, present, acks, replaced, view, producers, listed, open,
                     consumers, paused, toggles>>
      /\ transports' \in [Peer -> [Direction -> Transport]]
      /\ \A q \in Peer, e \in Direction :
              transports'[q][e] = IF q = o /\ e = d THEN new ELSE transports[q][e]
  BY <1>0 DEF Types, roomVars, streamVars, pauseVars
<1>2. \A q \in Peer, e \in Direction :
        /\ transports[q][e] \in Transport
        /\ transports'[q][e] \in Transport
        /\ transports'[q][e].closed = transports[q][e].closed
        /\ transports'[q][e].last >= transports[q][e].last
  BY <1>0, <1>1 DEF Types, Transport
<1>3. /\ \A q : Registered(q)' <=> Registered(q)
      /\ \A q : Me(q)' = Me(q)
  BY <1>1 DEF Registered, Me
<1>4. ASSUME NEW q \in Peer, NEW e \in Direction, NEW n, Rides(q, e, n)
      PROVE  Rides(q, e, n)'
  <2>1. transports[q][e].last \in Nat /\ transports'[q][e].last \in Nat
    BY <1>2 DEF Transport
  <2>2. n \in 1..transports'[q][e].last
    BY <1>2, <1>4, <2>1 DEF Rides
  <2> QED
    BY <1>1, <1>2, <1>3, <1>4, <2>2 DEF Rides
<1> USE DEF Direction
<1>5. Types' /\ Unclosed'
  BY <1>0, <1>1, <1>2, <1>3 DEF Types, Unclosed
<1>6. Produces'
  BY <1>0, <1>1, <1>4 DEF Produces
<1>7. Lists'
  <2>1. \A p \in open : producers[p].peer \in Peer
    BY <1>0 DEF Lists, Produces, Types
  <2> QED
    BY <1>0, <1>1, <1>2, <2>1 DEF Lists
<1>8. Consumes'
  BY <1>0, <1>1, <1>2, <1>4 DEF Consumes
<1>9. Knows' /\ Keyframes'
  BY <1>0, <1>1, <1>3 DEF Knows, Keyframes, Listens
<1> QED
  BY <1>5, <1>6, <1>7, <1>8, <1>9 DEF Inv

LEMMA CreateSteps ==
  ASSUME Inv, NEW s \in Socket, NEW d \in Direction, CreateTransport(s, d)
  PROVE  Inv'
<1>1. s \in present /\ Types
  BY DEF CreateTransport, Inv
<1>2. Me(s) \in Peer
  BY <1>1, MyEntry
<1>3. PICK old \in Transport : old = transports[Me(s)][d]
  BY <1>1, <1>2 DEF Types
<1>4. PICK new : new = [old EXCEPT !.creating = @ + 1]
  OBVIOUS
<1>5. new \in Transport /\ new.closed = old.closed /\ new.last = old.last
  BY <1>4 DEF Transport
<1>6. transports' = [transports EXCEPT ![Me(s)][d] = new]
  BY <1>3, <1>4 DEF CreateTransport
<1>7. new.last >= old.last
  BY <1>5 DEF Transport
<1> QED
  BY <1>2, <1>3, <1>5, <1>6, <1>7, TransportSteps DEF CreateTransport

LEMMA CreatedSteps ==
  ASSUME Inv, NEW o \in Peer, NEW d \in Direction,
         TransportCreated(o, d) \/ TransportFailed(o, d)
  PROVE  Inv'
<1>1. PICK old \in Transport : old = transports[o][d]
  BY DEF Inv, Types
<1>2. old.creating \in Nat /\ old.creating > 0 /\ old.last \in Nat
  BY <1>1 DEF Transport, TransportCreated, TransportFailed
<1>3. CASE TransportCreated(o, d)
  <2>1. PICK new : new = [old EXCEPT !.creating = @ - 1, !.last = @ + 1]
    OBVIOUS
  <2>2. new \in Transport /\ new.closed = old.closed /\ new.last >= old.last
    <3>1. new = [old EXCEPT !.creating = old.creating - 1, !.last = old.last + 1]
      BY <2>1
    <3>2. old.creating - 1 \in Nat /\ old.last + 1 \in Nat
      BY <1>2
    <3>3. /\ new.closed = old.closed /\ new.last = old.last + 1
          /\ new \in Transport
      BY <3>1, <3>2 DEF Transport
    <3> QED
      BY <1>2, <3>3
  <2>3. transports' = [transports EXCEPT ![o][d] = new]
    BY <1>1, <1>3, <2>1 DEF TransportCreated
  <2> QED
    BY <1>1, <1>3, <2>2, <2>3, TransportSteps DEF TransportCreated
<1>4. CASE TransportFailed(o, d)
  <2>1. PICK new : new = [old EXCEPT !.creating = @ - 1]
    OBVIOUS
  <2>2. new \in Transport /\ new.closed = old.closed /\ new.last >= old.last
    BY <1>2, <2>1 DEF Transport
  <2>3. transports' = [transports EXCEPT ![o][d] = new]
    BY <1>1, <1>4, <2>1 DEF TransportFailed
  <2> QED
    BY <1>1, <1>4, <2>2, <2>3, TransportSteps DEF TransportFailed
<1> QED
  BY <1>3, <1>4

\* Pauses; a resumed producer asks for a keyframe for every consumer that listens.
LEMMA PauseSteps ==
  ASSUME Inv, NEW s \in Socket, NEW p \in Producer, PauseProducer(s, p) \/ ResumeProducer(s, p)
  PROVE  Inv'
<1>0. Types /\ Unclosed /\ Produces /\ Lists /\ Consumes /\ Knows /\ Keyframes
  BY DEF Inv
<1>1. UNCHANGED <<acks, view, producers, listed, open, transports>> /\ SameEntries
  BY DEF PauseProducer, ResumeProducer, roomVars, streamVars, SameEntries
<1>2. /\ \A q : Registered(q)' <=> Registered(q)
      /\ \A q : Me(q)' = Me(q)
      /\ \A q, d, n : Rides(q, d, n)' <=> Rides(q, d, n)
      /\ Unclosed'
  BY <1>0, <1>1, EntriesKept
<1>3. Unclosed' /\ Produces' /\ Lists' /\ Knows'
  BY <1>0, <1>1, <1>2 DEF Produces, Lists, Knows, SameEntries
<1>4. CASE PauseProducer(s, p)
  <2>1. /\ consumers' = consumers /\ paused' = paused \union {p}
        /\ toggles' = [toggles EXCEPT ![p] = @ + 1] /\ toggles[p] < MaxToggles
    BY <1>4 DEF PauseProducer
  <2>2. toggles' \in [Producer -> 0..MaxToggles]
    BY <1>0, <2>1, TogglesAssumption DEF Types
  <2>3. Types' /\ Consumes' /\ Keyframes'
    BY <1>0, <1>1, <1>2, <2>1, <2>2 DEF Types, Consumes, Keyframes, Listens, SameEntries
  <2> QED
    BY <1>3, <2>3 DEF Inv
<1>5. CASE ResumeProducer(s, p)
  <2>1. /\ toggles' = toggles /\ paused' = paused \ {p}
        /\ consumers' = [o \in Peer |-> [consumers[o] EXCEPT ![p].key =
              IF consumers[o][p].hears THEN "requested" ELSE "stale"]]
    BY <1>5 DEF ResumeProducer
  <2>2. ASSUME NEW o \in Peer
        PROVE  /\ consumers'[o] \in [Producer -> Consumer]
               /\ \A r \in Producer \ {p} : consumers'[o][r] = consumers[o][r]
               /\ consumers'[o][p].phase = consumers[o][p].phase
               /\ consumers'[o][p].paused = consumers[o][p].paused
               /\ consumers'[o][p].hears = consumers[o][p].hears
               /\ consumers'[o][p].on = consumers[o][p].on
               /\ consumers[o][p].hears => consumers'[o][p].key = "requested"
    <3>1. PICK c : c = [consumers[o][p] EXCEPT !.key =
                          IF consumers[o][p].hears THEN "requested" ELSE "stale"]
      OBVIOUS
    <3>2. consumers[o] \in [Producer -> Consumer] /\ consumers[o][p] \in Consumer
      BY <1>0 DEF Types
    <3>3. /\ c \in Consumer
          /\ c.phase = consumers[o][p].phase /\ c.paused = consumers[o][p].paused
          /\ c.hears = consumers[o][p].hears /\ c.on = consumers[o][p].on
          /\ consumers[o][p].hears => c.key = "requested"
      BY <3>1, <3>2 DEF Consumer
    <3>4. consumers'[o] = [consumers[o] EXCEPT ![p] = c]
      BY <2>1, <3>1
    <3> QED
      BY <3>2, <3>3, <3>4
  <2>3. consumers' \in [Peer -> [Producer -> Consumer]]
    <3>1. consumers' = [o \in Peer |-> consumers'[o]]
      BY <2>1
    <3> QED
      BY <2>2, <3>1
  <2>4. Types'
    BY <1>0, <1>1, <2>1, <2>3 DEF Types, SameEntries
  <2>5. Consumes'
    <3>1. \A o \in Peer, r \in Producer :
            /\ consumers'[o][r].phase = consumers[o][r].phase
            /\ consumers'[o][r].on = consumers[o][r].on
      BY <2>2
    <3> QED
      BY <1>0, <1>1, <1>2, <3>1 DEF Consumes
  <2>6. ASSUME NEW o \in Peer, NEW r \in Producer, Source[r] = "webcam"
        PROVE  /\ Listens(consumers[o][r])'
               /\ r \notin paused' /\ consumers'[o][r].phase = "ready" /\ ~consumers'[o][r].paused
                     => consumers'[o][r].key = "requested"
    <3>1. /\ Listens(consumers[o][r])
          /\ r \notin paused /\ consumers[o][r].phase = "ready" /\ ~consumers[o][r].paused
                => consumers[o][r].key = "requested"
      BY <1>0, <2>6 DEF Keyframes
    <3>2. CASE r = p
      <4>1. Listens(consumers[o][p])
        BY <3>1, <3>2
      <4>2. Listens(consumers[o][p])'
        BY <2>2, <4>1 DEF Listens
      <4>3. consumers'[o][p].phase = "ready" => consumers'[o][p].key = "requested"
        BY <2>2, <4>1 DEF Listens
      <4> QED
        BY <3>2, <4>2, <4>3
    <3>3. CASE r # p
      BY <2>1, <2>2, <3>1, <3>3 DEF Listens
    <3> QED
      BY <3>2, <3>3
  <2>7. Keyframes'
    BY <2>6 DEF Keyframes
  <2> QED
    BY <1>3, <2>4, <2>5, <2>7 DEF Inv
<1> QED
  BY <1>4, <1>5

-----------------------------------------------------------------------------
(* join-room and ClosePeer *)

LEMMA JoinSteps ==
  ASSUME Inv, NEW s \in Socket, JoinRoom(s)
  PROVE  Inv'
<1>0. Types /\ Unclosed /\ Produces /\ Lists /\ Consumes /\ Knows /\ Keyframes
  BY DEF Inv
<1>1. PICK streams, new : /\ streams = UNION {HeldBy(Me(t)) : t \in present}
                          /\ new = <<s, joined[s] + 1>>
  OBVIOUS
<1>2. /\ UNCHANGED <<view, producers, listed, open, transports, paused, toggles, consumers>>
      /\ joined[s] < MaxJoins[s]
      /\ joined' = [joined EXCEPT ![s] = @ + 1]
      /\ present' = present \union {s}
      /\ acks' = [acks EXCEPT ![new] = streams]
      /\ replaced' = IF s \in present THEN replaced \union {Me(s)} ELSE replaced
  BY <1>1 DEF JoinRoom, streamVars, pauseVars
<1>3. joined[s] \in Nat /\ MaxJoins[s] \in Nat
  BY <1>0, JoinsAssumption DEF Types
<1>4. new \in Peer
  <2>1. new \in {s} \X (1..MaxJoins[s])
    BY <1>1, <1>2, <1>3
  <2> QED
    BY <2>1 DEF Peer
<1>5. \A o \in Peer :
        /\ Registered(o)' => (Registered(o) /\ o # Me(s)) \/ o = new
        /\ Registered(o) => Registered(o)' \/ o \in replaced'
        /\ joined[o[1]] <= joined'[o[1]]
  BY <1>0, <1>1, Comings
<1>6. streams \subseteq listed /\ streams # None
  BY <1>0, <1>1, NoneAssumption DEF HeldBy, Types
<1>7. ASSUME NEW p \in open, Registered(producers[p].peer)
      PROVE  p \in streams
  BY <1>0, <1>1, <1>7 DEF Lists, Registered, HeldBy
<1>8. Types'
  <2>1. joined' \in [Socket -> Nat] /\ \A t \in Socket : joined'[t] <= MaxJoins[t]
    <3>1. joined \in [Socket -> Nat] /\ \A t \in Socket : joined[t] <= MaxJoins[t]
      BY <1>0 DEF Types
    <3>2. joined' \in [Socket -> Nat]
      BY <1>2, <3>1
    <3>3. ASSUME NEW t \in Socket
          PROVE  joined'[t] <= MaxJoins[t]
      <4>1. joined'[t] = IF t = s THEN joined[t] + 1 ELSE joined[t]
        BY <1>2, <3>1
      <4> QED
        BY <1>2, <1>3, <3>1, <4>1
    <3> QED
      BY <3>2, <3>3
  <2>2. present' \subseteq Socket /\ \A t \in present' : joined'[t] >= 1
    BY <1>0, <1>2 DEF Types
  <2>3. acks' \in [Peer -> (SUBSET Producer) \union {None}]
    BY <1>0, <1>2, <1>4, <1>6 DEF Types
  <2>4. replaced' \subseteq Peer
    BY <1>0, <1>2, MyEntry DEF Types
  <2> QED
    BY <1>0, <1>2, <2>1, <2>2, <2>3, <2>4 DEF Types
<1>9. Unclosed'
  <2> SUFFICES ASSUME NEW o \in Peer, NEW d \in Direction,
                      Registered(o)' \/ o[2] > joined'[o[1]]
               PROVE  transports[o][d].closed = 0
    BY <1>2 DEF Unclosed
  <2>1. o[2] \in Nat /\ joined[o[1]] \in Nat /\ joined'[o[1]] \in Nat
    BY <1>0, <1>8, JoinsAssumption DEF Peer, Types
  <2>2. Registered(o) \/ o[2] > joined[o[1]]
    <3>1. CASE o = new
      BY <1>1, <1>3, <3>1
    <3>2. CASE o # new
      BY <1>5, <2>1, <3>2
    <3> QED
      BY <3>1, <3>2
  <2> QED
    BY <1>0, <2>2 DEF Unclosed
<1>10. \A o \in Peer : \A d, n : Rides(o, d, n) => Rides(o, d, n)'
  BY <1>2, <1>5 DEF Rides
<1>11. Produces'
  <2> SUFFICES ASSUME NEW p \in Producer, producers[p].phase # "unused"
               PROVE  /\ producers[p].peer \in Peer /\ producers[p].peer[1] = Owner[p]
                      /\ producers[p].peer[2] <= joined'[Owner[p]]
                      /\ Rides(producers[p].peer, "send", producers[p].on)'
    BY <1>2 DEF Produces
  <2>1. /\ producers[p].peer \in Peer /\ producers[p].peer[1] = Owner[p]
        /\ producers[p].peer[2] <= joined[Owner[p]]
        /\ Rides(producers[p].peer, "send", producers[p].on)
    BY <1>0 DEF Produces
  <2>2. /\ joined[Owner[p]] \in Nat /\ joined'[Owner[p]] \in Nat
        /\ producers[p].peer[2] \in Nat
    BY <1>0, <1>8, <2>1, OwnerAssumption, JoinsAssumption DEF Types, Peer
  <2> QED
    BY <1>2, <1>5, <1>10, <2>1, <2>2
<1>12. Lists' /\ Keyframes'
  BY <1>0, <1>2 DEF Lists, Keyframes, Listens
<1>13. Consumes'
  BY <1>0, <1>2, <1>10 DEF Consumes
<1>14. Knows'
  <2> SUFFICES ASSUME NEW t \in present', NEW p \in open,
                      producers[p].phase = "announced", Owner[p] # t,
                      Registered(producers[p].peer)'
               PROVE  p \in view[t] \/ (acks'[Me(t)'] # None /\ p \in acks'[Me(t)'])
    BY <1>2 DEF Knows
  <2>1. /\ p \in Producer /\ producers[p].peer \in Peer
        /\ producers[p].peer[1] = Owner[p] /\ producers[p].peer[2] <= joined[Owner[p]]
    BY <1>0 DEF Types, Produces
  <2>2. producers[p].peer # new
    BY <1>1, <1>3, <2>1
  <2>3. Registered(producers[p].peer)
    BY <1>2, <1>5, <2>1, <2>2
  <2>4. CASE t = s
    <3>1. Me(t)' = new
      BY <1>0, <1>1, <1>2, <2>4 DEF Me, Types
    <3> QED
      BY <1>0, <1>2, <1>4, <1>6, <1>7, <2>3, <3>1 DEF Types
  <2>5. CASE t # s
    <3>1. t \in present /\ t \in Socket
      BY <1>0, <1>2, <2>5 DEF Types
    <3>2. Me(t)' = Me(t) /\ Me(t) # new /\ Me(t) \in Peer
      BY <1>0, <1>1, <1>2, <2>5, <3>1, MyEntry DEF Me, Types
    <3>3. acks'[Me(t)] = acks[Me(t)]
      BY <1>0, <1>2, <3>2 DEF Types
    <3> QED
      BY <1>0, <2>3, <3>1, <3>2, <3>3 DEF Knows
  <2> QED
    BY <2>4, <2>5
<1> QED
  BY <1>8, <1>9, <1>11, <1>12, <1>13, <1>14 DEF Inv

LEMMA AnsweredSteps ==
  ASSUME Inv, NEW o \in Peer, JoinAnswered(o)
  PROVE  Inv'
<1>0. Types /\ Unclosed /\ Produces /\ Lists /\ Consumes /\ Knows /\ Keyframes
  BY DEF Inv
<1>1. /\ UNCHANGED <<producers, listed, open, paused, toggles, consumers>>
      /\ SameEntries
      /\ acks[o] # None
      /\ view' = [view EXCEPT ![o[1]] = @ \union acks[o]]
      /\ acks' = [acks EXCEPT ![o] = None]
  BY DEF JoinAnswered, pauseVars, SameEntries
<1>2. /\ \A q : Registered(q)' <=> Registered(q)
      /\ \A q : Me(q)' = Me(q)
      /\ \A q, d, n : Rides(q, d, n)' <=> Rides(q, d, n)
      /\ Unclosed'
  BY <1>0, <1>1, EntriesKept
<1>3. acks[o] \in SUBSET Producer /\ o[1] \in Socket
  BY <1>0, <1>1, EntryOfSocket DEF Types
<1>4. /\ view' \in [Socket -> SUBSET Producer]
      /\ \A t \in Socket : view[t] \subseteq view'[t]
      /\ acks[o] \subseteq view'[o[1]]
  BY <1>0, <1>1, <1>3 DEF Types
<1>5. Types'
  <2>1. acks' \in [Peer -> (SUBSET Producer) \union {None}]
    BY <1>0, <1>1 DEF Types
  <2> QED
    BY <1>0, <1>1, <1>4, <2>1 DEF Types, SameEntries
<1>6. Produces' /\ Lists' /\ Keyframes'
  BY <1>0, <1>1, <1>2 DEF Produces, Lists, Keyframes, Listens, SameEntries
<1>7. Consumes'
  BY <1>0, <1>1, <1>2 DEF Consumes, SameEntries
<1>8. Knows'
  <2> SUFFICES ASSUME NEW t \in present, NEW p \in open,
                      producers[p].phase = "announced", Owner[p] # t,
                      Registered(producers[p].peer)
               PROVE  p \in view'[t] \/ (acks'[Me(t)] # None /\ p \in acks'[Me(t)])
    BY <1>1, <1>2 DEF Knows, SameEntries
  <2>1. t \in Socket /\ Me(t) \in Peer /\ Me(t)[1] = t
    BY <1>0, MyEntry DEF Types
  <2>2. p \in view[t] \/ (acks[Me(t)] # None /\ p \in acks[Me(t)])
    BY <1>0 DEF Knows
  <2>3. CASE Me(t) = o
    BY <1>4, <2>1, <2>2, <2>3
  <2>4. CASE Me(t) # o
    BY <1>0, <1>1, <1>4, <2>1, <2>2, <2>4 DEF Types
  <2> QED
    BY <2>3, <2>4
<1> QED
  BY <1>2, <1>5, <1>6, <1>7, <1>8 DEF Inv

LEMMA CloseSteps ==
  ASSUME Inv, NEW s \in Socket, ClosePeer(s)
  PROVE  Inv'
<1>0. Types /\ Unclosed /\ Produces /\ Lists /\ Consumes /\ Knows /\ Keyframes
  BY DEF Inv
<1>1. PICK o, H, E : /\ o = Me(s) /\ H = HeldBy(Me(s))
                     /\ E = {p \in open : /\ producers[p].peer = o
                                          /\ OnLast(o, "send", producers[p].on)}
  OBVIOUS
<1>2. /\ UNCHANGED <<joined, replaced, producers, listed, paused, toggles>>
      /\ s \in present /\ present' = present \ {s}
      /\ acks' = [q \in Peer |-> IF q[1] = s THEN None ELSE acks[q]]
      /\ view' = [t \in Socket |-> IF t = s THEN {} ELSE view[t] \ H]
      /\ transports' = [transports EXCEPT ![o] =
            [d \in Direction |-> [transports[o][d] EXCEPT !.closed = transports[o][d].last]]]
      /\ open' = open \ E
      /\ consumers' = EndConsumers(E, o)
  BY <1>1 DEF ClosePeer, TellGone, pauseVars
<1>3. \A q : Registered(q)' <=> Registered(q) /\ q # o
  BY <1>0, <1>1, Goings
<1>4. /\ o \in Peer /\ Registered(o)
      /\ H = {p \in listed : producers[p].peer = o}
  BY <1>0, <1>1, <1>2, MyEntry DEF HeldBy
<1>5. /\ consumers' \in [Peer -> [Producer -> Consumer]]
      /\ \A q \in Peer, r \in Producer :
           \/ consumers'[q][r].phase = "closed"
           \/ consumers'[q][r] = consumers[q][r]
      /\ \A q \in Peer, r \in Producer :
           (r \in E \/ (q = o /\ OnLast(q, "recv", consumers[q][r].on)))
               => consumers'[q][r].phase \in {"none", "closed"}
  BY <1>0, <1>2, Ended DEF Types
<1>6. /\ transports' \in [Peer -> [Direction -> Transport]]
      /\ \A q \in Peer \ {o} : transports'[q] = transports[q]
      /\ \A d \in Direction : /\ transports'[o][d].closed = transports[o][d].last
                              /\ transports'[o][d].last = transports[o][d].last
  <2>1. PICK new : new = [d \in Direction |->
                           [transports[o][d] EXCEPT !.closed = transports[o][d].last]]
    OBVIOUS
  <2>2. ASSUME NEW d \in Direction
        PROVE  /\ new[d] \in Transport
               /\ new[d].closed = transports[o][d].last
               /\ new[d].last = transports[o][d].last
    <3>1. PICK old \in Transport : old = transports[o][d]
      BY <1>0, <1>4 DEF Types
    <3>2. new[d] = [old EXCEPT !.closed = old.last]
      BY <2>1, <3>1
    <3>3. new[d] \in Transport /\ new[d].closed = old.last /\ new[d].last = old.last
      BY <3>2 DEF Transport
    <3> QED
      BY <3>1, <3>3
  <2>3. new \in [Direction -> Transport]
    BY <2>1, <2>2
  <2>4. transports' = [transports EXCEPT ![o] = new]
    BY <1>2, <2>1
  <2> QED
    BY <1>0, <1>4, <2>2, <2>3, <2>4 DEF Types
<1>7. Types'
  <2>1. view' \in [Socket -> SUBSET Producer]
    BY <1>0, <1>2 DEF Types
  <2>2. acks' \in [Peer -> (SUBSET Producer) \union {None}]
    BY <1>0, <1>2 DEF Types
  <2>3. /\ joined' \in [Socket -> Nat] /\ \A t \in Socket : joined'[t] <= MaxJoins[t]
        /\ present' \subseteq Socket /\ \A t \in present' : joined'[t] >= 1
        /\ listed' \subseteq Producer /\ open' \subseteq Producer /\ replaced' \subseteq Peer
    BY <1>0, <1>2 DEF Types
  <2>4. /\ producers' \in
              [Producer -> [phase : ProducePhase, peer : Peer \union {None}, on : Nat]]
        /\ paused' \subseteq Producer /\ toggles' \in [Producer -> 0..MaxToggles]
    BY <1>0, <1>2 DEF Types
  <2> QED
    BY <1>5, <1>6, <2>1, <2>2, <2>3, <2>4 DEF Types
<1>8. Unclosed'
  <2> SUFFICES ASSUME NEW q \in Peer, NEW d \in Direction,
                      Registered(q)' \/ q[2] > joined[q[1]]
               PROVE  transports'[q][d].closed = 0
    BY <1>2 DEF Unclosed
  <2>1. q # o
    BY <1>0, <1>1, <1>3, <1>4, <1>2 DEF Me, Types
  <2> QED
    BY <1>0, <1>3, <1>6, <2>1 DEF Unclosed
<1>9. ASSUME NEW q \in Peer, NEW d \in Direction, NEW n, Rides(q, d, n)
      PROVE  Rides(q, d, n)'
  <2>1. CASE q = o
    <3>1. transports[o][d].last \in Nat
      BY <1>0, <1>4 DEF Types, Transport
    <3> QED
      BY <1>6, <1>9, <2>1, <3>1 DEF Rides
  <2>2. CASE q # o
    BY <1>2, <1>3, <1>6, <1>9, <2>2 DEF Rides
  <2> QED
    BY <2>1, <2>2
<1> USE DEF Direction
<1>10. Produces'
  BY <1>0, <1>2, <1>9 DEF Produces
<1>11. Lists'
  <2> SUFFICES ASSUME NEW p \in open, p \notin E
               PROVE  producers[p].on # transports'[producers[p].peer]["send"].closed
    BY <1>0, <1>2 DEF Lists
  <2>1. /\ producers[p].peer \in Peer
        /\ producers[p].on # transports[producers[p].peer]["send"].closed
    BY <1>0 DEF Lists, Produces, Types
  <2>2. CASE producers[p].peer = o
    BY <1>1, <1>6, <2>2 DEF OnLast
  <2>3. CASE producers[p].peer # o
    BY <1>6, <2>1, <2>3
  <2> QED
    BY <2>2, <2>3
<1>12. Consumes'
  <2> SUFFICES ASSUME NEW q \in Peer, NEW r \in Producer,
                      consumers'[q][r].phase \notin {"none", "closed"}
               PROVE  /\ r \in open' /\ Rides(q, "recv", consumers[q][r].on)'
                      /\ consumers'[q][r].on # transports'[q]["recv"].closed
    BY DEF Consumes
  <2>1. /\ consumers'[q][r] = consumers[q][r] /\ r \notin E
        /\ ~(q = o /\ OnLast(q, "recv", consumers[q][r].on))
    BY <1>5
  <2>2. /\ r \in open /\ Rides(q, "recv", consumers[q][r].on)
        /\ consumers[q][r].on # transports[q]["recv"].closed
    BY <1>0, <2>1 DEF Consumes
  <2>3. consumers[q][r].on # transports'[q]["recv"].closed
    BY <1>6, <2>1, <2>2 DEF OnLast
  <2>4. PICK n : n = consumers[q][r].on
    OBVIOUS
  <2>5. Rides(q, "recv", n)'
    BY <1>9, <2>2, <2>4
  <2>6. Rides(q, "recv", consumers[q][r].on)'
    BY <2>1, <2>4, <2>5 DEF Rides
  <2> QED
    BY <1>2, <2>1, <2>2, <2>3, <2>6
<1>13. Knows'
  <2> SUFFICES ASSUME NEW t \in present, t # s, NEW p \in open,
                      producers[p].phase = "announced", Owner[p] # t,
                      Registered(producers[p].peer), producers[p].peer # o
               PROVE  p \in view'[t] \/ (acks'[Me(t)] # None /\ p \in acks'[Me(t)])
    BY <1>2, <1>3 DEF Knows, Me
  <2>1. t \in Socket /\ Me(t) \in Peer /\ Me(t)[1] = t
    BY <1>0, MyEntry DEF Types
  <2>2. acks'[Me(t)] = acks[Me(t)] /\ view'[t] = view[t] \ H
    BY <1>2, <2>1
  <2> QED
    BY <1>0, <1>4, <2>2 DEF Knows
<1>14. Keyframes'
  BY <1>0, <1>2, <1>5, KeyframesKept
<1> QED
  BY <1>7, <1>8, <1>10, <1>11, <1>12, <1>13, <1>14 DEF Inv

-----------------------------------------------------------------------------
(* produce and close-producer *)

\* A producer that changes its phase keeps its entry and its transport.
LEMMA OnePhase ==
  ASSUME Types, NEW p \in Producer, NEW phase \in ProducePhase, SetPhase(p, phase)
  PROVE  /\ producers' \in
              [Producer -> [phase : ProducePhase, peer : Peer \union {None}, on : Nat]]
         /\ \A r \in Producer :
              /\ producers'[r].phase = IF r = p THEN phase ELSE producers[r].phase
              /\ producers'[r].peer = producers[r].peer
              /\ producers'[r].on = producers[r].on
<1>1. PICK new : new = [producers[p] EXCEPT !.phase = phase]
  OBVIOUS
<1>2. producers[p] \in [phase : ProducePhase, peer : Peer \union {None}, on : Nat]
  BY DEF Types
<1>3. /\ new \in [phase : ProducePhase, peer : Peer \union {None}, on : Nat]
      /\ new.phase = phase /\ new.peer = producers[p].peer /\ new.on = producers[p].on
  BY <1>1, <1>2
<1>4. producers' = [producers EXCEPT ![p] = new]
  BY <1>1 DEF SetPhase
<1> QED
  BY <1>3, <1>4 DEF Types

LEMMA ProduceSteps ==
  ASSUME Inv, NEW s \in Socket, NEW p \in Producer, Produce(s, p)
  PROVE  Inv'
<1>0. Types /\ Unclosed /\ Produces /\ Lists /\ Consumes /\ Knows /\ Keyframes
  BY DEF Inv
<1>1. PICK o, n : o = Me(s) /\ n = transports[Me(s)]["send"].last
  OBVIOUS
<1>2. /\ UNCHANGED <<acks, view, listed, open, paused, toggles, consumers>>
      /\ SameEntries
      /\ s \in present /\ Owner[p] = s /\ producers[p].phase = "unused" /\ n > 0
      /\ producers' = [producers EXCEPT ![p] = [phase |-> "producing", peer |-> o, on |-> n]]
  BY <1>1 DEF Produce, roomVars, pauseVars, SameEntries
<1>3. o \in Peer /\ o[1] = s /\ Registered(o) /\ o[2] = joined[s] /\ joined[s] \in Nat
  BY <1>0, <1>1, <1>2, MyEntry DEF Me, Types
<1>4. n \in Nat
  BY <1>0, <1>1, <1>3 DEF Types, Direction, Transport
<1>5. Rides(o, "send", n)
  BY <1>1, <1>2, <1>3, <1>4 DEF Rides
<1>6. /\ \A q : Registered(q)' <=> Registered(q)
      /\ \A q : Me(q)' = Me(q)
      /\ \A q, d, m : Rides(q, d, m)' <=> Rides(q, d, m)
      /\ Unclosed'
  BY <1>0, <1>2, EntriesKept
<1>7. \A r \in Producer :
        /\ r # p => producers'[r] = producers[r]
        /\ r = p => /\ producers'[r].phase = "producing" /\ producers'[r].peer = o
                    /\ producers'[r].on = n
  BY <1>0, <1>2 DEF Types
<1>8. Types'
  <2>1. [phase |-> "producing", peer |-> o, on |-> n]
            \in [phase : ProducePhase, peer : Peer \union {None}, on : Nat]
    BY <1>3, <1>4 DEF ProducePhase
  <2>2. producers' \in
            [Producer -> [phase : ProducePhase, peer : Peer \union {None}, on : Nat]]
    BY <1>0, <1>2, <2>1 DEF Types
  <2> QED
    BY <1>0, <1>2, <2>2 DEF Types, SameEntries
<1>9. p \notin listed /\ p \notin open
  BY <1>0, <1>2 DEF Lists
<1>10. Produces'
  BY <1>0, <1>2, <1>3, <1>5, <1>6, <1>7 DEF Produces, SameEntries
<1>11. Lists' /\ Knows'
  BY <1>0, <1>2, <1>6, <1>7, <1>9 DEF Lists, Knows, Types, SameEntries
<1>12. Consumes' /\ Keyframes'
  BY <1>0, <1>2, <1>6 DEF Consumes, Keyframes, Listens, SameEntries
<1> QED
  BY <1>6, <1>8, <1>10, <1>11, <1>12 DEF Inv

\* new-producer reaches everyone present but the owner.
LEMMA Announced ==
  ASSUME Types, NEW p \in Producer, Announce(p)
  PROVE  /\ SetPhase(p, "announced")
         /\ view' \in [Socket -> SUBSET Producer]
         /\ \A t \in Socket : view[t] \subseteq view'[t]
         /\ \A t \in present : Owner[p] # t => p \in view'[t]
BY DEF Announce, Audience, Types

\* The steps of a produce handler after its call: P is what it lists, Q what the
\* worker has for it.
LEMMA HandledSteps ==
  ASSUME Inv, NEW p \in Producer, NEW phase \in ProducePhase, NEW P \in SUBSET {p},
         NEW Q \in SUBSET P,
         UNCHANGED <<roomVars, transports, pauseVars, consumers>>,
         producers[p].phase \notin {"unused", "announced"},
         SetPhase(p, phase), phase \notin {"unused", "producing"},
         listed' = listed \union P, open' = open \union Q,
         Q # {} => producers[p].on # transports[producers[p].peer]["send"].closed,
         \/ phase # "announced" /\ view' = view
         \/ phase = "announced" /\ Announce(p)
  PROVE  Inv'
<1>0. Types /\ Unclosed /\ Produces /\ Lists /\ Consumes /\ Knows /\ Keyframes
  BY DEF Inv
<1>1. /\ UNCHANGED <<acks, paused, toggles, consumers>> /\ SameEntries
      /\ producers' \in
              [Producer -> [phase : ProducePhase, peer : Peer \union {None}, on : Nat]]
      /\ \A r \in Producer :
           /\ producers'[r].phase = IF r = p THEN phase ELSE producers[r].phase
           /\ producers'[r].peer = producers[r].peer
           /\ producers'[r].on = producers[r].on
  BY <1>0, OnePhase DEF roomVars, pauseVars, SameEntries
<1>2. /\ \A q : Registered(q)' <=> Registered(q)
      /\ \A q : Me(q)' = Me(q)
      /\ \A q, d, n : Rides(q, d, n)' <=> Rides(q, d, n)
      /\ Unclosed'
  BY <1>0, <1>1, EntriesKept
<1>3. /\ view' \in [Socket -> SUBSET Producer]
      /\ \A t \in Socket : view[t] \subseteq view'[t]
      /\ phase = "announced" => \A t \in present : Owner[p] # t => p \in view'[t]
  <2>1. CASE view' = view /\ phase # "announced"
    BY <1>0, <2>1 DEF Types
  <2>2. CASE Announce(p)
    BY <1>0, <2>2, Announced
  <2> QED
    BY <2>1, <2>2
<1>4. Types'
  BY <1>0, <1>1, <1>3 DEF Types, SameEntries
<1>5. Produces'
  BY <1>0, <1>1, <1>2 DEF Produces, SameEntries
<1>6. Lists'
  <2>1. \A r \in listed' : r \in Producer /\ producers'[r].phase \notin {"unused", "producing"}
    BY <1>0, <1>1 DEF Lists, Types
  <2>2. ASSUME NEW r \in open'
        PROVE  /\ r \in listed'
               /\ producers'[r].on # transports'[producers'[r].peer]["send"].closed
    <3>1. CASE r \in Q
      BY <1>1, <3>1 DEF SameEntries
    <3>2. CASE r \notin Q
      BY <1>0, <1>1, <3>2 DEF Lists, Types, SameEntries
    <3> QED
      BY <3>1, <3>2
  <2> QED
    BY <2>1, <2>2 DEF Lists
<1>7. Consumes' /\ Keyframes'
  BY <1>0, <1>1, <1>2 DEF Consumes, Keyframes, Listens, SameEntries
<1>8. Knows'
  <2> SUFFICES ASSUME NEW t \in present, NEW r \in open',
                      producers'[r].phase = "announced", Owner[r] # t,
                      Registered(producers'[r].peer)
               PROVE  r \in view'[t] \/ (acks[Me(t)] # None /\ r \in acks[Me(t)])
    BY <1>1, <1>2 DEF Knows, SameEntries
  <2>1. t \in Socket /\ r \in Producer
    BY <1>0 DEF Types
  <2>2. CASE r = p
    BY <1>1, <1>3, <2>1, <2>2
  <2>3. CASE r # p
    BY <1>0, <1>1, <1>3, <2>1, <2>3 DEF Knows
  <2> QED
    BY <2>2, <2>3
<1> QED
  BY <1>2, <1>4, <1>5, <1>6, <1>7, <1>8 DEF Inv

LEMMA ProduceHandlers ==
  ASSUME Inv, NEW p \in Producer, ProduceStep(p)
  PROVE  Inv'
<1> USE DEF ProducePhase
<1>0. PICK N \in SUBSET {p} : N \in SUBSET N /\ N = {}
  OBVIOUS
<1>1. CASE Produced(p)
  <2>1. PICK Q : Q = IF producers[p].on = transports[producers[p].peer]["send"].closed
                     THEN {} ELSE {p}
    OBVIOUS
  <2>2. /\ UNCHANGED <<roomVars, transports, pauseVars, consumers>>
        /\ producers[p].phase = "producing"
        /\ listed' = listed \union {p} /\ open' = open \union Q
        /\ \/ SetPhase(p, "observing") /\ view' = view
           \/ Announce(p)
    BY <1>1, <2>1 DEF Produced
  <2>3. /\ Q \in SUBSET {p}
        /\ Q # {} => producers[p].on # transports[producers[p].peer]["send"].closed
    BY <2>1
  <2>4. CASE Announce(p)
    <3>1. SetPhase(p, "announced")
      BY <2>4 DEF Announce
    <3> QED
      BY <2>2, <2>3, <2>4, <3>1, HandledSteps
  <2>5. CASE SetPhase(p, "observing") /\ view' = view
    BY <2>2, <2>3, <2>5, HandledSteps
  <2> QED
    BY <2>2, <2>4, <2>5
<1>2. CASE ProduceFailed(p) \/ MicNotObserved(p)
  <2>1. /\ UNCHANGED <<roomVars, transports, pauseVars, consumers>>
        /\ producers[p].phase \in {"producing", "observing"}
        /\ SetPhase(p, "failed") /\ view' = view
        /\ listed' = listed \union N /\ open' = open \union N
    BY <1>0, <1>2 DEF ProduceFailed, MicNotObserved
  <2> QED
    BY <1>0, <2>1, HandledSteps
<1>3. CASE MicObserved(p)
  <2>1. /\ UNCHANGED <<roomVars, transports, pauseVars, consumers>>
        /\ producers[p].phase = "observing"
        /\ SetPhase(p, "announced") /\ Announce(p)
        /\ listed' = listed \union N /\ open' = open \union N
    BY <1>0, <1>3 DEF MicObserved, Announce
  <2> QED
    BY <1>0, <2>1, HandledSteps
<1> QED
  BY <1>1, <1>2, <1>3 DEF ProduceStep

LEMMA CloseProducerSteps ==
  ASSUME Inv, NEW s \in Socket, NEW p \in Producer, CloseProducer(s, p)
  PROVE  Inv'
<1>0. Types /\ Unclosed /\ Produces /\ Lists /\ Consumes /\ Knows /\ Keyframes
  BY DEF Inv
<1>1. /\ UNCHANGED <<acks, producers, paused, toggles>> /\ SameEntries
      /\ listed' = listed \ {p} /\ open' = open \ {p}
      /\ view' = [t \in Socket |-> IF t \in Audience(s) THEN view[t] \ {p} ELSE view[t]]
      /\ consumers' = EndConsumers({p}, None)
  BY DEF CloseProducer, roomVars, pauseVars, SameEntries
<1>2. /\ \A q : Registered(q)' <=> Registered(q)
      /\ \A q : Me(q)' = Me(q)
      /\ \A q, d, n : Rides(q, d, n)' <=> Rides(q, d, n)
      /\ Unclosed'
  BY <1>0, <1>1, EntriesKept
<1>3. /\ view' \in [Socket -> SUBSET Producer]
      /\ \A t \in Socket : view'[t] \subseteq view[t] /\ view[t] \ {p} \subseteq view'[t]
  BY <1>0, <1>1 DEF Types
<1>4. /\ consumers' \in [Peer -> [Producer -> Consumer]]
      /\ \A q \in Peer, r \in Producer :
           \/ consumers'[q][r].phase = "closed"
           \/ consumers'[q][r] = consumers[q][r]
      /\ \A q \in Peer : consumers'[q][p].phase \in {"none", "closed"}
  <2>1. \A q \in Peer, r \in Producer :
           (r \in {p} \/ (q = None /\ OnLast(q, "recv", consumers[q][r].on)))
               => consumers'[q][r].phase \in {"none", "closed"}
    BY <1>0, <1>1, Ended DEF Types
  <2> QED
    BY <1>0, <1>1, <2>1, Ended DEF Types
<1>5. Types'
  BY <1>0, <1>1, <1>3, <1>4 DEF Types, SameEntries
<1>6. Produces' /\ Lists'
  BY <1>0, <1>1, <1>2 DEF Produces, Lists, SameEntries
<1>7. Consumes'
  BY <1>0, <1>1, <1>2, <1>4 DEF Consumes, SameEntries
<1>8. Keyframes'
  BY <1>0, <1>1, <1>4, KeyframesKept
<1>9. Knows'
  BY <1>0, <1>1, <1>2, <1>3 DEF Knows, Types, SameEntries
<1> QED
  BY <1>2, <1>5, <1>6, <1>7, <1>8, <1>9 DEF Inv

-----------------------------------------------------------------------------
(* The strengthened invariant and the properties *)

\* Every reachable state satisfies the strengthened invariant.
THEOREM Invariant == Spec => []Inv
<1>1. Init => Inv
  <2> SUFFICES ASSUME Init
               PROVE  Inv
    OBVIOUS
  <2>1. NoConsumer \in Consumer /\ NoConsumer.phase = "none"
    BY DEF NoConsumer, Consumer, ConsumePhase
  <2>2. consumers \in [Peer -> [Producer -> Consumer]]
        /\ \A o \in Peer, p \in Producer : consumers[o][p].phase = "none"
    BY <2>1 DEF Init
  <2>3. producers \in [Producer -> [phase : ProducePhase, peer : Peer \union {None}, on : Nat]]
        /\ \A p \in Producer : producers[p].phase = "unused"
    BY DEF Init, ProducePhase
  <2>4. /\ transports \in [Peer -> [Direction -> Transport]]
        /\ \A o \in Peer, d \in Direction : transports[o][d].closed = 0
    BY DEF Init, Transport
  <2>5. Types /\ Unclosed
    BY <2>2, <2>3, <2>4, JoinsAssumption, TogglesAssumption DEF Init, Types, Unclosed
  <2>6. Produces /\ Lists /\ Knows
    BY <2>3 DEF Init, Produces, Lists, Knows
  <2>7. Consumes /\ Keyframes
    BY <2>2 DEF Consumes, Keyframes, Listens
  <2> QED
    BY <2>5, <2>6, <2>7 DEF Inv
<1>2. Inv /\ [Next]_vars => Inv'
  <2> SUFFICES ASSUME Inv, [Next]_vars
               PROVE  Inv'
    OBVIOUS
  <2>1. CASE UNCHANGED vars
    BY <2>1 DEF vars, Inv, Types, Unclosed, Produces, Lists, Consumes, Knows, Keyframes,
        Listens, Rides, Registered, Me
  <2> QED
    BY <2>1, JoinSteps, AnsweredSteps, CloseSteps, CreateSteps, CreatedSteps, ProduceSteps,
        CloseProducerSteps, PauseSteps, RequestSteps, ProduceHandlers, HandlerSteps DEF Next
<1> QED
  BY <1>1, <1>2, PTL DEF Spec

\* Type correctness: of the entries and transports a socket has had, each in its bounds.
THEOREM TypeCorrect == Spec => []TypeOK
<1>1. Inv => TypeOK
  BY DEF Inv, Types, TypeOK
<1> QED
  BY Invariant, <1>1, PTL

\* Whoever has joined knows every live stream of the others who are present, in whatever
\* order joins, repeated joins, acks, announcements and departures fall.
THEOREM StreamsKnown == Spec => []NoStreamMissing
<1>1. Inv => NoStreamMissing
  BY DEF Inv, Knows, NoStreamMissing
<1> QED
  BY Invariant, <1>1, PTL

\* No produce, consume or create-transport handler that outlives its entry leaves a
\* producer or a consumer behind, but for those out of closePeer's reach: of an entry
\* that was replaced, or on a transport that another was assigned over.
THEOREM NoOrphans == Spec => []NoOrphanStream
<1>1. Inv => NoOrphanStream
  <2> SUFFICES ASSUME Inv
               PROVE  NoOrphanStream
    OBVIOUS
  <2>1. Types /\ Produces /\ Lists /\ Consumes
    BY DEF Inv
  <2> USE DEF Direction
  <2>2. ASSUME NEW o \in Peer, NEW d \in Direction, NEW n, Rides(o, d, n),
               n # transports[o][d].closed
        PROVE  Registered(o) \/ OutOfReach(o, d, n)
    <3>1. transports[o][d].last \in Nat /\ transports[o][d].closed \in Nat
      BY <2>1 DEF Types, Transport
    <3> QED
      BY <2>2, <3>1 DEF Rides, OutOfReach
  <2>3. ASSUME NEW p \in open
        PROVE  \/ p \in listed /\ Registered(producers[p].peer)
               \/ OutOfReach(producers[p].peer, "send", producers[p].on)
    <3>1. /\ p \in listed /\ producers[p].peer \in Peer
          /\ Rides(producers[p].peer, "send", producers[p].on)
          /\ producers[p].on # transports[producers[p].peer]["send"].closed
      BY <2>1 DEF Types, Produces, Lists
    <3> QED
      BY <2>2, <3>1
  <2>4. ASSUME NEW o \in Peer, NEW p \in Producer,
               consumers[o][p].phase \notin {"none", "closed"}
        PROVE  p \in open /\ (Registered(o) \/ OutOfReach(o, "recv", consumers[o][p].on))
    BY <2>1, <2>2, <2>4 DEF Consumes
  <2> QED
    BY <2>3, <2>4 DEF NoOrphanStream
<1> QED
  BY Invariant, <1>1, PTL

\* A keyframe is on its way wherever video flows, in any order of layers, resumes of
\* the consumer and pauses of the producer.
THEOREM KeyframesFollow == Spec => []KeyframeFollows
<1>1. Inv => KeyframeFollows
  BY DEF Inv, Keyframes, KeyframeFollows
<1> QED
  BY Invariant, <1>1, PTL

=============================================================================
