---------------------------- MODULE MCRoomMedia ----------------------------
(* The instances TLC checks: see README.md for why these sizes are enough. *)
EXTENDS RoomMedia, TLC

\* A host with a mic and a webcam, and a guest who only watches.
MCSocket == {"host", "guest"}
MCProducer == {"m", "w"}
MCOwner == [p \in Producer |-> "host"]
MCSource == [p \in Producer |-> IF p = "m" THEN "mic" ELSE "webcam"]

\* Both may leave and come back, or join again without leaving.
MCMaxJoins == [s \in MCSocket |-> 2]

\* Bound: the host has nothing to watch and the guest nothing to send; either may
\* create its transport twice.
MCMaxTransports ==
    [s \in MCSocket |-> [d \in {"send", "recv"} |->
        IF (s = "host") = (d = "send") THEN 2 ELSE 0]]

\* Bound: a behaviour has one of the two streams, and beyond one join of each socket and
\* one transport of each entry and direction two more of these.
OneStreamTwoRepeats ==
    /\ Cardinality({p \in Producer : producers[p].phase # "unused"}) <= 1
    /\ Cardinality({s \in Socket : joined[s] > 1})
        + Cardinality({<<o, d>> \in Peer \X Direction : Requested(o, d) > 1}) <= 2

=============================================================================
