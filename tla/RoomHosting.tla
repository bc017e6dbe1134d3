---------------------------- MODULE RoomHosting ----------------------------
(***************************************************************************)
(* What the media rooms of the SFU promise, with no router, promise or     *)
(* socket in sight: a room is hosted by at most one worker at a time, it   *)
(* never moves while it is hosted, a participant is in at most one room,   *)
(* and hosting is never taken from a room that has participants.           *)
(*                                                                         *)
(* It deliberately does not promise that a room with participants is       *)
(* hosted: RoomService does not keep that (see PeersShareRouter there).    *)
(***************************************************************************)
CONSTANTS Room, Socket, Worker, None

VARIABLES
    hosted,     \* hosted[r]: the worker that carries r's media, or None
    members     \* members[r]: the participants of r

hostingVars == <<hosted, members>>

Init ==
    /\ hosted = [r \in Room |-> None]
    /\ members = [r \in Room |-> {}]

Host(r, w) ==
    /\ hosted[r] = None
    /\ hosted' = [hosted EXCEPT ![r] = w]
    /\ UNCHANGED members

\* A group of participants enters r, each leaving the room it was in.
Enter(S, r) ==
    /\ members' = [q \in Room |-> IF q = r THEN members[q] \union S
                                           ELSE members[q] \ S]
    /\ UNCHANGED hosted

Exit(s) ==
    /\ members' = [q \in Room |-> members[q] \ {s}]
    /\ UNCHANGED hosted

Release(r) ==
    /\ members[r] = {}
    /\ hosted' = [hosted EXCEPT ![r] = None]
    /\ UNCHANGED members

Next ==
    \/ \E r \in Room, w \in Worker : Host(r, w)
    \/ \E r \in Room, S \in SUBSET Socket : Enter(S, r)
    \/ \E s \in Socket : Exit(s)
    \/ \E r \in Room : Release(r)

Spec == Init /\ [][Next]_hostingVars

=============================================================================
