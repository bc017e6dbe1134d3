--------------------------- MODULE MCRoomService ---------------------------
(* The instance TLC checks: see README.md for why these sizes are enough. *)
EXTENDS RoomService, TLC

CONSTANTS r1, r2, s1, s2

MCRoom == {r1, r2}
MCTwoSockets == {s1, s2}
MCWorker == 1..2
MCOneRoom == {r1}
MCRouter == 1..6

MCSymmetry == Permutations(MCRoom) \union Permutations(MCTwoSockets)

=============================================================================
