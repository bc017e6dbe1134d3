--------------------------- MODULE MCRoomAccess ---------------------------
(* The instance TLC checks: see README.md for why these sizes are enough. *)
EXTENDS RoomAccess, TLC

CONSTANTS ann, bob, MaxInFlight

MCUser == {ann, bob}
MCModule == {"iep"}
MCInvitation == {"i", "j"}
MCClick == {1}

Symmetry == Permutations(MCUser)

\* Calls that have read something and not yet written.
InFlight ==
    Cardinality(visiting)
        + Cardinality({u \in User : creating[u] = "checked"})
        + Cardinality({u \in User : configuring[u].phase # "idle"})
        + Cardinality({u \in User : enabling[u] # None})
        + Cardinality({u \in User : inviting[u] # None})
        + Cardinality({<<i, c>> \in Invitation \X Click :
                          accepting[i][c].phase \in {"found", "read"}})

Concurrency == InFlight <= MaxInFlight

=============================================================================
