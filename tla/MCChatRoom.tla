----------------------------- MODULE MCChatRoom -----------------------------
(* The instance TLC checks: see README.md for why these sizes are enough. *)
EXTENDS ChatRoom, TLC

CONSTANTS ann, up, down, heart, tap1, tap2, MaxInFlight

MCUser == {ann}
MCEmoji == {up, down, heart}
MCCall == {tap1, tap2}
MCMessage == {"m", "n"}
MCLiked == {"m"}
MCClient == {"c"}

Symmetry == Permutations(MCEmoji) \union Permutations(MCCall)

\* What has been begun and not yet settled.
InFlight ==
    Cardinality({k \in Call : reacting[k].phase # "idle"})
        + Cardinality({p \in Message : rows[p].state = "inserting"})
        + Cardinality({p \in Message : deleting[p] # "idle"})
        + Cardinality({<<p, d>> \in Message \X Decoration :
                          decorating[p][d] \in {"updated", "lost"}})
        + Cardinality({c \in Client : clients[c].phase \in {"joined", "answering"}})

\* Decorations and reactions share no column: one message gets reactions, the
\* other decorations, and a behaviour explores one of the two.
OneTopic ==
    /\ \A p \in Liked, d \in Decoration : decorating[p][d] = "none"
    /\ \/ \A p \in Message, d \in Decoration : decorating[p][d] = "none"
       \/ reactions = {} /\ overtaken = {} /\ \A k \in Call : reacting[k].phase = "idle"

Concurrency == InFlight <= MaxInFlight

=============================================================================
