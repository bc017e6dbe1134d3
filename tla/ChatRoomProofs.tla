--------------------------- MODULE ChatRoomProofs ---------------------------
(***************************************************************************)
(* Proofs about ChatRoom for any users, messages, emoji and clients, any   *)
(* finite number of reaction handlers, and any cap.                        *)
(***************************************************************************)
EXTENDS ChatRoom, FiniteSetTheorems, TLAPS

\* What a handler holds while it is between its queries.
TapShape ==
    \A k \in Call :
        /\ reacting[k].phase # "idle" => reacting[k].message \in Message
        /\ reacting[k].phase \in {"missing", "counted"} =>
              reacting[k].user \in User /\ reacting[k].emoji \in Emoji

ReactionTypes ==
    /\ reactions \in SUBSET (Message \X User \X Emoji)
    /\ IsFiniteSet(reactions)
    /\ reacting \in [Call -> Tap]
    /\ TapShape

\* The taps of u on m that have found room under the cap and not yet inserted.
Counted(m, u) ==
    {k \in Call : /\ reacting[k].phase = "counted"
                  /\ reacting[k].message = m
                  /\ reacting[k].user = u}

\* What u holds on m, and what is about to be added to it.
CapInv ==
    \A m \in Message, u \in User :
        Held(m, u) + Cardinality(Counted(m, u)) <= Cap - 1 + Cardinality(Call)

-----------------------------------------------------------------------------
(* Reactions change in chat-reaction handlers only *)

\* A step that is not one of a chat-reaction handler leaves the reaction table and
\* the handlers alone.
LEMMA OnlyTapsReact ==
  ASSUME [Next]_vars
  PROVE  \/ \E k \in Call, u \in User, m \in Liked, e \in Emoji : TapDeletes(k, u, m, e)
         \/ Tapping
         \/ UNCHANGED <<reactions, reacting>>
<1>1. CASE Following
  BY <1>1 DEF Following, JoinRoom, ReadRecent, ReadBefore, ReadsPage, PageAnswered,
              LeaveRoom
<1>2. CASE Handling
  BY <1>2 DEF Handling, Tick, SendMessage, DeleteUpdates, InsertSettles,
              DeleteAnswered, DecorationUpdates, DecorationThrows,
              DecorationDropped, DecorationShown
<1>3. CASE UNCHANGED vars
  BY <1>3 DEF vars
<1> QED
  BY <1>1, <1>2, <1>3 DEF Next

\* The reaction table stays finite and well typed, and so do the handlers.
LEMMA ReactionTypesStep ==
  ASSUME ReactionTypes, [Next]_vars
  PROVE  ReactionTypes'
<1> USE DEF ReactionTypes, TapShape, Tap, NoTap, Toggled
<1>1. ASSUME NEW k \in Call, NEW u \in User, NEW m \in Liked, NEW e \in Emoji,
             TapDeletes(k, u, m, e)
      PROVE  ReactionTypes'
  <2>1. m \in Message
    BY ChatAssumption
  <2>2. IsFiniteSet(reactions')
    BY <1>1, FS_RemoveElement DEF TapDeletes
  <2>3. reacting' \in [Call -> Tap]
    BY <1>1, <2>1 DEF TapDeletes
  <2> QED
    BY <1>1, <2>1, <2>2, <2>3 DEF TapDeletes
<1>2. ASSUME NEW k \in Call, TapCounts(k)
      PROVE  ReactionTypes'
  BY <1>2 DEF TapCounts
<1>3. ASSUME NEW k \in Call, TapCreates(k)
      PROVE  ReactionTypes'
  <2>1. IsFiniteSet(reactions')
    BY <1>3, FS_AddElement DEF TapCreates
  <2>2. reactions' \in SUBSET (Message \X User \X Emoji)
    BY <1>3 DEF TapCreates
  <2>3. reacting' \in [Call -> Tap] /\ TapShape'
    BY <1>3 DEF TapCreates
  <2> QED
    BY <2>1, <2>2, <2>3
<1>4. ASSUME NEW k \in Call, TapLists(k)
      PROVE  ReactionTypes'
  <2>1. ReactionsOn(reacting[k].message) \in SUBSET (User \X Emoji)
    BY DEF ReactionsOn
  <2>2. reacting' = [reacting EXCEPT ![k] = [reacting[k] EXCEPT !.phase = "listed",
                            !.seen = ReactionsOn(reacting[k].message)]]
    BY <1>4 DEF TapLists
  <2>3. reacting' \in [Call -> Tap] /\ TapShape'
    BY <1>4, <2>1, <2>2 DEF TapLists
  <2> QED
    BY <1>4, <2>3 DEF TapLists
<1>5. ASSUME NEW k \in Call, TapThrows(k) \/ TapBroadcasts(k)
      PROVE  ReactionTypes'
  BY <1>5 DEF TapThrows, TapBroadcasts
<1>6. CASE UNCHANGED <<reactions, reacting>>
  BY <1>6
<1> QED
  BY <1>1, <1>2, <1>3, <1>4, <1>5, <1>6, OnlyTapsReact DEF Tapping

\* The initial state satisfies both.
LEMMA InitReactions == Init => ReactionTypes /\ CapInv
<1> SUFFICES ASSUME Init PROVE ReactionTypes /\ CapInv
  OBVIOUS
<1>1. ReactionTypes
  BY FS_EmptySet DEF Init, ReactionTypes, TapShape, Tap, NoTap
<1>2. ASSUME NEW m \in Message, NEW u \in User
      PROVE  Held(m, u) + Cardinality(Counted(m, u)) <= Cap - 1 + Cardinality(Call)
  <2>1. Held(m, u) = 0 /\ Cardinality(Counted(m, u)) = 0
    <3>1. {r \in reactions : r[1] = m /\ r[2] = u} = {} /\ Counted(m, u) = {}
      BY DEF Init, Counted, NoTap
    <3> QED
      BY <3>1, FS_EmptySet DEF Held
  <2>2. Cardinality(Call) \in Nat
    BY ChatAssumption, FS_CardinalityType
  <2> QED
    BY <2>1, <2>2, ChatAssumption
<1> QED
  BY <1>1, <1>2 DEF CapInv

-----------------------------------------------------------------------------
(* The cap *)

\* Sets of handlers and of a person's reactions can be counted.
LEMMA Countable ==
  ASSUME ReactionTypes, NEW m, NEW u
  PROVE  /\ IsFiniteSet({r \in reactions : r[1] = m /\ r[2] = u})
         /\ IsFiniteSet(Counted(m, u))
         /\ Held(m, u) \in Nat
         /\ Cardinality(Counted(m, u)) \in Nat
         /\ Cardinality(Counted(m, u)) <= Cardinality(Call)
<1>1. IsFiniteSet({r \in reactions : r[1] = m /\ r[2] = u})
  BY FS_Subset, {r \in reactions : r[1] = m /\ r[2] = u} \in SUBSET reactions
  DEF ReactionTypes
<1>2. Counted(m, u) \in SUBSET Call
  BY DEF Counted
<1>3. IsFiniteSet(Counted(m, u)) /\ Cardinality(Counted(m, u)) <= Cardinality(Call)
  BY <1>2, FS_Subset, ChatAssumption
<1> QED
  BY <1>1, <1>3, FS_CardinalityType DEF Held

\* Fewer reactions and fewer taps that have passed the count: the sum shrinks.
LEMMA SumShrinks ==
  ASSUME ReactionTypes, NEW m \in Message, NEW u \in User,
         reactions' \subseteq reactions, Counted(m, u)' \subseteq Counted(m, u)
  PROVE  Held(m, u)' + Cardinality(Counted(m, u)')
            <= Held(m, u) + Cardinality(Counted(m, u))
<1> DEFINE R == {r \in reactions : r[1] = m /\ r[2] = u}
           S == {r \in reactions' : r[1] = m /\ r[2] = u}
<1>1. S \in SUBSET R /\ IsFiniteSet(R)
  <2>1. S \in SUBSET R
    OBVIOUS
  <2>2. IsFiniteSet(R)
    BY Countable
  <2> QED
    BY <2>1, <2>2
<1>2. IsFiniteSet(S) /\ Cardinality(S) <= Cardinality(R)
  <2> HIDE DEF R, S
  <2> QED
    BY <1>1, FS_Subset
<1>3. IsFiniteSet(Counted(m, u)') /\ Cardinality(Counted(m, u)') <= Cardinality(Counted(m, u))
  BY Countable, FS_Subset, Counted(m, u)' \in SUBSET Counted(m, u)
<1>4. /\ Cardinality(S) \in Nat
      /\ Cardinality(R) \in Nat
      /\ Cardinality(Counted(m, u)') \in Nat
      /\ Cardinality(Counted(m, u)) \in Nat
  <2> HIDE DEF R, S
  <2> QED
    BY <1>1, <1>2, <1>3, Countable, FS_CardinalityType
<1>5. Held(m, u) = Cardinality(R) /\ Held(m, u)' = Cardinality(S)
  BY DEF Held
<1> QED
  BY <1>2, <1>3, <1>4, <1>5

\* No step takes the sum above the bound: a tap is only counted in while the person
\* holds less than the cap, and no more taps than handlers can be.
LEMMA CapStep ==
  ASSUME ReactionTypes, CapInv, [Next]_vars
  PROVE  CapInv'
<1> SUFFICES ASSUME NEW m \in Message, NEW u \in User
             PROVE  Held(m, u)' + Cardinality(Counted(m, u)')
                        <= Cap - 1 + Cardinality(Call)
  BY DEF CapInv
<1>1. Held(m, u) + Cardinality(Counted(m, u)) <= Cap - 1 + Cardinality(Call)
  BY DEF CapInv
<1>2. /\ Cap \in Nat \ {0}
      /\ Cardinality(Call) \in Nat
      /\ Held(m, u) \in Nat
      /\ Cardinality(Counted(m, u)) \in Nat
      /\ Held(m, u)' \in Nat
      /\ Cardinality(Counted(m, u)') \in Nat
      /\ Cardinality(Counted(m, u)') <= Cardinality(Call)
  <2>1. ReactionTypes'
    BY ReactionTypesStep
  <2>2. IsFiniteSet({r \in reactions' : r[1] = m /\ r[2] = u})
    BY <2>1, FS_Subset, {r \in reactions' : r[1] = m /\ r[2] = u} \in SUBSET reactions'
    DEF ReactionTypes
  <2>3. Held(m, u)' \in Nat
    BY <2>2, FS_CardinalityType DEF Held
  <2>4. Counted(m, u)' \in SUBSET Call
    BY DEF Counted
  <2>5. /\ IsFiniteSet(Counted(m, u)')
        /\ Cardinality(Counted(m, u)') \in Nat
        /\ Cardinality(Counted(m, u)') <= Cardinality(Call)
    BY <2>4, FS_Subset, FS_CardinalityType, ChatAssumption
  <2> QED
    BY <2>3, <2>5, Countable, ChatAssumption, FS_CardinalityType
<1>3. ASSUME reactions' \subseteq reactions, Counted(m, u)' \subseteq Counted(m, u)
      PROVE  Held(m, u)' + Cardinality(Counted(m, u)') <= Cap - 1 + Cardinality(Call)
  BY <1>1, <1>2, <1>3, SumShrinks
<1> USE DEF Counted
<1>4. ASSUME NEW k \in Call, NEW v \in User, NEW n \in Liked, NEW e \in Emoji,
             TapDeletes(k, v, n, e)
      PROVE  Held(m, u)' + Cardinality(Counted(m, u)') <= Cap - 1 + Cardinality(Call)
  <2>1. reactions' \subseteq reactions /\ Counted(m, u)' \subseteq Counted(m, u)
    BY <1>4 DEF TapDeletes, Toggled, NoTap, ReactionTypes, Tap
  <2> QED
    BY <1>3, <2>1
<1>5. ASSUME NEW k \in Call, TapCounts(k)
      PROVE  Held(m, u)' + Cardinality(Counted(m, u)') <= Cap - 1 + Cardinality(Call)
  <2>1. CASE /\ reacting[k].message = m
             /\ reacting[k].user = u
             /\ ~(Held(m, u) >= Cap)
    <3>1. Held(m, u)' = Held(m, u)
      BY <1>5 DEF TapCounts, Held
    <3> QED
      BY <1>2, <2>1, <3>1
  <2>2. CASE ~(/\ reacting[k].message = m
               /\ reacting[k].user = u
               /\ ~(Held(m, u) >= Cap))
    <3>1. reactions' = reactions /\ Counted(m, u)' \subseteq Counted(m, u)
      BY <1>5, <2>2 DEF TapCounts, Toggled, NoTap, ReactionTypes, Tap
    <3> QED
      BY <1>3, <3>1
  <2> QED
    BY <2>1, <2>2
<1>6. ASSUME NEW k \in Call, TapCreates(k)
      PROVE  Held(m, u)' + Cardinality(Counted(m, u)') <= Cap - 1 + Cardinality(Call)
  <2> DEFINE x == <<reacting[k].message, reacting[k].user, reacting[k].emoji>>
             R == {r \in reactions : r[1] = m /\ r[2] = u}
             S == {r \in reactions' : r[1] = m /\ r[2] = u}
  <2>1. CASE reacting[k].message = m /\ reacting[k].user = u
    <3>1. S = R \union {x} /\ x \notin R
      BY <1>6, <2>1 DEF TapCreates
    <3>2. Counted(m, u)' = Counted(m, u) \ {k} /\ k \in Counted(m, u)
      BY <1>6, <2>1 DEF TapCreates, Toggled, NoTap, ReactionTypes, Tap
    <3>3. IsFiniteSet(R) /\ IsFiniteSet(Counted(m, u))
      <4> HIDE DEF Counted
      <4>1. IsFiniteSet(R)
        BY FS_Subset, R \in SUBSET reactions DEF ReactionTypes
      <4>2. IsFiniteSet(Counted(m, u))
        BY Countable
      <4> QED
        BY <4>1, <4>2
    <3>4. Cardinality(S) = Cardinality(R) + 1
      <4> HIDE DEF R, S, x
      <4> QED
        BY <3>1, <3>3, FS_AddElement
    <3>5. Cardinality(Counted(m, u)') = Cardinality(Counted(m, u)) - 1
      <4> HIDE DEF Counted
      <4> QED
        BY <3>2, <3>3, FS_RemoveElement
    <3>6. Held(m, u) = Cardinality(R) /\ Held(m, u)' = Cardinality(S)
      BY DEF Held
    <3> QED
      BY <1>1, <1>2, <3>4, <3>5, <3>6
  <2>2. CASE ~(reacting[k].message = m /\ reacting[k].user = u)
    <3>1. S = R
      BY <1>6, <2>2 DEF TapCreates
    <3>2. Counted(m, u)' = Counted(m, u)
      BY <1>6, <2>2 DEF TapCreates, Toggled, NoTap, ReactionTypes, Tap
    <3>3. Held(m, u) = Cardinality(R) /\ Held(m, u)' = Cardinality(S)
      BY DEF Held
    <3> QED
      BY <1>1, <3>1, <3>2, <3>3
  <2> QED
    BY <2>1, <2>2
<1>7. ASSUME NEW k \in Call, TapLists(k) \/ TapThrows(k) \/ TapBroadcasts(k)
      PROVE  Held(m, u)' + Cardinality(Counted(m, u)') <= Cap - 1 + Cardinality(Call)
  <2>1. reactions' = reactions /\ Counted(m, u)' \subseteq Counted(m, u)
    BY <1>7 DEF TapLists, TapThrows, TapBroadcasts, NoTap, ReactionTypes, Tap
  <2> QED
    BY <1>3, <2>1
<1>8. CASE UNCHANGED <<reactions, reacting>>
  BY <1>1, <1>8 DEF Held
<1> QED
  BY <1>4, <1>5, <1>6, <1>7, <1>8, OnlyTapsReact DEF Tapping

\* Overlapping taps of one user exceed the cap by less than the number of handlers,
\* whatever the cap and that number are.
THEOREM CapHolds == Spec => []CapOverrunBounded
<1>1. Init => ReactionTypes /\ CapInv
  BY InitReactions
<1>2. ReactionTypes /\ CapInv /\ [Next]_vars => (ReactionTypes /\ CapInv)'
  BY ReactionTypesStep, CapStep
<1>3. ReactionTypes /\ CapInv => CapOverrunBounded
  <2> SUFFICES ASSUME ReactionTypes, CapInv, NEW m \in Message, NEW u \in User
               PROVE  Held(m, u) < Cap + Cardinality(Call)
    BY DEF CapOverrunBounded
  <2>1. Held(m, u) + Cardinality(Counted(m, u)) <= Cap - 1 + Cardinality(Call)
    BY DEF CapInv
  <2>2. Held(m, u) \in Nat /\ Cardinality(Counted(m, u)) \in Nat
    BY Countable
  <2>3. Cardinality(Call) \in Nat
    BY ChatAssumption, FS_CardinalityType
  <2> QED
    BY <2>1, <2>2, <2>3, ChatAssumption
<1> QED
  BY <1>1, <1>2, <1>3, PTL DEF Spec

-----------------------------------------------------------------------------
(* What every state looks like *)

\* Nothing is known, stored or under way of a message nobody has sent.
UnsentIsBlank ==
    \A m \in Message : ~IsSent(m) =>
        /\ rows[m].state = "none"
        /\ deleting[m] = "idle"
        /\ \A d \in Decoration : decorating[m][d] = "none"
        /\ \A c \in Client : told[c][m] = Untold
        /\ \A k \in Call : reacting[k].phase = "idle" \/ reacting[k].message # m

\* Reactions and pages are of stored messages; a page is held only while it is on
\* its way, and a client that is out has been told nothing.
StoredOnly ==
    /\ \A r \in reactions : Stored(r[1])
    /\ \A c \in Client :
          /\ clients[c].page # {} => clients[c].phase = "answering"
          /\ \A e \in clients[c].page : Stored(e.message)
          /\ ~InRoom(c) => \A m \in Message : told[c][m] = Untold

Shape == TypeOK /\ ReactionTypes /\ UnsentIsBlank /\ StoredOnly

LEMMA InitShape == Init => Shape
<1> SUFFICES ASSUME Init PROVE Shape
  OBVIOUS
<1>1. TypeOK
  <2>1. rows \in [Message -> Row] /\ decorating \in [Message -> [Decoration -> Progress]]
    BY DEF Init, NoRow, Row, Progress
  <2>2. \A m \in Message : ~rows[m].deleted /\ rows[m].decorations = {}
    BY DEF Init, NoRow
  <2>3. reacting \in [Call -> Tap] /\ deleting \in [Message -> {"idle", "deleted", "refused"}]
    BY DEF Init, NoTap, Tap
  <2>4. clients \in [Client -> Follower] /\ told \in [Client -> [Message -> Knowledge]]
    BY DEF Init, Away, Follower, Untold, Knowledge
  <2>5. sent \in [Message -> [author: User \union {None}, at: 0..MaxTime]]
    BY ChatAssumption DEF Init, Unsent
  <2>6. now \in 0..MaxTime /\ reactions \subseteq Message \X User \X Emoji
        /\ unsaved \in [Client -> SUBSET Message] /\ overtaken \subseteq Message
    BY ChatAssumption DEF Init
  <2> QED
    BY <2>1, <2>2, <2>3, <2>4, <2>5, <2>6 DEF TypeOK
<1>2. ReactionTypes
  BY InitReactions
<1>3. UnsentIsBlank
  BY DEF Init, UnsentIsBlank, NoRow, NoTap
<1>4. StoredOnly
  BY DEF Init, StoredOnly, Away, InRoom
<1> QED
  BY <1>1, <1>2, <1>3, <1>4 DEF Shape

\* A message is sent once; what was sent stays as it was.
LEMMA SentStep ==
  ASSUME Shape, [Next]_vars
  PROVE  /\ now' \in 0..MaxTime
         /\ sent' \in [Message -> [author: User \union {None}, at: 0..MaxTime]]
         /\ \A m \in Message : IsSent(m) => IsSent(m)' /\ sent'[m] = sent[m]
<1> USE DEF Shape, TypeOK
<1>1. CASE Tick
  BY <1>1, ChatAssumption DEF Tick, IsSent
<1>2. ASSUME NEW m \in Message, NEW u \in User, NEW D \in SUBSET Decoration,
             SendMessage(m, u, D)
      PROVE  /\ now' \in 0..MaxTime
             /\ sent' \in [Message -> [author: User \union {None}, at: 0..MaxTime]]
             /\ \A n \in Message : IsSent(n) => IsSent(n)' /\ sent'[n] = sent[n]
  BY <1>2, ChatAssumption DEF SendMessage, IsSent
<1>3. CASE UNCHANGED <<now, sent>>
  BY <1>3 DEF IsSent
<1>4. \/ Tick
      \/ \E m \in Message, u \in User, D \in SUBSET Decoration : SendMessage(m, u, D)
      \/ UNCHANGED <<now, sent>>
  BY DEF Next, Handling, Tapping, Following, vars, InsertSettles, DeleteUpdates,
         DeleteAnswered, DecorationUpdates, DecorationThrows, DecorationDropped,
         DecorationShown, TapDeletes, TapCounts, TapCreates, TapLists, TapThrows,
         TapBroadcasts, JoinRoom, ReadRecent, ReadBefore, ReadsPage, PageAnswered,
         LeaveRoom
<1> QED
  BY <1>1, <1>2, <1>3, <1>4

\* The writers of rows.
LEMMA RowsStep ==
  ASSUME Shape, [Next]_vars
  PROVE  /\ rows' \in [Message -> Row]
         /\ \A m \in Message :
               /\ Stored(m)' \/ (~rows'[m].deleted /\ rows'[m].decorations = {})
               /\ Stored(m) => Stored(m)'
               /\ rows[m].decorations \subseteq rows'[m].decorations
               /\ ~IsSent(m)' => rows'[m].state = "none"
<1> DEFINE Goal == /\ rows' \in [Message -> Row]
                   /\ \A m \in Message :
                        /\ Stored(m)' \/ (~rows'[m].deleted /\ rows'[m].decorations = {})
                        /\ Stored(m) => Stored(m)'
                        /\ rows[m].decorations \subseteq rows'[m].decorations
                        /\ ~IsSent(m)' => rows'[m].state = "none"
<1> SUFFICES Goal
  OBVIOUS
<1>0. /\ rows \in [Message -> Row]
      /\ \A m \in Message : Stored(m) \/ (~rows[m].deleted /\ rows[m].decorations = {})
      /\ \A m \in Message : IsSent(m) => IsSent(m)'
      /\ \A m \in Message : ~IsSent(m) => rows[m].state = "none"
  BY SentStep DEF Shape, TypeOK, UnsentIsBlank, Stored
\* One row changes, as the table says.
<1>a. ASSUME NEW m \in Message, NEW r \in Row,
             rows' = [rows EXCEPT ![m] = r],
             r.state = "stored" \/ (~r.deleted /\ r.decorations = {}),
             Stored(m) => r.state = "stored",
             rows[m].decorations \subseteq r.decorations,
             IsSent(m)'
      PROVE  Goal
  BY <1>0, <1>a DEF Stored
<1>1. ASSUME NEW m \in Message, NEW u \in User, NEW D \in SUBSET Decoration,
             SendMessage(m, u, D)
      PROVE  Goal
  <2> DEFINE r == [rows[m] EXCEPT !.state = "inserting"]
  <2>1. r \in Row /\ r.decorations = rows[m].decorations /\ r.deleted = rows[m].deleted
    BY <1>0 DEF Row
  <2>2. rows' = [rows EXCEPT ![m] = r] /\ ~Stored(m) /\ IsSent(m)'
    BY <1>0, <1>1, ChatAssumption DEF SendMessage, Stored, IsSent, Shape, TypeOK
  <2> HIDE DEF r
  <2> QED
    BY <1>0, <1>a, <2>1, <2>2
<1>2. ASSUME NEW m \in Message, InsertSettles(m)
      PROVE  Goal
  <2>1. PICK o \in {"stored", "failed"} : rows' = [rows EXCEPT ![m].state = o]
    BY <1>2 DEF InsertSettles
  <2> DEFINE r == [rows[m] EXCEPT !.state = o]
  <2>2. r \in Row /\ r.decorations = rows[m].decorations /\ r.deleted = rows[m].deleted
    BY <1>0 DEF Row
  <2>3. rows' = [rows EXCEPT ![m] = r] /\ ~Stored(m) /\ IsSent(m)'
    BY <1>0, <1>2, <2>1 DEF InsertSettles, Stored, IsSent
  <2> HIDE DEF r
  <2> QED
    BY <1>0, <1>a, <2>2, <2>3
<1>3. ASSUME NEW m \in Message, NEW d \in Decoration, DecorationUpdates(m, d)
      PROVE  Goal
  <2> DEFINE r == [rows[m] EXCEPT !.decorations = @ \union {d}]
  <2>1. r \in Row /\ rows[m].decorations \subseteq r.decorations /\ r.state = rows[m].state
    BY <1>0 DEF Row
  <2>2. rows' = [rows EXCEPT ![m] = r] /\ Stored(m) /\ IsSent(m)'
    BY <1>0, <1>3 DEF DecorationUpdates, Stored, IsSent
  <2> HIDE DEF r
  <2> QED
    BY <1>0, <1>a, <2>1, <2>2 DEF Stored
<1>4. ASSUME NEW m \in Message, NEW u \in User, DeleteUpdates(m, u)
      PROVE  Goal
  <2>1. CASE Stored(m) /\ sent[m].author = u
    <3> DEFINE r == [rows[m] EXCEPT !.deleted = TRUE]
    <3>1. r \in Row /\ r.decorations = rows[m].decorations /\ r.state = rows[m].state
      BY <1>0 DEF Row
    <3>2. rows' = [rows EXCEPT ![m] = r] /\ IsSent(m)'
      BY <1>0, <1>4, <2>1 DEF DeleteUpdates
    <3> HIDE DEF r
    <3> QED
      BY <1>0, <1>a, <2>1, <3>1, <3>2 DEF Stored
  <2>2. CASE ~(Stored(m) /\ sent[m].author = u)
    BY <1>0, <1>4, <2>2 DEF DeleteUpdates, Stored
  <2> QED
    BY <2>1, <2>2
<1>5. CASE UNCHANGED rows
  BY <1>0, <1>5 DEF Stored
<1>6. \/ \E m \in Message, u \in User, D \in SUBSET Decoration : SendMessage(m, u, D)
      \/ \E m \in Message : InsertSettles(m)
      \/ \E m \in Message, d \in Decoration : DecorationUpdates(m, d)
      \/ \E m \in Message, u \in User : DeleteUpdates(m, u)
      \/ UNCHANGED rows
  BY DEF Next, Handling, Tapping, Following, vars, Tick,
         DeleteAnswered, DecorationThrows, DecorationDropped,
         DecorationShown, TapDeletes, TapCounts, TapCreates, TapLists, TapThrows,
         TapBroadcasts, JoinRoom, ReadRecent, ReadBefore, ReadsPage, PageAnswered,
         LeaveRoom
<1> QED
  BY <1>1, <1>2, <1>3, <1>4, <1>5, <1>6

\* The writers of decorating.
LEMMA DecoratingStep ==
  ASSUME Shape, [Next]_vars
  PROVE  /\ decorating' \in [Message -> [Decoration -> Progress]]
         /\ \A m \in Message : ~IsSent(m)' => \A d \in Decoration : decorating'[m][d] = "none"
<1> DEFINE Goal == /\ decorating' \in [Message -> [Decoration -> Progress]]
                   /\ \A m \in Message :
                        ~IsSent(m)' => \A d \in Decoration : decorating'[m][d] = "none"
<1> SUFFICES Goal
  OBVIOUS
<1>0. /\ decorating \in [Message -> [Decoration -> Progress]]
      /\ \A m \in Message : IsSent(m) => IsSent(m)'
      /\ \A m \in Message : ~IsSent(m) => \A d \in Decoration : decorating[m][d] = "none"
  BY SentStep DEF Shape, TypeOK, UnsentIsBlank
<1>a. ASSUME NEW m \in Message, NEW g \in [Decoration -> Progress],
             decorating' = [decorating EXCEPT ![m] = g], IsSent(m)'
      PROVE  Goal
  BY <1>0, <1>a
<1>b. ASSUME NEW m \in Message, NEW d \in Decoration, NEW p \in Progress,
             decorating[m][d] # "none", decorating' = [decorating EXCEPT ![m][d] = p]
      PROVE  Goal
  <2>1. [decorating[m] EXCEPT ![d] = p] \in [Decoration -> Progress]
    BY <1>0
  <2> QED
    BY <1>0, <1>a, <1>b, <2>1
<1>1. ASSUME NEW m \in Message, NEW u \in User, NEW D \in SUBSET Decoration,
             SendMessage(m, u, D)
      PROVE  Goal
  <2>1. [d \in Decoration |-> IF d \in D THEN "fetching" ELSE "none"]
            \in [Decoration -> Progress]
    BY DEF Progress
  <2>2. IsSent(m)'
    BY <1>1, ChatAssumption DEF SendMessage, IsSent, Shape, TypeOK
  <2> QED
    BY <1>1, <1>a, <2>1, <2>2 DEF SendMessage
<1>2. ASSUME NEW m \in Message, NEW d \in Decoration,
             \/ DecorationUpdates(m, d) \/ DecorationThrows(m, d)
             \/ DecorationDropped(m, d) \/ DecorationShown(m, d)
      PROVE  Goal
  <2>1. decorating[m][d] # "none"
    BY <1>2 DEF DecorationUpdates, DecorationThrows, DecorationDropped, DecorationShown
  <2>2. \E p \in Progress : decorating' = [decorating EXCEPT ![m][d] = p]
    BY <1>2 DEF DecorationUpdates, DecorationThrows, DecorationDropped, DecorationShown,
                Progress
  <2> QED
    BY <1>b, <2>1, <2>2
<1>3. CASE UNCHANGED decorating
  BY <1>0, <1>3
<1>4. \/ \E m \in Message, u \in User, D \in SUBSET Decoration : SendMessage(m, u, D)
      \/ \E m \in Message, d \in Decoration :
            \/ DecorationUpdates(m, d) \/ DecorationThrows(m, d)
            \/ DecorationDropped(m, d) \/ DecorationShown(m, d)
      \/ UNCHANGED decorating
  BY DEF Next, Handling, Tapping, Following, vars, Tick, InsertSettles, DeleteUpdates,
         DeleteAnswered, TapDeletes, TapCounts, TapCreates, TapLists, TapThrows,
         TapBroadcasts, JoinRoom, ReadRecent, ReadBefore, ReadsPage, PageAnswered,
         LeaveRoom
<1> QED
  BY <1>1, <1>2, <1>3, <1>4

\* The writers of deleting: only the deletion of a stored message of one's own is
\* about to be announced.
LEMMA DeletingStep ==
  ASSUME Shape, [Next]_vars
  PROVE  /\ deleting' \in [Message -> {"idle", "deleted", "refused"}]
         /\ \A m \in Message : ~IsSent(m)' => deleting'[m] = "idle"
<1>0. /\ deleting \in [Message -> {"idle", "deleted", "refused"}]
      /\ \A m \in Message : IsSent(m) => IsSent(m)'
      /\ \A m \in Message : ~IsSent(m) => deleting[m] = "idle"
  BY SentStep DEF Shape, TypeOK, UnsentIsBlank
<1>1. ASSUME NEW m \in Message, NEW u \in User, DeleteUpdates(m, u)
      PROVE  /\ deleting' \in [Message -> {"idle", "deleted", "refused"}]
             /\ \A n \in Message : ~IsSent(n)' => deleting'[n] = "idle"
  BY <1>0, <1>1 DEF DeleteUpdates
<1>2. ASSUME NEW m \in Message, DeleteAnswered(m)
      PROVE  /\ deleting' \in [Message -> {"idle", "deleted", "refused"}]
             /\ \A n \in Message : ~IsSent(n)' => deleting'[n] = "idle"
  BY <1>0, <1>2 DEF DeleteAnswered
<1>3. CASE UNCHANGED deleting
  BY <1>0, <1>3
<1>4. \/ \E m \in Message, u \in User : DeleteUpdates(m, u)
      \/ \E m \in Message : DeleteAnswered(m)
      \/ UNCHANGED deleting
  BY DEF Next, Handling, Tapping, Following, vars, Tick, SendMessage, InsertSettles,
         DecorationUpdates, DecorationThrows, DecorationDropped, DecorationShown,
         TapDeletes, TapCounts, TapCreates, TapLists, TapThrows, TapBroadcasts,
         JoinRoom, ReadRecent, ReadBefore, ReadsPage, PageAnswered, LeaveRoom
<1> QED
  BY <1>1, <1>2, <1>3, <1>4

\* A page that is read holds stored messages, as they are in the tables.
LEMMA PageRead ==
  ASSUME Shape, NEW c \in Client, NEW S \in SUBSET Message, ReadsPage(c, S)
  PROVE  \E P \in Pages(S) :
            /\ clients' = [clients EXCEPT ![c] =
                   [phase |-> "answering", more |-> Cardinality(P) = PageSize,
                    page |-> {EntryOf(m) : m \in P}]]
            /\ {EntryOf(m) : m \in P} \in SUBSET Entry
            /\ clients'[c] \in Follower
            /\ clients'[c].page = {EntryOf(m) : m \in P}
<1>1. PICK P \in Pages(S) :
          clients' = [clients EXCEPT ![c] =
              [phase |-> "answering", more |-> Cardinality(P) = PageSize,
               page |-> {EntryOf(m) : m \in P}]]
  BY DEF ReadsPage
<1>2. ASSUME NEW m \in Message
      PROVE  EntryOf(m) \in Entry
  <2>1. ReactionsOn(m) \in SUBSET (User \X Emoji)
    BY DEF ReactionsOn, Shape, ReactionTypes
  <2>2. rows[m].decorations \in SUBSET Decoration
    BY DEF Shape, TypeOK, Row
  <2> QED
    BY <2>1, <2>2 DEF EntryOf, Entry
<1>3. {EntryOf(m) : m \in P} \in SUBSET Entry
  BY <1>2 DEF Pages
<1>4. clients'[c] = [phase |-> "answering", more |-> Cardinality(P) = PageSize,
                     page |-> {EntryOf(m) : m \in P}]
  BY <1>1 DEF Shape, TypeOK
<1>5. (Cardinality(P) = PageSize) \in BOOLEAN
  OBVIOUS
<1>6. clients'[c] \in Follower
  <2> DEFINE more == Cardinality(P) = PageSize
             page == {EntryOf(m) : m \in P}
  <2>1. more \in BOOLEAN /\ page \in SUBSET Entry
    BY <1>3, <1>5
  <2>2. clients'[c] = [phase |-> "answering", more |-> more, page |-> page]
    BY <1>4
  <2> HIDE DEF more, page
  <2> QED
    BY <2>1, <2>2 DEF Follower
<1>7. clients'[c].page = {EntryOf(m) : m \in P}
  BY <1>4
<1> QED
  BY <1>1, <1>3, <1>6, <1>7

\* The writers of clients.
LEMMA ClientsStep ==
  ASSUME Shape, [Next]_vars
  PROVE  /\ clients' \in [Client -> Follower]
         /\ \A c \in Client :
               /\ clients'[c].page # {} => clients'[c].phase = "answering"
               /\ \A e \in clients'[c].page : Stored(e.message)'
<1> DEFINE OK(f) == /\ f \in Follower
                    /\ f.page # {} => f.phase = "answering"
                    /\ \A e \in f.page : Stored(e.message)'
           Goal == clients' \in [Client -> Follower] /\ \A c \in Client : OK(clients'[c])
<1> SUFFICES Goal
  OBVIOUS
<1>0. /\ clients \in [Client -> Follower]
      /\ \A m \in Message : Stored(m) => Stored(m)'
      /\ \A c \in Client : OK(clients[c])
  <2>1. clients \in [Client -> Follower] /\ \A m \in Message : Stored(m) => Stored(m)'
    BY RowsStep DEF Shape, TypeOK
  <2>2. ASSUME NEW c \in Client PROVE OK(clients[c])
    BY <2>1 DEF Shape, StoredOnly, Follower, Entry
  <2> QED
    BY <2>1, <2>2
<1>a. ASSUME NEW c \in Client, NEW f, OK(f), clients' = [clients EXCEPT ![c] = f]
      PROVE  Goal
  <2> HIDE DEF OK
  <2>1. f \in Follower
    BY <1>a DEF OK
  <2> QED
    BY <1>0, <1>a, <2>1
<1>b. ASSUME NEW c \in Client, NEW S \in SUBSET Visible, ReadsPage(c, S)
      PROVE  Goal
  <2>1. S \in SUBSET Message
    BY DEF Visible
  <2>2. PICK P \in Pages(S) :
            /\ clients' = [clients EXCEPT ![c] =
                   [phase |-> "answering", more |-> Cardinality(P) = PageSize,
                    page |-> {EntryOf(m) : m \in P}]]
            /\ clients'[c] \in Follower
            /\ clients'[c].page = {EntryOf(m) : m \in P}
    BY <1>b, <2>1, PageRead
  <2>3. clients' = [clients EXCEPT ![c] = clients'[c]] /\ clients'[c].phase = "answering"
    BY <1>0, <2>2
  <2>4. ASSUME NEW e \in clients'[c].page PROVE Stored(e.message)'
    <3>1. PICK m \in P : e = EntryOf(m)
      BY <2>2
    <3>2. Stored(m) /\ m \in Message
      BY DEF Pages, Visible
    <3> QED
      BY <1>0, <3>1, <3>2 DEF EntryOf
  <2>5. OK(clients'[c])
    BY <2>2, <2>3, <2>4
  <2> QED
    BY <1>a, <2>3, <2>5
<1>1. ASSUME NEW c \in Client, JoinRoom(c)
      PROVE  Goal
  <2> DEFINE f == [clients[c] EXCEPT !.phase = "joined"]
  <2>1. clients[c].page = {}
    BY <1>0, <1>1 DEF JoinRoom
  <2>2. OK(f)
    BY <1>0, <2>1 DEF Follower
  <2> QED
    BY <1>1, <1>a, <2>2 DEF JoinRoom
<1>2. ASSUME NEW c \in Client, ReadRecent(c)
      PROVE  Goal
  BY <1>2, <1>b DEF ReadRecent
<1>3. ASSUME NEW c \in Client, ReadBefore(c)
      PROVE  Goal
  <2>1. PICK m \in Message : ReadsPage(c, {n \in Visible : sent[n].at < sent[m].at})
    BY <1>3 DEF ReadBefore
  <2> QED
    BY <1>b, <2>1
<1>4. ASSUME NEW c \in Client, PageAnswered(c)
      PROVE  Goal
  <2> DEFINE f == [clients[c] EXCEPT !.phase = "in", !.page = {}]
  <2>1. OK(f)
    BY <1>0 DEF Follower
  <2>2. clients' = [clients EXCEPT ![c] = f]
    BY <1>4 DEF PageAnswered
  <2> QED
    BY <1>a, <2>1, <2>2
<1>5. ASSUME NEW c \in Client, LeaveRoom(c)
      PROVE  Goal
  <2>1. OK(Away)
    BY DEF Away, Follower
  <2> QED
    BY <1>5, <1>a, <2>1 DEF LeaveRoom
<1>6. CASE UNCHANGED clients
  <2>1. ASSUME NEW c \in Client, NEW e \in clients[c].page PROVE Stored(e.message)'
    BY <1>0
  <2> QED
    BY <1>0, <1>6, <2>1
<1>7. UNCHANGED clients \/ Following
  BY DEF Next, Handling, Tapping, vars, Tick, SendMessage, InsertSettles, DeleteUpdates,
         DeleteAnswered, DecorationUpdates, DecorationThrows, DecorationDropped,
         DecorationShown, TapDeletes, TapCounts, TapCreates, TapLists, TapThrows,
         TapBroadcasts
<1> QED
  BY <1>1, <1>2, <1>3, <1>4, <1>5, <1>6, <1>7 DEF Following

\* A broadcast changes one message's knowledge, of the clients in the room.
LEMMA Telling ==
  ASSUME Shape, NEW m \in Message, NEW news \in [Client -> Knowledge], TellRoom(m, news)
  PROVE  /\ told' \in [Client -> [Message -> Knowledge]]
         /\ \A c \in Client, n \in Message :
               told'[c][n] = IF n = m /\ InRoom(c) THEN news[c] ELSE told[c][n]
<1>1. told \in [Client -> [Message -> Knowledge]]
  BY DEF Shape, TypeOK
<1>2. told' = [c \in Client |->
                  IF InRoom(c) THEN [told[c] EXCEPT ![m] = news[c]] ELSE told[c]]
  BY DEF TellRoom
<1>3. ASSUME NEW c \in Client
      PROVE  /\ told'[c] \in [Message -> Knowledge]
             /\ \A n \in Message :
                   told'[c][n] = IF n = m /\ InRoom(c) THEN news[c] ELSE told[c][n]
  <2>1. told'[c] = IF InRoom(c) THEN [told[c] EXCEPT ![m] = news[c]] ELSE told[c]
    BY <1>2
  <2>2. told[c] \in [Message -> Knowledge] /\ news[c] \in Knowledge
    BY <1>1
  <2> QED
    BY <2>1, <2>2
<1> QED
  BY <1>2, <1>3

\* What each broadcast says is well typed.
LEMMA NewsTyped ==
  ASSUME Shape, NEW m \in Message
  PROVE  /\ [c \in Client |-> [told[c][m] EXCEPT !.known = TRUE]] \in [Client -> Knowledge]
         /\ [c \in Client |-> [told[c][m] EXCEPT !.deleted = TRUE]] \in [Client -> Knowledge]
         /\ \A d \in Decoration :
               [c \in Client |-> [told[c][m] EXCEPT !.decorations = @ \union {d}]]
                   \in [Client -> Knowledge]
         /\ \A S \in SUBSET (User \X Emoji) :
               [c \in Client |-> [told[c][m] EXCEPT !.reactions = S]]
                   \in [Client -> Knowledge]
<1>1. \A c \in Client : told[c][m] \in Knowledge
  BY DEF Shape, TypeOK
<1>2. \A t \in Knowledge : /\ [t EXCEPT !.known = TRUE] \in Knowledge
                           /\ [t EXCEPT !.deleted = TRUE] \in Knowledge
  BY DEF Knowledge
<1>3. \A t \in Knowledge, d \in Decoration :
          [t EXCEPT !.decorations = @ \union {d}] \in Knowledge
  BY DEF Knowledge
<1>4. \A t \in Knowledge, S \in SUBSET (User \X Emoji) :
          [t EXCEPT !.reactions = S] \in Knowledge
  BY DEF Knowledge
<1> QED
  BY <1>1, <1>2, <1>3, <1>4

\* A page that arrives adds what it says of its messages to what the client knows.
LEMMA PageTells ==
  ASSUME Shape, NEW c \in Client, PageAnswered(c)
  PROVE  /\ told' \in [Client -> [Message -> Knowledge]]
         /\ \A b \in Client \ {c} : told'[b] = told[b]
         /\ \A n \in Message :
               IF \E e \in clients[c].page : e.message = n
               THEN \E e \in clients[c].page :
                       /\ e.message = n
                       /\ told'[c][n] = [known |-> TRUE, deleted |-> told[c][n].deleted,
                              decorations |-> told[c][n].decorations \union e.decorations,
                              reactions |-> e.reactions]
               ELSE told'[c][n] = told[c][n]
<1> DEFINE page == clients[c].page
           Of(n) == CHOOSE e \in page : e.message = n
           In(n) == \E e \in page : e.message = n
           new(n) == [known |-> TRUE, deleted |-> told[c][n].deleted,
                      decorations |-> told[c][n].decorations \union Of(n).decorations,
                      reactions |-> Of(n).reactions]
           f == [n \in Message |-> IF In(n) THEN new(n) ELSE told[c][n]]
<1>1. told \in [Client -> [Message -> Knowledge]]
  BY DEF Shape, TypeOK
<1>2. told' = [told EXCEPT ![c] = f]
  BY DEF PageAnswered
<1>3. page \subseteq Entry
  BY DEF Shape, TypeOK, Follower
<1>4. \A n \in Message : In(n) => Of(n) \in page /\ Of(n).message = n
  OBVIOUS
<1>5. ASSUME NEW n \in Message
      PROVE  /\ f[n] \in Knowledge
             /\ In(n) => \E e \in page :
                    /\ e.message = n
                    /\ f[n] = [known |-> TRUE, deleted |-> told[c][n].deleted,
                               decorations |-> told[c][n].decorations \union e.decorations,
                               reactions |-> e.reactions]
             /\ ~In(n) => f[n] = told[c][n]
  <2>1. told[c][n] \in Knowledge
    BY <1>1
  <2>2. CASE In(n)
    <3>1. Of(n) \in Entry /\ Of(n) \in page /\ Of(n).message = n
      BY <1>3, <1>4, <2>2
    <3>2. f[n] = new(n)
      BY <2>2
    <3> HIDE DEF Of, page, In, f
    <3>3. new(n) \in Knowledge
      BY <2>1, <3>1 DEF Entry, Knowledge
    <3> QED
      BY <2>2, <3>1, <3>2, <3>3
  <2>3. CASE ~In(n)
    <3>1. f[n] = told[c][n]
      BY <2>3
    <3> QED
      BY <2>1, <2>3, <3>1
  <2> QED
    BY <2>2, <2>3
<1>6. f \in [Message -> Knowledge]
  <2>1. \A n \in Message : f[n] \in Knowledge
    BY <1>5
  <2>2. f = [n \in Message |-> f[n]]
    OBVIOUS
  <2> HIDE DEF f
  <2> QED
    BY <2>1, <2>2
<1>7. told' \in [Client -> [Message -> Knowledge]] /\ told'[c] = f
      /\ \A b \in Client \ {c} : told'[b] = told[b]
  <2> HIDE DEF f
  <2> QED
    BY <1>1, <1>2, <1>6
<1> HIDE DEF f
<1> QED
  BY <1>5, <1>7

\* The writers of told.
LEMMA ToldWriters ==
  ASSUME [Next]_vars
  PROVE  \/ \E m \in Message, u \in User, D \in SUBSET Decoration : SendMessage(m, u, D)
         \/ \E m \in Message, d \in Decoration : DecorationShown(m, d)
         \/ \E k \in Call : TapBroadcasts(k)
         \/ \E m \in Message : DeleteAnswered(m)
         \/ \E c \in Client : PageAnswered(c) \/ LeaveRoom(c)
         \/ UNCHANGED told
BY DEF Next, Handling, Tapping, Following, vars, Tick, InsertSettles, DeleteUpdates,
       DecorationUpdates, DecorationThrows, DecorationDropped, TapDeletes, TapCounts,
       TapCreates, TapLists, TapThrows, JoinRoom, ReadRecent, ReadBefore, ReadsPage

\* A client that is out stays out, comes in, and comes out by leaving.
LEMMA RoomStep ==
  ASSUME Shape, [Next]_vars, NEW c \in Client, InRoom(c), ~InRoom(c)'
  PROVE  LeaveRoom(c)
<1>1. clients \in [Client -> Follower]
  BY DEF Shape, TypeOK
<1>2. Following
  BY DEF InRoom, Next, Handling, Tapping, vars, Tick, SendMessage, InsertSettles,
         DeleteUpdates, DeleteAnswered, DecorationUpdates, DecorationThrows,
         DecorationDropped, DecorationShown, TapDeletes, TapCounts, TapCreates,
         TapLists, TapThrows, TapBroadcasts
<1>3. PICK b \in Client : \/ JoinRoom(b) \/ ReadRecent(b) \/ ReadBefore(b)
                          \/ PageAnswered(b) \/ LeaveRoom(b)
  BY <1>2 DEF Following
<1>4. CASE JoinRoom(b)
  BY <1>1, <1>4 DEF JoinRoom, InRoom
<1>5. CASE ReadRecent(b) \/ ReadBefore(b)
  <2>1. \E S : ReadsPage(b, S)
    BY <1>5 DEF ReadRecent, ReadBefore
  <2> QED
    BY <1>1, <2>1 DEF ReadsPage, InRoom
<1>6. CASE PageAnswered(b)
  BY <1>1, <1>6 DEF PageAnswered, InRoom
<1>7. CASE LeaveRoom(b)
  BY <1>1, <1>7 DEF LeaveRoom, InRoom
<1> QED
  BY <1>3, <1>4, <1>5, <1>6, <1>7

LEMMA ToldStep ==
  ASSUME Shape, [Next]_vars
  PROVE  /\ told' \in [Client -> [Message -> Knowledge]]
         /\ \A c \in Client, m \in Message :
               ~IsSent(m)' \/ ~InRoom(c)' => told'[c][m] = Untold
<1> DEFINE Goal == /\ told' \in [Client -> [Message -> Knowledge]]
                   /\ \A c \in Client, m \in Message :
                         ~IsSent(m)' \/ ~InRoom(c)' => told'[c][m] = Untold
<1> SUFFICES Goal
  OBVIOUS
<1>0. /\ told \in [Client -> [Message -> Knowledge]]
      /\ \A m \in Message : IsSent(m) => IsSent(m)'
      /\ \A c \in Client, m \in Message : ~IsSent(m) \/ ~InRoom(c) => told[c][m] = Untold
  BY SentStep DEF Shape, TypeOK, UnsentIsBlank, StoredOnly
<1>a. ASSUME NEW m \in Message, NEW news \in [Client -> Knowledge], TellRoom(m, news),
             IsSent(m)', UNCHANGED clients
      PROVE  Goal
  <2>1. /\ told' \in [Client -> [Message -> Knowledge]]
        /\ \A c \in Client, n \in Message :
              told'[c][n] = IF n = m /\ InRoom(c) THEN news[c] ELSE told[c][n]
    BY <1>a, Telling
  <2>2. \A c \in Client : InRoom(c)' = InRoom(c)
    BY <1>a DEF InRoom
  <2> QED
    BY <1>0, <1>a, <2>1, <2>2
<1>1. ASSUME NEW m \in Message, NEW u \in User, NEW D \in SUBSET Decoration,
             SendMessage(m, u, D)
      PROVE  Goal
  <2>1. IsSent(m)'
    BY <1>1, ChatAssumption DEF SendMessage, IsSent, Shape, TypeOK
  <2> QED
    BY <1>1, <1>a, <2>1, NewsTyped DEF SendMessage
<1>2. ASSUME NEW m \in Message, NEW d \in Decoration, DecorationShown(m, d)
      PROVE  Goal
  <2>1. IsSent(m)
    BY <1>2 DEF DecorationShown, Shape, UnsentIsBlank
  <2> QED
    BY <1>0, <1>2, <1>a, <2>1, NewsTyped DEF DecorationShown
<1>3. ASSUME NEW k \in Call, TapBroadcasts(k)
      PROVE  Goal
  <2>1. reacting[k].message \in Message /\ reacting[k].seen \in SUBSET (User \X Emoji)
    BY <1>3 DEF TapBroadcasts, Shape, ReactionTypes, TapShape, Tap
  <2>2. PICK m \in Message, S \in SUBSET (User \X Emoji) :
            m = reacting[k].message /\ S = reacting[k].seen
    BY <2>1
  <2>3. TellRoom(m, [c \in Client |-> [told[c][m] EXCEPT !.reactions = S]])
    BY <1>3, <2>2 DEF TapBroadcasts
  <2>4. IsSent(m)
    BY <1>3, <2>2 DEF TapBroadcasts, Shape, UnsentIsBlank
  <2> QED
    BY <1>0, <1>3, <1>a, <2>3, <2>4, NewsTyped DEF TapBroadcasts
<1>4. ASSUME NEW m \in Message, DeleteAnswered(m)
      PROVE  Goal
  <2>1. IsSent(m)
    BY <1>4 DEF DeleteAnswered, Shape, UnsentIsBlank
  <2>2. CASE deleting[m] = "deleted"
    BY <1>0, <1>4, <1>a, <2>1, <2>2, NewsTyped DEF DeleteAnswered
  <2>3. CASE deleting[m] # "deleted"
    BY <1>0, <1>4, <2>3 DEF DeleteAnswered, InRoom
  <2> QED
    BY <2>2, <2>3
<1>5. ASSUME NEW c \in Client, PageAnswered(c)
      PROVE  Goal
  <2>1. \A e \in clients[c].page : Stored(e.message) /\ e.message \in Message
    BY DEF Shape, StoredOnly, TypeOK, Follower, Entry
  <2>2. \A m \in Message : Stored(m) => IsSent(m)
    BY DEF Shape, UnsentIsBlank, Stored
  <2>3. \A b \in Client : InRoom(b)' = InRoom(b)
    BY <1>5 DEF PageAnswered, InRoom, Shape, TypeOK
  <2>4. InRoom(c)
    BY <1>5 DEF PageAnswered, InRoom
  <2>5. \A m \in Message : ~IsSent(m) => told'[c][m] = told[c][m]
    BY <1>5, <2>1, <2>2, PageTells
  <2> QED
    BY <1>0, <1>5, <2>3, <2>4, <2>5, PageTells
<1>6. ASSUME NEW c \in Client, LeaveRoom(c)
      PROVE  Goal
  <2>1. Untold \in Knowledge
    BY DEF Untold, Knowledge
  <2>2. told' = [told EXCEPT ![c] = [m \in Message |-> Untold]]
    BY <1>6 DEF LeaveRoom
  <2>3. \A b \in Client \ {c} : InRoom(b)' = InRoom(b)
    BY <1>6 DEF LeaveRoom, InRoom, Shape, TypeOK
  <2> QED
    BY <1>0, <2>1, <2>2, <2>3
<1>7. CASE UNCHANGED told
  <2>1. \A c \in Client : ~InRoom(c)' => ~InRoom(c) \/ LeaveRoom(c)
    BY RoomStep
  <2> QED
    BY <1>0, <1>6, <1>7, <2>1
<1> QED
  BY <1>1, <1>2, <1>3, <1>4, <1>5, <1>6, <1>7, ToldWriters

\* A handler that is at work is about a message that was sent.
LEMMA TapsOfSent ==
  ASSUME Shape, [Next]_vars, NEW m \in Message, ~IsSent(m)', NEW k \in Call
  PROVE  reacting'[k].phase = "idle" \/ reacting'[k].message # m
<1>1. ~IsSent(m)
  BY SentStep
<1>2. \A j \in Call : reacting[j].phase = "idle" \/ reacting[j].message # m
  BY <1>1 DEF Shape, UnsentIsBlank
<1>3. reacting \in [Call -> Tap]
  BY DEF Shape, TypeOK
<1>4. ASSUME NEW j \in Call, NEW u \in User, NEW n \in Liked, NEW e \in Emoji,
             TapDeletes(j, u, n, e)
      PROVE  reacting'[k].phase = "idle" \/ reacting'[k].message # m
  BY <1>1, <1>2, <1>3, <1>4 DEF TapDeletes, Toggled, NoTap
<1>5. ASSUME NEW j \in Call, TapCounts(j) \/ TapCreates(j) \/ TapLists(j)
      PROVE  reacting'[k].phase = "idle" \/ reacting'[k].message # m
  <2>1. \A i \in Call \ {j} : reacting'[i] = reacting[i]
    BY <1>3, <1>5 DEF TapCounts, TapCreates, TapLists
  <2>2. reacting[j].phase # "idle" /\ reacting'[j].message = reacting[j].message
    <3>1. CASE TapCounts(j)
      <4>1. \/ reacting'[j] = Toggled(reacting[j].message)
            \/ reacting'[j] = [reacting[j] EXCEPT !.phase = "counted"]
        BY <1>3, <3>1 DEF TapCounts
      <4> QED
        BY <1>3, <3>1, <4>1 DEF TapCounts, Toggled, NoTap, Tap
    <3>2. CASE TapCreates(j)
      BY <1>3, <3>2 DEF TapCreates, Toggled, NoTap
    <3>3. CASE TapLists(j)
      BY <1>3, <3>3 DEF TapLists, Tap
    <3> QED
      BY <1>5, <3>1, <3>2, <3>3
  <2> QED
    BY <1>2, <2>1, <2>2
<1>6. ASSUME NEW j \in Call, TapThrows(j) \/ TapBroadcasts(j)
      PROVE  reacting'[k].phase = "idle" \/ reacting'[k].message # m
  BY <1>2, <1>3, <1>6 DEF TapThrows, TapBroadcasts, NoTap
<1>7. CASE UNCHANGED <<reactions, reacting>>
  BY <1>2, <1>7
<1> QED
  BY <1>4, <1>5, <1>6, <1>7, OnlyTapsReact DEF Tapping

\* The histories, and the reactions of stored messages.
LEMMA HistoriesStep ==
  ASSUME Shape, [Next]_vars
  PROVE  unsaved' \in [Client -> SUBSET Message] /\ overtaken' \subseteq Message
<1>0. unsaved \in [Client -> SUBSET Message] /\ overtaken \subseteq Message
      /\ \A k \in Call : reacting[k].phase # "idle" => reacting[k].message \in Message
  BY DEF Shape, TypeOK, ReactionTypes, TapShape
<1>1. unsaved' \in [Client -> SUBSET Message]
  <2>1. \/ UNCHANGED unsaved
        \/ \E c \in Client, T \in SUBSET Message : unsaved' = [unsaved EXCEPT ![c] = @ \union T]
        \/ \E c \in Client : unsaved' = [unsaved EXCEPT ![c] = {}]
    <3>1. CASE Following
      <4>1. ASSUME NEW c \in Client, NEW S, ReadsPage(c, S)
            PROVE  \E T \in SUBSET Message : unsaved' = [unsaved EXCEPT ![c] = @ \union T]
        BY <4>1 DEF ReadsPage
      <4> QED
        BY <3>1, <4>1 DEF Following, JoinRoom, ReadRecent, ReadBefore, PageAnswered, LeaveRoom
    <3>2. CASE UNCHANGED vars \/ Handling \/ Tapping
      BY <3>2 DEF Handling, Tapping, vars, Tick, SendMessage, InsertSettles, DeleteUpdates,
           DeleteAnswered, DecorationUpdates, DecorationThrows, DecorationDropped,
           DecorationShown, TapDeletes, TapCounts, TapCreates, TapLists, TapThrows,
           TapBroadcasts
    <3> QED
      BY <3>1, <3>2 DEF Next
  <2> QED
    BY <1>0, <2>1
<1>2. overtaken' \subseteq Message
  <2>1. CASE \E k \in Call, u \in User, m \in Liked, e \in Emoji : TapDeletes(k, u, m, e)
    BY <1>0, <2>1, ChatAssumption DEF TapDeletes, Overtakes
  <2>2. CASE Tapping
    BY <1>0, <2>2 DEF Tapping, TapCounts, TapCreates, TapLists, TapThrows, TapBroadcasts,
                      Overtakes
  <2>3. CASE UNCHANGED overtaken
    BY <1>0, <2>3
  <2> QED
    BY <2>1, <2>2, <2>3 DEF Next, Handling, Following, vars, Tick, SendMessage,
       InsertSettles, DeleteUpdates, DeleteAnswered, DecorationUpdates, DecorationThrows,
       DecorationDropped, DecorationShown, JoinRoom, ReadRecent, ReadBefore, ReadsPage,
       PageAnswered, LeaveRoom
<1> QED
  BY <1>1, <1>2

LEMMA ShapeStep ==
  ASSUME Shape, [Next]_vars
  PROVE  Shape'
<1>1. ReactionTypes'
  BY ReactionTypesStep DEF Shape
<1>2. TypeOK'
  <2>1. \A m \in Message : Stored(m)' \/ (~rows'[m].deleted /\ rows'[m].decorations = {})
    BY RowsStep
  <2> QED
    BY <1>1, <2>1, SentStep, RowsStep, DecoratingStep, DeletingStep, ClientsStep,
       ToldStep, HistoriesStep DEF TypeOK, ReactionTypes, Stored
<1>3. UnsentIsBlank'
  BY RowsStep, DecoratingStep, DeletingStep, ToldStep, TapsOfSent DEF UnsentIsBlank
<1>4. ASSUME NEW r \in reactions' PROVE Stored(r[1])'
  <2>1. \A m \in Message : Stored(m) => Stored(m)'
    BY RowsStep
  <2>2. \A q \in reactions : Stored(q[1]) /\ q[1] \in Message
    BY DEF Shape, StoredOnly, ReactionTypes
  <2>3. CASE r \in reactions
    BY <2>1, <2>2, <2>3
  <2>4. CASE r \notin reactions
    <3>1. PICK k \in Call : TapCreates(k)
      BY <2>4, OnlyTapsReact DEF Tapping, TapDeletes, TapCounts, TapLists, TapThrows,
                                 TapBroadcasts
    <3> QED
      BY <2>4, <3>1 DEF TapCreates, Stored
  <2> QED
    BY <2>3, <2>4
<1>5. StoredOnly'
  <2>1. \A c \in Client : ~InRoom(c)' => \A m \in Message : told'[c][m] = Untold
    BY ToldStep
  <2> QED
    BY <1>4, <2>1, ClientsStep DEF StoredOnly
<1> QED
  BY <1>1, <1>2, <1>3, <1>5 DEF Shape

\* Every state is well typed, and nothing is known of a message nobody has sent.
THEOREM ShapeHolds == Spec => []Shape
<1>1. Shape /\ [Next]_vars => Shape'
  BY ShapeStep
<1> QED
  BY <1>1, InitShape, PTL DEF Spec

THEOREM TypeCorrect == Spec => []TypeOK
<1>1. Shape => TypeOK
  BY DEF Shape
<1> QED
  BY <1>1, ShapeHolds, PTL

-----------------------------------------------------------------------------
(* Previews and posters *)

\* What has been written stays in the row, and pages say what rows have.
DecorationInv ==
    /\ \A m \in Message, d \in Decoration :
          decorating[m][d] \in {"updated", "shown"} => d \in rows[m].decorations
    /\ \A c \in Client : \A e \in clients[c].page :
          e.decorations \subseteq rows[e.message].decorations
    /\ DecorationLostOnlyIfThrown

\* The writers of decorating, and what they leave in the row.
LEMMA WrittenStep ==
  ASSUME Shape, DecorationInv, [Next]_vars, NEW m \in Message, NEW d \in Decoration
  PROVE  /\ decorating'[m][d] \in {"updated", "shown"} => d \in rows'[m].decorations
         /\ decorating[m][d] = "shown lost" => decorating'[m][d] = "shown lost"
<1> DEFINE Goal == /\ decorating'[m][d] \in {"updated", "shown"} => d \in rows'[m].decorations
                   /\ decorating[m][d] = "shown lost" => decorating'[m][d] = "shown lost"
<1> SUFFICES Goal
  OBVIOUS
<1>0. /\ decorating \in [Message -> [Decoration -> Progress]]
      /\ rows \in [Message -> Row]
      /\ rows[m].decorations \subseteq rows'[m].decorations
      /\ decorating[m][d] \in {"updated", "shown"} => d \in rows[m].decorations
  BY RowsStep DEF Shape, TypeOK, DecorationInv
<1>1. ASSUME NEW n \in Message, NEW u \in User, NEW D \in SUBSET Decoration,
             SendMessage(n, u, D)
      PROVE  Goal
  <2>1. decorating[n][d] = "none"
    BY <1>1 DEF SendMessage, Shape, UnsentIsBlank
  <2> QED
    BY <1>0, <1>1, <2>1 DEF SendMessage
<1>2. ASSUME NEW n \in Message, NEW b \in Decoration, DecorationUpdates(n, b)
      PROVE  Goal
  <2>1. CASE n = m /\ b = d
    <3>1. rows'[m].decorations = rows[m].decorations \union {d}
      BY <1>0, <1>2, <2>1 DEF DecorationUpdates, Row
    <3> QED
      BY <1>0, <1>2, <2>1, <3>1 DEF DecorationUpdates
  <2>2. CASE ~(n = m /\ b = d)
    <3>1. decorating'[m][d] = decorating[m][d]
      BY <1>0, <1>2, <2>2 DEF DecorationUpdates
    <3> QED
      BY <1>0, <3>1
  <2> QED
    BY <2>1, <2>2
<1>3. ASSUME NEW n \in Message, NEW b \in Decoration,
             DecorationThrows(n, b) \/ DecorationDropped(n, b) \/ DecorationShown(n, b)
      PROVE  Goal
  <2>1. CASE n = m /\ b = d
    <3>1. CASE DecorationThrows(n, b)
      BY <1>0, <2>1, <3>1 DEF DecorationThrows
    <3>2. CASE DecorationDropped(n, b)
      BY <1>0, <2>1, <3>2 DEF DecorationDropped
    <3>3. CASE DecorationShown(n, b)
      <4>1. /\ decorating[m][d] \in {"updated", "lost"}
            /\ decorating'[m][d] = IF decorating[m][d] = "updated" THEN "shown" ELSE "shown lost"
        BY <1>0, <2>1, <3>3 DEF DecorationShown
      <4> QED
        BY <1>0, <4>1
    <3> QED
      BY <1>3, <3>1, <3>2, <3>3
  <2>2. CASE ~(n = m /\ b = d)
    <3>1. decorating'[m][d] = decorating[m][d]
      <4>1. \E q : decorating' = [decorating EXCEPT ![n][b] = q]
        BY <1>3 DEF DecorationThrows, DecorationDropped, DecorationShown
      <4> QED
        BY <1>0, <2>2, <4>1
    <3> QED
      BY <1>0, <3>1
  <2> QED
    BY <2>1, <2>2
<1>4. CASE UNCHANGED decorating
  BY <1>0, <1>4
<1>5. \/ \E n \in Message, u \in User, D \in SUBSET Decoration : SendMessage(n, u, D)
      \/ \E n \in Message, b \in Decoration :
            \/ DecorationUpdates(n, b) \/ DecorationThrows(n, b)
            \/ DecorationDropped(n, b) \/ DecorationShown(n, b)
      \/ UNCHANGED decorating
  BY DEF Next, Handling, Tapping, Following, vars, Tick, InsertSettles, DeleteUpdates,
         DeleteAnswered, TapDeletes, TapCounts, TapCreates, TapLists, TapThrows,
         TapBroadcasts, JoinRoom, ReadRecent, ReadBefore, ReadsPage, PageAnswered,
         LeaveRoom
<1> QED
  BY <1>1, <1>2, <1>3, <1>4, <1>5

\* A page holds what it held, or what the tables said when it was read: messages
\* that were visible.
LEMMA PageStep ==
  ASSUME Shape, [Next]_vars, NEW c \in Client
  PROVE  \/ clients'[c].page \subseteq clients[c].page
         \/ /\ clients'[c].page \subseteq {EntryOf(m) : m \in Visible}
            /\ UNCHANGED <<rows, reactions, reacting, decorating, deleting, told, overtaken>>
            /\ InRoom(c)
<1> DEFINE Goal == \/ clients'[c].page \subseteq clients[c].page
                   \/ /\ clients'[c].page \subseteq {EntryOf(m) : m \in Visible}
                      /\ UNCHANGED <<rows, reactions, reacting, decorating, deleting, told,
                                     overtaken>>
                      /\ InRoom(c)
<1> SUFFICES Goal
  OBVIOUS
<1>0. clients \in [Client -> Follower]
  BY DEF Shape, TypeOK
<1>1. ASSUME NEW b \in Client, NEW S \in SUBSET Visible, ReadsPage(b, S), InRoom(b)
      PROVE  Goal
  <2>1. PICK P \in Pages(S) :
            /\ clients' = [clients EXCEPT ![b] =
                   [phase |-> "answering", more |-> Cardinality(P) = PageSize,
                    page |-> {EntryOf(m) : m \in P}]]
            /\ clients'[b].page = {EntryOf(m) : m \in P}
    BY <1>1, PageRead DEF Visible
  <2>2. CASE b = c
    <3>1. P \subseteq Visible
      BY DEF Pages
    <3> QED
      BY <1>1, <2>1, <2>2, <3>1 DEF ReadsPage
  <2>3. CASE b # c
    BY <1>0, <2>1, <2>3
  <2> QED
    BY <2>2, <2>3
<1>2. ASSUME NEW b \in Client, JoinRoom(b) \/ PageAnswered(b) \/ LeaveRoom(b)
      PROVE  Goal
  <2>1. CASE JoinRoom(b)
    BY <1>0, <2>1 DEF JoinRoom, Follower
  <2>2. CASE PageAnswered(b)
    BY <1>0, <2>2 DEF PageAnswered, Follower
  <2>3. CASE LeaveRoom(b)
    BY <1>0, <2>3 DEF LeaveRoom, Away, Follower
  <2> QED
    BY <1>2, <2>1, <2>2, <2>3
<1>3. ASSUME NEW b \in Client, ReadRecent(b)
      PROVE  Goal
  BY <1>1, <1>3 DEF ReadRecent, InRoom
<1>4. ASSUME NEW b \in Client, ReadBefore(b)
      PROVE  Goal
  <2>1. PICK m \in Message : ReadsPage(b, {n \in Visible : sent[n].at < sent[m].at})
    BY <1>4 DEF ReadBefore
  <2> QED
    BY <1>1, <1>4, <2>1 DEF ReadBefore, InRoom
<1>5. UNCHANGED clients \/ Following
  BY DEF Next, Handling, Tapping, vars, Tick, SendMessage, InsertSettles, DeleteUpdates,
         DeleteAnswered, DecorationUpdates, DecorationThrows, DecorationDropped,
         DecorationShown, TapDeletes, TapCounts, TapCreates, TapLists, TapThrows,
         TapBroadcasts
<1> QED
  BY <1>2, <1>3, <1>4, <1>5 DEF Following

\* What a client knows, field by field.
Says(t, known, deleted, decorations, reacts) ==
    /\ t.known = known
    /\ t.deleted = deleted
    /\ t.decorations = decorations
    /\ t.reactions = reacts

\* Field by field, what a broadcast makes of what a client knows.
LEMMA Fields ==
  ASSUME NEW t \in Knowledge
  PROVE  /\ Says([t EXCEPT !.known = TRUE], TRUE, t.deleted, t.decorations, t.reactions)
         /\ Says([t EXCEPT !.deleted = TRUE], t.known, TRUE, t.decorations, t.reactions)
         /\ \A d : Says([t EXCEPT !.decorations = @ \union {d}], t.known, t.deleted,
                        t.decorations \union {d}, t.reactions)
         /\ \A S : Says([t EXCEPT !.reactions = S], t.known, t.deleted, t.decorations,
                        S)
<1>1. Says([t EXCEPT !.known = TRUE], TRUE, t.deleted, t.decorations, t.reactions)
  BY DEF Knowledge, Says
<1>2. Says([t EXCEPT !.deleted = TRUE], t.known, TRUE, t.decorations, t.reactions)
  BY DEF Knowledge, Says
<1>3. ASSUME NEW d
      PROVE  Says([t EXCEPT !.decorations = @ \union {d}], t.known, t.deleted,
                  t.decorations \union {d}, t.reactions)
  BY DEF Knowledge, Says
<1>4. ASSUME NEW S
      PROVE  Says([t EXCEPT !.reactions = S], t.known, t.deleted, t.decorations, S)
  BY DEF Knowledge, Says
<1> QED
  BY <1>1, <1>2, <1>3, <1>4

\* How what a client knows of a message may change in a step.
LEMMA KnowledgeStep ==
  ASSUME Shape, [Next]_vars, NEW c \in Client, NEW m \in Message
  PROVE  \/ told'[c][m] = told[c][m]
         \/ told'[c][m] = Untold /\ ~InRoom(c)'
         \/ /\ Says(told'[c][m], TRUE, told[c][m].deleted, told[c][m].decorations,
                    told[c][m].reactions)
            /\ \E u \in User, D \in SUBSET Decoration : SendMessage(m, u, D)
         \/ \E d \in Decoration :
               /\ Says(told'[c][m], told[c][m].known, told[c][m].deleted,
                       told[c][m].decorations \union {d}, told[c][m].reactions)
               /\ DecorationShown(m, d)
         \/ \E k \in Call :
               /\ Says(told'[c][m], told[c][m].known, told[c][m].deleted,
                       told[c][m].decorations, reacting[k].seen)
               /\ TapBroadcasts(k) /\ reacting[k].message = m
         \/ /\ Says(told'[c][m], told[c][m].known, TRUE, told[c][m].decorations,
                    told[c][m].reactions)
            /\ DeleteAnswered(m)
         \/ \E e \in clients[c].page :
               /\ e.message = m
               /\ Says(told'[c][m], TRUE, told[c][m].deleted,
                       told[c][m].decorations \union e.decorations, e.reactions)
               /\ PageAnswered(c)
<1>0. told[c][m] \in Knowledge
  BY DEF Shape, TypeOK
<1>a. ASSUME NEW n \in Message, NEW news \in [Client -> Knowledge], TellRoom(n, news)
      PROVE  told'[c][m] = told[c][m] \/ (n = m /\ told'[c][m] = news[c])
  BY <1>a, Telling
<1>1. ASSUME NEW n \in Message, NEW u \in User, NEW D \in SUBSET Decoration,
             SendMessage(n, u, D)
      PROVE  \/ told'[c][m] = told[c][m]
             \/ n = m /\ Says(told'[c][m], TRUE, told[c][m].deleted,
                              told[c][m].decorations, told[c][m].reactions)
  <2> DEFINE news == [b \in Client |-> [told[b][n] EXCEPT !.known = TRUE]]
  <2>1. TellRoom(n, news) /\ news \in [Client -> Knowledge]
    BY <1>1, NewsTyped DEF SendMessage
  <2>2. news[c] = [told[c][n] EXCEPT !.known = TRUE]
    OBVIOUS
  <2> HIDE DEF news
  <2> QED
    BY <1>0, <1>a, <2>1, <2>2, Fields
<1>2. ASSUME NEW n \in Message, NEW d \in Decoration, DecorationShown(n, d)
      PROVE  \/ told'[c][m] = told[c][m]
             \/ n = m /\ Says(told'[c][m], told[c][m].known, told[c][m].deleted,
                              told[c][m].decorations \union {d}, told[c][m].reactions)
  <2> DEFINE news == [b \in Client |-> [told[b][n] EXCEPT !.decorations = @ \union {d}]]
  <2>1. TellRoom(n, news) /\ news \in [Client -> Knowledge]
    BY <1>2, NewsTyped DEF DecorationShown
  <2>2. news[c] = [told[c][n] EXCEPT !.decorations = @ \union {d}]
    OBVIOUS
  <2>3. Says([told[c][m] EXCEPT !.decorations = @ \union {d}], told[c][m].known,
             told[c][m].deleted, told[c][m].decorations \union {d},
             told[c][m].reactions)
    BY <1>0, Fields
  <2> HIDE DEF news
  <2> QED
    BY <1>a, <2>1, <2>2, <2>3
<1>3. ASSUME NEW k \in Call, TapBroadcasts(k)
      PROVE  \/ told'[c][m] = told[c][m]
             \/ /\ reacting[k].message = m
                /\ Says(told'[c][m], told[c][m].known, told[c][m].deleted,
                        told[c][m].decorations, reacting[k].seen)
  <2>1. reacting[k].message \in Message /\ reacting[k].seen \in SUBSET (User \X Emoji)
    BY <1>3 DEF TapBroadcasts, Shape, ReactionTypes, TapShape, Tap
  <2>2. PICK n \in Message, S \in SUBSET (User \X Emoji) :
            n = reacting[k].message /\ S = reacting[k].seen
    BY <2>1
  <2> DEFINE news == [b \in Client |-> [told[b][n] EXCEPT !.reactions = S]]
  <2>3. TellRoom(n, news) /\ news \in [Client -> Knowledge]
    BY <1>3, <2>2, NewsTyped DEF TapBroadcasts
  <2>4. news[c] = [told[c][n] EXCEPT !.reactions = S]
    OBVIOUS
  <2>5. Says([told[c][m] EXCEPT !.reactions = S], told[c][m].known, told[c][m].deleted,
             told[c][m].decorations, S)
    BY <1>0, Fields
  <2> HIDE DEF news
  <2> QED
    BY <1>a, <2>2, <2>3, <2>4, <2>5
<1>4. ASSUME NEW n \in Message, DeleteAnswered(n)
      PROVE  \/ told'[c][m] = told[c][m]
             \/ n = m /\ Says(told'[c][m], told[c][m].known, TRUE,
                              told[c][m].decorations, told[c][m].reactions)
  <2> DEFINE news == [b \in Client |-> [told[b][n] EXCEPT !.deleted = TRUE]]
  <2>1. UNCHANGED told \/ TellRoom(n, news)
    BY <1>4 DEF DeleteAnswered
  <2>2. news \in [Client -> Knowledge]
    BY NewsTyped
  <2>3. news[c] = [told[c][n] EXCEPT !.deleted = TRUE]
    OBVIOUS
  <2> HIDE DEF news
  <2> QED
    BY <1>0, <1>a, <2>1, <2>2, <2>3, Fields
<1>5. ASSUME NEW b \in Client, PageAnswered(b)
      PROVE  \/ told'[c][m] = told[c][m]
             \/ b = c /\ \E e \in clients[c].page :
                  /\ e.message = m
                  /\ Says(told'[c][m], TRUE, told[c][m].deleted,
                          told[c][m].decorations \union e.decorations, e.reactions)
  <2>1. CASE b = c
    <3>1. CASE \E e \in clients[c].page : e.message = m
      <4>1. PICK e \in clients[c].page :
                /\ e.message = m
                /\ told'[c][m] = [known |-> TRUE, deleted |-> told[c][m].deleted,
                       decorations |-> told[c][m].decorations \union e.decorations,
                       reactions |-> e.reactions]
        BY <1>5, <2>1, <3>1, PageTells
      <4>2. Says(told'[c][m], TRUE, told[c][m].deleted,
                 told[c][m].decorations \union e.decorations, e.reactions)
        BY <4>1 DEF Says
      <4> QED
        BY <2>1, <4>1, <4>2
    <3>2. CASE ~\E e \in clients[c].page : e.message = m
      BY <1>5, <2>1, <3>2, PageTells
    <3> QED
      BY <3>1, <3>2
  <2>2. CASE b # c
    BY <1>5, <2>2, PageTells
  <2> QED
    BY <2>1, <2>2
<1>6. ASSUME NEW b \in Client, LeaveRoom(b)
      PROVE  \/ told'[c][m] = told[c][m]
             \/ told'[c][m] = Untold /\ ~InRoom(c)'
  BY <1>6 DEF LeaveRoom, Shape, TypeOK, InRoom, Away
<1>7. CASE \E n \in Message, u \in User, D \in SUBSET Decoration : SendMessage(n, u, D)
  BY <1>1, <1>7
<1>8. CASE \E n \in Message, d \in Decoration : DecorationShown(n, d)
  BY <1>2, <1>8
<1>9. CASE \E k \in Call : TapBroadcasts(k)
  BY <1>3, <1>9
<1>10. CASE \E n \in Message : DeleteAnswered(n)
  BY <1>4, <1>10
<1>11. CASE \E b \in Client : PageAnswered(b)
  BY <1>5, <1>11
<1>12. CASE \E b \in Client : LeaveRoom(b)
  BY <1>6, <1>12
<1> QED
  BY <1>7, <1>8, <1>9, <1>10, <1>11, <1>12, ToldWriters

LEMMA DecorationStep ==
  ASSUME Shape, DecorationInv, [Next]_vars
  PROVE  DecorationInv'
<1>1. ASSUME NEW m \in Message
      PROVE  rows[m].decorations \subseteq rows'[m].decorations
  BY RowsStep
<1>2. ASSUME NEW c \in Client, NEW e \in clients'[c].page
      PROVE  e.decorations \subseteq rows'[e.message].decorations
  <2>1. CASE e \in clients[c].page
    <3>1. e.message \in Message
      BY <2>1 DEF Shape, TypeOK, Follower, Entry
    <3> QED
      BY <1>1, <2>1, <3>1 DEF DecorationInv
  <2>2. CASE e \notin clients[c].page
    <3>1. UNCHANGED rows /\ \E m \in Visible : e = EntryOf(m)
      BY <2>2, PageStep
    <3> QED
      BY <3>1 DEF EntryOf
  <2> QED
    BY <2>1, <2>2
<1>3. ASSUME NEW c \in Client, NEW m \in Message, NEW d \in Decoration,
             d \in told'[c][m].decorations, d \notin rows'[m].decorations
      PROVE  decorating'[m][d] = "shown lost"
  <2>1. d \notin rows[m].decorations
    BY <1>1, <1>3
  <2>2. told[c][m] \in Knowledge
    BY DEF Shape, TypeOK
  <2>3. d \in told[c][m].decorations => decorating'[m][d] = "shown lost"
    BY <2>1, WrittenStep DEF DecorationInv, DecorationLostOnlyIfThrown
  <2>4. CASE \E b \in Decoration :
                /\ DecorationShown(m, b)
                /\ told'[c][m].decorations = told[c][m].decorations \union {b}
    <3>1. PICK b \in Decoration : /\ DecorationShown(m, b)
                                  /\ told'[c][m].decorations = told[c][m].decorations \union {b}
      BY <2>4
    <3>2. CASE b = d
      <4>1. decorating[m][d] # "updated"
        BY <2>1 DEF DecorationInv
      <4> QED
        BY <3>1, <3>2, <4>1 DEF DecorationShown, Shape, TypeOK
    <3>3. CASE b # d
      BY <1>3, <2>3, <3>1, <3>3
    <3> QED
      BY <3>2, <3>3
  <2>5. CASE \E e \in clients[c].page :
                /\ e.message = m
                /\ told'[c][m].decorations = told[c][m].decorations \union e.decorations
    BY <1>3, <2>1, <2>3, <2>5 DEF DecorationInv
  <2>6. CASE told'[c][m].decorations = told[c][m].decorations
    BY <1>3, <2>3, <2>6
  <2>7. told'[c][m] # Untold
    BY <1>3 DEF Untold
  <2>9. CASE \E b \in Decoration :
                /\ Says(told'[c][m], told[c][m].known, told[c][m].deleted,
                        told[c][m].decorations \union {b}, told[c][m].reactions)
                /\ DecorationShown(m, b)
    BY <2>4, <2>9 DEF Says
  <2>10. CASE \E e \in clients[c].page :
                 /\ e.message = m
                 /\ Says(told'[c][m], TRUE, told[c][m].deleted,
                         told[c][m].decorations \union e.decorations, e.reactions)
    BY <2>5, <2>10 DEF Says
  <2>11. CASE told'[c][m].decorations = told[c][m].decorations
    BY <2>6, <2>11
  <2>12. CASE \E k \in Call :
                 Says(told'[c][m], told[c][m].known, told[c][m].deleted,
                      told[c][m].decorations, reacting[k].seen)
    BY <2>11, <2>12 DEF Says
  <2>13. CASE \/ told'[c][m] = told[c][m]
              \/ Says(told'[c][m], TRUE, told[c][m].deleted, told[c][m].decorations,
                      told[c][m].reactions)
              \/ Says(told'[c][m], told[c][m].known, TRUE, told[c][m].decorations,
                      told[c][m].reactions)
    BY <2>11, <2>13 DEF Says
  <2> QED
    BY <2>7, <2>9, <2>10, <2>12, <2>13, KnowledgeStep
<1>4. ASSUME NEW m \in Message, NEW d \in Decoration
      PROVE  decorating'[m][d] \in {"updated", "shown"} => d \in rows'[m].decorations
  BY WrittenStep
<1>5. DecorationLostOnlyIfThrown'
  BY <1>3 DEF DecorationLostOnlyIfThrown
<1> QED
  BY <1>2, <1>4, <1>5 DEF DecorationInv

\* A preview or poster the room was shown is in the row, unless its own update threw.
THEOREM DecorationsKept == Spec => []DecorationLostOnlyIfThrown
<1>1. Init => DecorationInv
  BY DEF Init, DecorationInv, DecorationLostOnlyIfThrown, Away, Untold
<1>2. Shape /\ DecorationInv /\ [Next]_vars => DecorationInv'
  BY DecorationStep
<1>3. DecorationInv => DecorationLostOnlyIfThrown
  BY DEF DecorationInv
<1> QED
  BY <1>1, <1>2, <1>3, ShapeHolds, PTL DEF Spec

-----------------------------------------------------------------------------
(* What a client is left with, whatever the order in which queries run,     *)
(* answers arrive and broadcasts go out: deletions, reactions and pages of  *)
(* history.                                                                 *)

Paged(c, m) == \E e \in clients[c].page : e.message = m

\* The client knows the message, or a page with it is on its way.
Reached(c, m) == told[c][m].known \/ Paged(c, m)

\* What a client has reached was sent, and only while it is in the room.
LEMMA ReachedSent ==
  ASSUME Shape, NEW c \in Client, NEW m \in Message, Reached(c, m)
  PROVE  IsSent(m) /\ InRoom(c)
<1>1. CASE told[c][m].known
  <2>1. told[c][m] # Untold
    BY <1>1 DEF Untold
  <2> QED
    BY <2>1 DEF Shape, UnsentIsBlank, StoredOnly
<1>2. CASE Paged(c, m)
  BY <1>2 DEF Paged, InRoom, Shape, UnsentIsBlank, StoredOnly, Stored
<1> QED
  BY <1>1, <1>2 DEF Reached

\* While it is in the room a client forgets nothing, and it gets to know messages
\* when they are sent and by pages.
LEMMA KnowledgeGrows ==
  ASSUME Shape, [Next]_vars, NEW c \in Client, NEW m \in Message
  PROVE  /\ told'[c][m].known => \/ told[c][m].known
                                 \/ \E u \in User, D \in SUBSET Decoration : SendMessage(m, u, D)
                                 \/ Paged(c, m) /\ PageAnswered(c)
         /\ InRoom(c)' /\ told[c][m].known => told'[c][m].known
         /\ InRoom(c)' /\ told[c][m].deleted => told'[c][m].deleted
<1> DEFINE Goal ==
        /\ told'[c][m].known => \/ told[c][m].known
                                \/ \E u \in User, D \in SUBSET Decoration : SendMessage(m, u, D)
                                \/ Paged(c, m) /\ PageAnswered(c)
        /\ InRoom(c)' /\ told[c][m].known => told'[c][m].known
        /\ InRoom(c)' /\ told[c][m].deleted => told'[c][m].deleted
<1> SUFFICES Goal
  OBVIOUS
<1>2. CASE told'[c][m] = told[c][m]
  BY <1>2
<1>3. CASE told'[c][m] = Untold /\ ~InRoom(c)'
  BY <1>3 DEF Untold
<1>4. CASE /\ Says(told'[c][m], TRUE, told[c][m].deleted, told[c][m].decorations,
                   told[c][m].reactions)
           /\ \E u \in User, D \in SUBSET Decoration : SendMessage(m, u, D)
  BY <1>4 DEF Says
<1>5. ASSUME NEW D, NEW S, Says(told'[c][m], told[c][m].known, told[c][m].deleted, D, S)
      PROVE  Goal
  BY <1>5 DEF Says
<1>6. CASE /\ Says(told'[c][m], told[c][m].known, TRUE, told[c][m].decorations,
                   told[c][m].reactions)
           /\ DeleteAnswered(m)
  BY <1>6 DEF Says
<1>7. ASSUME NEW e \in clients[c].page, e.message = m, PageAnswered(c),
             Says(told'[c][m], TRUE, told[c][m].deleted,
                  told[c][m].decorations \union e.decorations, e.reactions)
      PROVE  Goal
  BY <1>7 DEF Says, Paged
<1> HIDE DEF Goal
<1>8. CASE \E d \in Decoration :
           /\ Says(told'[c][m], told[c][m].known, told[c][m].deleted,
                   told[c][m].decorations \union {d}, told[c][m].reactions)
           /\ DecorationShown(m, d)
  BY <1>5, <1>8
<1>9. CASE \E k \in Call :
           /\ Says(told'[c][m], told[c][m].known, told[c][m].deleted,
                   told[c][m].decorations, reacting[k].seen)
           /\ TapBroadcasts(k) /\ reacting[k].message = m
  BY <1>5, <1>9
<1>10. CASE \E e \in clients[c].page :
              /\ e.message = m
              /\ Says(told'[c][m], TRUE, told[c][m].deleted,
                      told[c][m].decorations \union e.decorations, e.reactions)
              /\ PageAnswered(c)
  BY <1>7, <1>10
<1>11. \/ told'[c][m] = told[c][m]
       \/ told'[c][m] = Untold /\ ~InRoom(c)'
       \/ /\ Says(told'[c][m], TRUE, told[c][m].deleted, told[c][m].decorations,
                  told[c][m].reactions)
          /\ \E u \in User, D \in SUBSET Decoration : SendMessage(m, u, D)
       \/ \E d \in Decoration :
            /\ Says(told'[c][m], told[c][m].known, told[c][m].deleted,
                    told[c][m].decorations \union {d}, told[c][m].reactions)
            /\ DecorationShown(m, d)
       \/ \E k \in Call :
            /\ Says(told'[c][m], told[c][m].known, told[c][m].deleted,
                    told[c][m].decorations, reacting[k].seen)
            /\ TapBroadcasts(k) /\ reacting[k].message = m
       \/ /\ Says(told'[c][m], told[c][m].known, TRUE, told[c][m].decorations,
                  told[c][m].reactions)
          /\ DeleteAnswered(m)
       \/ \E e \in clients[c].page :
             /\ e.message = m
             /\ Says(told'[c][m], TRUE, told[c][m].deleted,
                     told[c][m].decorations \union e.decorations, e.reactions)
             /\ PageAnswered(c)
  BY KnowledgeStep
<1> QED
  BY <1>2, <1>3, <1>4, <1>6, <1>8, <1>9, <1>10, <1>11

-----------------------------------------------------------------------------
(* Deletions *)

\* A client that has been told of a deleted message, or is about to be, has been
\* told of the deletion, once that is announced.
DeletionInv ==
    \A c \in Client, m \in Message :
        (Reached(c, m) /\ rows[m].deleted /\ deleting[m] # "deleted")
            => told[c][m].deleted

\* A row is deleted by an update whose count is still to arrive.
LEMMA DeletedStep ==
  ASSUME Shape, [Next]_vars, NEW m \in Message, rows'[m].deleted
  PROVE  rows[m].deleted \/ deleting'[m] = "deleted"
<1>0. rows \in [Message -> Row] /\ deleting \in [Message -> {"idle", "deleted", "refused"}]
  BY DEF Shape, TypeOK
<1>1. ASSUME NEW n \in Message, NEW u \in User, DeleteUpdates(n, u)
      PROVE  rows[m].deleted \/ deleting'[m] = "deleted"
  BY <1>0, <1>1 DEF DeleteUpdates
<1>2. ASSUME NEW n \in Message, NEW u \in User, NEW D \in SUBSET Decoration,
             SendMessage(n, u, D)
      PROVE  rows[m].deleted
  BY <1>0, <1>2 DEF SendMessage, Row
<1>3. ASSUME NEW n \in Message, InsertSettles(n)
      PROVE  rows[m].deleted
  BY <1>0, <1>3 DEF InsertSettles, Row
<1>4. ASSUME NEW n \in Message, NEW d \in Decoration, DecorationUpdates(n, d)
      PROVE  rows[m].deleted
  BY <1>0, <1>4 DEF DecorationUpdates, Row
<1>5. CASE UNCHANGED rows
  BY <1>5
<1>6. \/ \E n \in Message, u \in User, D \in SUBSET Decoration : SendMessage(n, u, D)
      \/ \E n \in Message : InsertSettles(n)
      \/ \E n \in Message, d \in Decoration : DecorationUpdates(n, d)
      \/ \E n \in Message, u \in User : DeleteUpdates(n, u)
      \/ UNCHANGED rows
  BY DEF Next, Handling, Tapping, Following, vars, Tick,
         DeleteAnswered, DecorationThrows, DecorationDropped,
         DecorationShown, TapDeletes, TapCounts, TapCreates, TapLists, TapThrows,
         TapBroadcasts, JoinRoom, ReadRecent, ReadBefore, ReadsPage, PageAnswered,
         LeaveRoom
<1> QED
  BY <1>1, <1>2, <1>3, <1>4, <1>5, <1>6

\* A deletion that is no longer to be announced has been, to everyone in the room.
LEMMA AnnouncedStep ==
  ASSUME Shape, [Next]_vars, NEW m \in Message,
         deleting[m] = "deleted", deleting'[m] # "deleted"
  PROVE  /\ UNCHANGED clients
         /\ \A c \in Client : IF InRoom(c) THEN told'[c][m].deleted
                                           ELSE told'[c][m] = told[c][m]
<1>0. deleting \in [Message -> {"idle", "deleted", "refused"}]
  BY DEF Shape, TypeOK
<1>1. DeleteAnswered(m)
  BY <1>0 DEF Next, Handling, Tapping, Following, vars, Tick, SendMessage, InsertSettles,
         DeleteUpdates, DeleteAnswered, DecorationUpdates, DecorationThrows,
         DecorationDropped, DecorationShown, TapDeletes, TapCounts, TapCreates, TapLists,
         TapThrows, TapBroadcasts, JoinRoom, ReadRecent, ReadBefore, ReadsPage,
         PageAnswered, LeaveRoom
<1> DEFINE news == [c \in Client |-> [told[c][m] EXCEPT !.deleted = TRUE]]
<1>2. UNCHANGED clients /\ TellRoom(m, news) /\ news \in [Client -> Knowledge]
  BY <1>1, NewsTyped DEF DeleteAnswered
<1>3. \A c \in Client : news[c].deleted
  <2>1. ASSUME NEW c \in Client PROVE [told[c][m] EXCEPT !.deleted = TRUE].deleted
    BY DEF Shape, TypeOK, Knowledge
  <2> QED
    BY <2>1
<1> HIDE DEF news
<1> QED
  BY <1>2, <1>3, Telling

LEMMA DeletionStep ==
  ASSUME Shape, DeletionInv, [Next]_vars
  PROVE  DeletionInv'
<1> SUFFICES ASSUME NEW c \in Client, NEW m \in Message,
                    Reached(c, m)', rows'[m].deleted, deleting'[m] # "deleted"
             PROVE  told'[c][m].deleted
  BY DEF DeletionInv
<1>0. InRoom(c)'
  <2>1. Shape'
    BY ShapeStep
  <2>2. CASE told'[c][m].known
    <3>1. told'[c][m] # Untold
      BY <2>2 DEF Untold
    <3> QED
      BY <2>1, <3>1 DEF Shape, StoredOnly
  <2>3. CASE Paged(c, m)'
    BY <2>1, <2>3 DEF Paged, InRoom, Shape, StoredOnly
  <2> QED
    BY <2>2, <2>3 DEF Reached
<1>1. rows[m].deleted
  BY DeletedStep
<1>2. IsSent(m)
  BY <1>1 DEF Shape, TypeOK, UnsentIsBlank
<1>3. CASE deleting[m] = "deleted"
  BY <1>0, <1>3, AnnouncedStep DEF InRoom
<1>4. CASE deleting[m] # "deleted" /\ Reached(c, m)
  <2>1. told[c][m].deleted
    BY <1>1, <1>4 DEF DeletionInv
  <2> QED
    BY <1>0, <2>1, KnowledgeGrows
<1>5. CASE deleting[m] # "deleted" /\ ~Reached(c, m)
  <2>1. ~told'[c][m].known
    BY <1>2, <1>5, KnowledgeGrows DEF Reached, SendMessage
  <2>2. ~Paged(c, m)'
    <3>1. \A n \in Visible : EntryOf(n).message = n /\ ~rows[n].deleted
      BY DEF EntryOf, Visible
    <3> QED
      BY <1>1, <1>5, <3>1, PageStep DEF Reached, Paged
  <2> QED
    BY <2>1, <2>2 DEF Reached
<1> QED
  BY <1>3, <1>4, <1>5

\* Whoever was told of a message is told of its deletion.
THEOREM DeletionsReach == Spec => []DeletionReachesEveryone
<1>1. Init => DeletionInv
  BY DEF Init, DeletionInv, NoRow
<1>2. Shape /\ DeletionInv /\ [Next]_vars => DeletionInv'
  BY DeletionStep
<1>3. DeletionInv => DeletionReachesEveryone
  BY DEF DeletionInv, DeletionReachesEveryone, Reached
<1> QED
  BY <1>1, <1>2, <1>3, ShapeHolds, PTL DEF Spec

-----------------------------------------------------------------------------
(* Reactions *)

\* No handler is about to list the reactions of m, or to broadcast them.
Settled(m) ==
    \A k \in Call : reacting[k].message = m => reacting[k].phase \notin {"toggled", "listed"}

\* Unless a read was overtaken, every list that is about to be told is that of the
\* table, and so is what was told last once no handler is about to tell another.
ReactionInv ==
    \A m \in Message \ overtaken :
        /\ \A k \in Call : (reacting[k].phase = "listed" /\ reacting[k].message = m)
                               => reacting[k].seen = ReactionsOn(m)
        /\ \A c \in Client : \A e \in clients[c].page :
              e.message = m => e.reactions = ReactionsOn(m)
        /\ Settled(m) => \A c \in Client :
              told[c][m].known => told[c][m].reactions = ReactionsOn(m)

\* A write to the reactions of m is overtaking, or is made while nobody has read
\* them, and is to be told.
LEMMA WriteStep ==
  ASSUME Shape, [Next]_vars, NEW m \in Message, m \notin overtaken'
  PROVE  /\ m \notin overtaken
         /\ \/ ReactionsOn(m)' = ReactionsOn(m)
            \/ ~ReadPending(m) /\ ~Settled(m)' /\ UNCHANGED <<clients, told>>
<1> DEFINE Goal == /\ m \notin overtaken
                   /\ \/ ReactionsOn(m)' = ReactionsOn(m)
                      \/ ~ReadPending(m) /\ ~Settled(m)' /\ UNCHANGED <<clients, told>>
<1> SUFFICES Goal
  OBVIOUS
<1>0. reacting \in [Call -> Tap]
  BY DEF Shape, TypeOK
<1>1. ASSUME NEW k \in Call, NEW u \in User, NEW n \in Liked, NEW e \in Emoji,
             TapDeletes(k, u, n, e)
      PROVE  Goal
  <2>1. m \notin overtaken
    BY <1>1 DEF TapDeletes, Overtakes
  <2>2. CASE <<n, u, e>> \in reactions /\ n = m
    <3>1. ~ReadPending(m) /\ UNCHANGED <<clients, told>>
      BY <1>1, <2>2 DEF TapDeletes, Overtakes
    <3>2. reacting'[k] = Toggled(m)
      BY <1>0, <1>1, <2>2 DEF TapDeletes
    <3>3. ~Settled(m)'
      BY <3>2 DEF Settled, Toggled, NoTap
    <3> QED
      BY <2>1, <3>1, <3>3
  <2>3. CASE ~(<<n, u, e>> \in reactions /\ n = m)
    <3>1. {q \in reactions' : q[1] = m} = {q \in reactions : q[1] = m}
      BY <1>1, <2>3 DEF TapDeletes
    <3> QED
      BY <2>1, <3>1 DEF ReactionsOn
  <2> QED
    BY <2>2, <2>3
<1>2. ASSUME NEW k \in Call, TapCreates(k)
      PROVE  Goal
  <2>1. m \notin overtaken
    BY <1>2 DEF TapCreates, Overtakes
  <2>2. CASE reacting[k].message = m
    <3>1. ~ReadPending(m) /\ UNCHANGED <<clients, told>>
      BY <1>2, <2>2 DEF TapCreates, Overtakes
    <3>2. reacting'[k] = Toggled(m)
      BY <1>0, <1>2, <2>2 DEF TapCreates
    <3>3. ~Settled(m)'
      BY <3>2 DEF Settled, Toggled, NoTap
    <3> QED
      BY <2>1, <3>1, <3>3
  <2>3. CASE reacting[k].message # m
    <3>1. {q \in reactions' : q[1] = m} = {q \in reactions : q[1] = m}
      BY <1>2, <2>3 DEF TapCreates
    <3> QED
      BY <2>1, <3>1 DEF ReactionsOn
  <2> QED
    BY <2>2, <2>3
<1>3. ASSUME NEW k \in Call,
             TapCounts(k) \/ TapLists(k) \/ TapThrows(k) \/ TapBroadcasts(k)
      PROVE  Goal
  BY <1>3 DEF TapCounts, TapLists, TapThrows, TapBroadcasts, ReactionsOn
<1>4. CASE UNCHANGED <<reactions, overtaken>>
  BY <1>4 DEF ReactionsOn
<1>5. \/ \E k \in Call, u \in User, n \in Liked, e \in Emoji : TapDeletes(k, u, n, e)
      \/ Tapping
      \/ UNCHANGED <<reactions, overtaken>>
  BY DEF Next, Handling, Following, vars, Tick, SendMessage, InsertSettles, DeleteUpdates,
         DeleteAnswered, DecorationUpdates, DecorationThrows, DecorationDropped,
         DecorationShown, JoinRoom, ReadRecent, ReadBefore, ReadsPage, PageAnswered,
         LeaveRoom
<1> QED
  BY <1>1, <1>2, <1>3, <1>4, <1>5 DEF Tapping

\* A handler that has listed was there already, or lists now.
LEMMA ListedStep ==
  ASSUME Shape, [Next]_vars, NEW k \in Call, reacting'[k].phase = "listed"
  PROVE  reacting'[k] = reacting[k] \/ TapLists(k)
<1>0. reacting \in [Call -> Tap]
  BY DEF Shape, TypeOK
<1>1. ASSUME NEW j \in Call, NEW u \in User, NEW n \in Liked, NEW e \in Emoji,
             TapDeletes(j, u, n, e)
      PROVE  reacting'[k] = reacting[k]
  BY <1>0, <1>1 DEF TapDeletes, Toggled, NoTap
<1>2. ASSUME NEW j \in Call, TapCounts(j)
      PROVE  reacting'[k] = reacting[k]
  <2>1. \/ reacting' = [reacting EXCEPT ![j] = Toggled(reacting[j].message)]
        \/ reacting' = [reacting EXCEPT ![j] = [reacting[j] EXCEPT !.phase = "counted"]]
    BY <1>0, <1>2 DEF TapCounts
  <2> QED
    BY <1>0, <2>1 DEF Toggled, NoTap, Tap
<1>3. ASSUME NEW j \in Call, TapCreates(j) \/ TapThrows(j) \/ TapBroadcasts(j)
      PROVE  reacting'[k] = reacting[k]
  <2>1. CASE TapCreates(j)
    BY <1>0, <2>1 DEF TapCreates, Toggled, NoTap
  <2>2. CASE TapThrows(j)
    BY <1>0, <2>2 DEF TapThrows, NoTap
  <2>3. CASE TapBroadcasts(j)
    BY <1>0, <2>3 DEF TapBroadcasts, NoTap
  <2> QED
    BY <1>3, <2>1, <2>2, <2>3
<1>4. ASSUME NEW j \in Call, TapLists(j)
      PROVE  reacting'[k] = reacting[k] \/ j = k
  BY <1>0, <1>4 DEF TapLists
<1>5. CASE UNCHANGED <<reactions, reacting>>
  BY <1>5
<1> QED
  BY <1>1, <1>2, <1>3, <1>4, <1>5, OnlyTapsReact DEF Tapping

\* The last handler about m that settles broadcasts what it has listed.
LEMMA SettleStep ==
  ASSUME Shape, [Next]_vars, NEW m \in Message, m \notin overtaken', ~Settled(m), Settled(m)'
  PROVE  \E k \in Call : TapBroadcasts(k) /\ reacting[k].message = m
<1>0. reacting \in [Call -> Tap]
  BY DEF Shape, TypeOK
<1>1. PICK k \in Call : /\ reacting[k].message = m
                        /\ reacting[k].phase \in {"toggled", "listed"}
  BY DEF Settled
<1>2. ~(reacting'[k].message = m /\ reacting'[k].phase \in {"toggled", "listed"})
  BY DEF Settled
<1>3. ASSUME NEW j \in Call, NEW u \in User, NEW n \in Liked, NEW e \in Emoji,
             TapDeletes(j, u, n, e)
      PROVE  FALSE
  BY <1>0, <1>1, <1>2, <1>3 DEF TapDeletes
<1>4. ASSUME NEW j \in Call, TapCounts(j) \/ TapCreates(j)
      PROVE  FALSE
  BY <1>0, <1>1, <1>2, <1>4 DEF TapCounts, TapCreates
<1>5. ASSUME NEW j \in Call, TapLists(j)
      PROVE  FALSE
  BY <1>0, <1>1, <1>2, <1>5 DEF TapLists, Tap
<1>6. ASSUME NEW j \in Call, TapThrows(j)
      PROVE  FALSE
  BY <1>0, <1>1, <1>2, <1>6 DEF TapThrows
<1>7. ASSUME NEW j \in Call, TapBroadcasts(j)
      PROVE  j = k
  BY <1>0, <1>1, <1>2, <1>7 DEF TapBroadcasts
<1>8. CASE UNCHANGED <<reactions, reacting>>
  BY <1>1, <1>2, <1>8
<1> QED
  BY <1>1, <1>3, <1>4, <1>5, <1>6, <1>7, <1>8, OnlyTapsReact DEF Tapping

\* A broadcast of reactions reaches whoever is in the room.
LEMMA BroadcastStep ==
  ASSUME Shape, NEW k \in Call, TapBroadcasts(k), NEW m \in Message, reacting[k].message = m,
         NEW c \in Client, told'[c][m].known
  PROVE  told'[c][m].reactions = reacting[k].seen
<1>1. reacting[k].seen \in SUBSET (User \X Emoji)
  BY DEF Shape, TypeOK, Tap
<1>2. PICK S \in SUBSET (User \X Emoji) : S = reacting[k].seen
  BY <1>1
<1> DEFINE news == [b \in Client |-> [told[b][m] EXCEPT !.reactions = S]]
<1>3. TellRoom(m, news) /\ news \in [Client -> Knowledge]
  BY <1>2, NewsTyped DEF TapBroadcasts
<1>4. news[c].reactions = S
  BY DEF Shape, TypeOK, Knowledge
<1>5. ~InRoom(c) => ~told[c][m].known
  BY DEF Shape, StoredOnly, Untold
<1> HIDE DEF news
<1> QED
  BY <1>2, <1>3, <1>4, <1>5, Telling

LEMMA ReactionStep ==
  ASSUME Shape, ReactionInv, [Next]_vars
  PROVE  ReactionInv'
<1> SUFFICES ASSUME NEW m \in Message, m \notin overtaken'
             PROVE  /\ \A k \in Call : (reacting'[k].phase = "listed" /\ reacting'[k].message = m)
                                           => reacting'[k].seen = ReactionsOn(m)'
                    /\ \A c \in Client : \A e \in clients'[c].page :
                          e.message = m => e.reactions = ReactionsOn(m)'
                    /\ Settled(m)' => \A c \in Client :
                          told'[c][m].known => told'[c][m].reactions = ReactionsOn(m)'
  BY DEF ReactionInv
<1>0. /\ m \notin overtaken
      /\ \/ ReactionsOn(m)' = ReactionsOn(m)
         \/ ~ReadPending(m) /\ ~Settled(m)' /\ UNCHANGED <<clients, told>>
  BY WriteStep
<1>1. ASSUME NEW k \in Call, reacting[k].phase = "listed", reacting[k].message = m
      PROVE  reacting[k].seen = ReactionsOn(m) /\ ReactionsOn(m)' = ReactionsOn(m)
  BY <1>0, <1>1 DEF ReactionInv, ReadPending
<1>2. ASSUME NEW c \in Client, NEW e \in clients[c].page, e.message = m
      PROVE  e.reactions = ReactionsOn(m) /\ ReactionsOn(m)' = ReactionsOn(m)
  BY <1>0, <1>2 DEF ReactionInv, ReadPending
<1>3. ASSUME NEW k \in Call, reacting'[k].phase = "listed", reacting'[k].message = m
      PROVE  reacting'[k].seen = ReactionsOn(m)'
  <2>1. CASE reacting'[k] = reacting[k]
    BY <1>1, <1>3, <2>1
  <2>2. CASE TapLists(k)
    <3>1. reacting' = [reacting EXCEPT ![k] = [reacting[k] EXCEPT !.phase = "listed",
                              !.seen = ReactionsOn(reacting[k].message)]]
          /\ UNCHANGED reactions
      BY <2>2 DEF TapLists
    <3>2. reacting'[k].seen = ReactionsOn(m)
      BY <1>3, <3>1 DEF Shape, TypeOK, Tap
    <3>3. ReactionsOn(m)' = ReactionsOn(m)
      BY <3>1 DEF ReactionsOn
    <3> QED
      BY <3>2, <3>3
  <2> QED
    BY <1>3, <2>1, <2>2, ListedStep
<1>4. ASSUME NEW c \in Client, NEW e \in clients'[c].page, e.message = m
      PROVE  e.reactions = ReactionsOn(m)'
  <2>1. CASE e \in clients[c].page
    BY <1>2, <1>4, <2>1
  <2>2. CASE e \notin clients[c].page
    <3>1. UNCHANGED reactions /\ \E n \in Visible : e = EntryOf(n)
      BY <2>2, PageStep
    <3>2. e.reactions = ReactionsOn(m)
      BY <1>4, <3>1 DEF EntryOf
    <3> QED
      BY <3>1, <3>2 DEF ReactionsOn
  <2> QED
    BY <2>1, <2>2
<1>5. ASSUME Settled(m)', NEW c \in Client, told'[c][m].known
      PROVE  told'[c][m].reactions = ReactionsOn(m)'
  <2>1. ReactionsOn(m)' = ReactionsOn(m)
    BY <1>0, <1>5
  <2>2. CASE Settled(m)
    <3>1. told[c][m].known => told[c][m].reactions = ReactionsOn(m)
      BY <1>0, <2>2 DEF ReactionInv
    <3>3. CASE told'[c][m] = told[c][m]
      BY <1>5, <2>1, <3>1, <3>3
    <3>4. CASE told'[c][m] = Untold /\ ~InRoom(c)'
      BY <1>5, <3>4 DEF Untold
    <3>5. CASE /\ Says(told'[c][m], TRUE, told[c][m].deleted, told[c][m].decorations,
                       told[c][m].reactions)
               /\ \E u \in User, D \in SUBSET Decoration : SendMessage(m, u, D)
      <4>1. ~IsSent(m)
        BY <3>5 DEF SendMessage
      <4>2. told[c][m].reactions = {}
        BY <4>1 DEF Shape, UnsentIsBlank, Untold
      <4>3. ReactionsOn(m) = {}
        BY <4>1 DEF ReactionsOn, Shape, UnsentIsBlank, StoredOnly, Stored
      <4> QED
        BY <2>1, <3>5, <4>2, <4>3 DEF Says
    <3>6. CASE \E d \in Decoration :
                  /\ Says(told'[c][m], told[c][m].known, told[c][m].deleted,
                          told[c][m].decorations \union {d}, told[c][m].reactions)
                  /\ DecorationShown(m, d)
      BY <1>5, <2>1, <3>1, <3>6 DEF Says
    <3>7. CASE \E k \in Call :
                  /\ Says(told'[c][m], told[c][m].known, told[c][m].deleted,
                          told[c][m].decorations, reacting[k].seen)
                  /\ TapBroadcasts(k) /\ reacting[k].message = m
      BY <1>1, <2>1, <3>7 DEF Says, TapBroadcasts
    <3>8. CASE /\ Says(told'[c][m], told[c][m].known, TRUE, told[c][m].decorations,
                       told[c][m].reactions)
               /\ DeleteAnswered(m)
      BY <1>5, <2>1, <3>1, <3>8 DEF Says
    <3>9. CASE \E e \in clients[c].page :
                  /\ e.message = m
                  /\ Says(told'[c][m], TRUE, told[c][m].deleted,
                          told[c][m].decorations \union e.decorations, e.reactions)
                  /\ PageAnswered(c)
      BY <1>2, <2>1, <3>9 DEF Says
    <3>10. \/ told'[c][m] = told[c][m]
           \/ told'[c][m] = Untold /\ ~InRoom(c)'
           \/ /\ Says(told'[c][m], TRUE, told[c][m].deleted, told[c][m].decorations,
                      told[c][m].reactions)
              /\ \E u \in User, D \in SUBSET Decoration : SendMessage(m, u, D)
           \/ \E d \in Decoration :
                /\ Says(told'[c][m], told[c][m].known, told[c][m].deleted,
                        told[c][m].decorations \union {d}, told[c][m].reactions)
                /\ DecorationShown(m, d)
           \/ \E k \in Call :
                /\ Says(told'[c][m], told[c][m].known, told[c][m].deleted,
                        told[c][m].decorations, reacting[k].seen)
                /\ TapBroadcasts(k) /\ reacting[k].message = m
           \/ /\ Says(told'[c][m], told[c][m].known, TRUE, told[c][m].decorations,
                      told[c][m].reactions)
              /\ DeleteAnswered(m)
           \/ \E e \in clients[c].page :
                /\ e.message = m
                /\ Says(told'[c][m], TRUE, told[c][m].deleted,
                        told[c][m].decorations \union e.decorations, e.reactions)
                /\ PageAnswered(c)
      BY KnowledgeStep
    <3> QED
      BY <3>3, <3>4, <3>5, <3>6, <3>7, <3>8, <3>9, <3>10
  <2>3. CASE ~Settled(m)
    <3>1. PICK k \in Call : TapBroadcasts(k) /\ reacting[k].message = m
      BY <1>5, <2>3, SettleStep
    <3>2. reacting[k].seen = ReactionsOn(m)
      BY <1>1, <3>1 DEF TapBroadcasts
    <3> QED
      BY <1>5, <2>1, <3>1, <3>2, BroadcastStep
  <2> QED
    BY <2>2, <2>3
<1> QED
  BY <1>3, <1>4, <1>5

\* The reactions a client was last told are those of the table, unless a read was
\* overtaken or a list after a write failed.
THEOREM ReactionsConverge == Spec => []DivergesOnlyIfOvertaken
<1>1. Init => ReactionInv
  BY DEF Init, ReactionInv, NoTap, Away, Untold
<1>2. Shape /\ ReactionInv /\ [Next]_vars => ReactionInv'
  BY ReactionStep
<1>3. ReactionInv => DivergesOnlyIfOvertaken
  BY DEF ReactionInv, DivergesOnlyIfOvertaken, Settled
<1> QED
  BY <1>1, <1>2, <1>3, ShapeHolds, PTL DEF Spec

-----------------------------------------------------------------------------
(* Pages of history *)

Tied(c, m) == \E n \in Message : told[c][n].known /\ sent[n].at = sent[m].at

\* A message that may be in the history and that c has not reached.
Behind(c, m) ==
    /\ IsSent(m)
    /\ ~Reached(c, m)
    /\ m \notin unsaved[c]
    /\ rows[m].state \in {"inserting", "stored"}
    /\ ~rows[m].deleted

HasRead(c) == clients[c].phase \in {"answering", "in"}

\* What a client in the room has not reached is no later than all it has reached, so
\* the next page can bring it, and there is to be one; or it shares its instant with
\* something the client knows.
HistoryInv ==
    /\ \A m \in Message : IsSent(m) => sent[m].at <= now
    /\ \A c \in Client, m \in Message : (InRoom(c) /\ Behind(c, m)) =>
          /\ HasRead(c) => Stored(m)
          /\ \/ Tied(c, m)
             \/ /\ \A n \in Message : Reached(c, n) => sent[m].at <= sent[n].at
                /\ HasRead(c) => clients[c].more

\* A client's own steps, and the others.
LEMMA ClientStep ==
  ASSUME Shape, [Next]_vars, NEW c \in Client
  PROVE  \/ JoinRoom(c) \/ ReadRecent(c) \/ ReadBefore(c) \/ PageAnswered(c)
         \/ LeaveRoom(c)
         \/ clients'[c] = clients[c] /\ unsaved'[c] = unsaved[c]
<1>0. clients \in [Client -> Follower] /\ unsaved \in [Client -> SUBSET Message]
  BY DEF Shape, TypeOK
<1>1. ASSUME NEW b \in Client, NEW S, ReadsPage(b, S), b # c
      PROVE  clients'[c] = clients[c] /\ unsaved'[c] = unsaved[c]
  BY <1>0, <1>1 DEF ReadsPage
<1>2. ASSUME NEW b \in Client, ReadRecent(b) \/ ReadBefore(b), b # c
      PROVE  clients'[c] = clients[c] /\ unsaved'[c] = unsaved[c]
  BY <1>1, <1>2 DEF ReadRecent, ReadBefore
<1>3. ASSUME NEW b \in Client, JoinRoom(b) \/ PageAnswered(b) \/ LeaveRoom(b), b # c
      PROVE  clients'[c] = clients[c] /\ unsaved'[c] = unsaved[c]
  BY <1>0, <1>3 DEF JoinRoom, PageAnswered, LeaveRoom
<1>4. UNCHANGED <<clients, unsaved>> \/ Following
  BY DEF Next, Handling, Tapping, vars, Tick, SendMessage, InsertSettles, DeleteUpdates,
         DeleteAnswered, DecorationUpdates, DecorationThrows, DecorationDropped,
         DecorationShown, TapDeletes, TapCounts, TapCreates, TapLists, TapThrows,
         TapBroadcasts
<1> QED
  BY <1>2, <1>3, <1>4 DEF Following

\* A row that may be in the history was in it, or its message is being sent.
LEMMA RowBefore ==
  ASSUME Shape, [Next]_vars, NEW m \in Message, IsSent(m),
         rows'[m].state \in {"inserting", "stored"}, ~rows'[m].deleted
  PROVE  /\ rows[m].state \in {"inserting", "stored"} /\ ~rows[m].deleted
         /\ Stored(m) => Stored(m)'
<1>0. rows \in [Message -> Row]
  BY DEF Shape, TypeOK
<1>1. ASSUME NEW n \in Message, NEW u \in User, NEW D \in SUBSET Decoration,
             SendMessage(n, u, D)
      PROVE  rows'[m] = rows[m]
  BY <1>0, <1>1 DEF SendMessage
<1>2. ASSUME NEW n \in Message, InsertSettles(n)
      PROVE  rows[m].state \in {"inserting", "stored"} /\ ~rows[m].deleted
  BY <1>0, <1>2 DEF InsertSettles, Row
<1>3. ASSUME NEW n \in Message, NEW d \in Decoration, DecorationUpdates(n, d)
      PROVE  rows[m].state \in {"inserting", "stored"} /\ ~rows[m].deleted
  BY <1>0, <1>3 DEF DecorationUpdates, Row
<1>4. ASSUME NEW n \in Message, NEW u \in User, DeleteUpdates(n, u)
      PROVE  rows[m].state \in {"inserting", "stored"} /\ ~rows[m].deleted
  <2>1. \/ rows' = rows
        \/ rows' = [rows EXCEPT ![n] = [rows[n] EXCEPT !.deleted = TRUE]]
    BY <1>4 DEF DeleteUpdates
  <2> QED
    BY <1>0, <2>1 DEF Row
<1>5. \/ \E n \in Message, u \in User, D \in SUBSET Decoration : SendMessage(n, u, D)
      \/ \E n \in Message : InsertSettles(n)
      \/ \E n \in Message, d \in Decoration : DecorationUpdates(n, d)
      \/ \E n \in Message, u \in User : DeleteUpdates(n, u)
      \/ UNCHANGED rows
  BY DEF Next, Handling, Tapping, Following, vars, Tick,
         DeleteAnswered, DecorationThrows, DecorationDropped,
         DecorationShown, TapDeletes, TapCounts, TapCreates, TapLists, TapThrows,
         TapBroadcasts, JoinRoom, ReadRecent, ReadBefore, ReadsPage, PageAnswered,
         LeaveRoom
<1>6. rows[m].state \in {"inserting", "stored"} /\ ~rows[m].deleted
  BY <1>1, <1>2, <1>3, <1>4, <1>5
<1> QED
  BY <1>6, RowsStep

\* Times: the clock does not go back, and a message keeps its instant; one that is
\* sent now is no earlier than any other.
LEMMA TimeStep ==
  ASSUME Shape, HistoryInv, [Next]_vars
  PROVE  /\ \A m \in Message : IsSent(m)' => sent'[m].at <= now'
         /\ \A m \in Message : IsSent(m) => sent'[m] = sent[m]
         /\ \A m, n \in Message : (IsSent(m) /\ ~IsSent(n) /\ IsSent(n)')
               => sent'[m].at <= sent'[n].at
<1>0. /\ sent \in [Message -> [author: User \union {None}, at: 0..MaxTime]]
      /\ now \in 0..MaxTime /\ MaxTime \in Nat
      /\ \A m \in Message : IsSent(m) => sent[m].at <= now
  BY ChatAssumption DEF Shape, TypeOK, HistoryInv
<1>1. CASE Tick
  <2>1. now' = now + 1 /\ sent' = sent
    BY <1>1 DEF Tick
  <2> QED
    BY <1>0, <2>1 DEF IsSent
<1>2. ASSUME NEW k \in Message, NEW u \in User, NEW D \in SUBSET Decoration,
             SendMessage(k, u, D)
      PROVE  /\ \A m \in Message : IsSent(m)' => sent'[m].at <= now'
             /\ \A m \in Message : IsSent(m) => sent'[m] = sent[m]
             /\ \A m, n \in Message : (IsSent(m) /\ ~IsSent(n) /\ IsSent(n)')
                   => sent'[m].at <= sent'[n].at
  <2>1. /\ ~IsSent(k) /\ now' = now
        /\ sent'[k].at = now
        /\ \A m \in Message \ {k} : sent'[m] = sent[m]
    BY <1>0, <1>2 DEF SendMessage
  <2> QED
    BY <1>0, <2>1 DEF IsSent
<1>3. CASE UNCHANGED <<now, sent>>
  BY <1>0, <1>3 DEF IsSent
<1>4. \/ Tick
      \/ \E m \in Message, u \in User, D \in SUBSET Decoration : SendMessage(m, u, D)
      \/ UNCHANGED <<now, sent>>
  BY DEF Next, Handling, Tapping, Following, vars, InsertSettles, DeleteUpdates,
         DeleteAnswered, DecorationUpdates, DecorationThrows, DecorationDropped,
         DecorationShown, TapDeletes, TapCounts, TapCreates, TapLists, TapThrows,
         TapBroadcasts, JoinRoom, ReadRecent, ReadBefore, ReadsPage, PageAnswered,
         LeaveRoom
<1> QED
  BY <1>1, <1>2, <1>3, <1>4

\* A page that is not full holds everything there was to read; and what it leaves
\* out is no later than what it holds.
LEMMA PageHolds ==
  ASSUME NEW S \in SUBSET Message, NEW P \in Pages(S)
  PROVE  /\ P \subseteq S
         /\ Cardinality(P) # PageSize => P = S
         /\ \A p \in P, q \in S \ P : sent[q].at <= sent[p].at
<1>1. P \in SUBSET S /\ \A p \in P, q \in S \ P : sent[q].at <= sent[p].at
  BY DEF Pages
<1>2. IsFiniteSet(S)
  BY FS_Subset, ChatAssumption
<1>3. Cardinality(P) = IF Cardinality(S) < PageSize THEN Cardinality(S) ELSE PageSize
  BY DEF Pages
<1>4. Cardinality(P) # PageSize => P = S
  BY <1>1, <1>2, <1>3, FS_Subset
<1> QED
  BY <1>1, <1>4

\* A message that is sent is told at once to whoever is in the room.
LEMMA SendTells ==
  ASSUME Shape, [Next]_vars, NEW m \in Message, ~IsSent(m), IsSent(m)',
         NEW c \in Client, InRoom(c)
  PROVE  told'[c][m].known
<1>0. sent \in [Message -> [author: User \union {None}, at: 0..MaxTime]]
  BY DEF Shape, TypeOK
<1>1. PICK n \in Message, u \in User, D \in SUBSET Decoration : SendMessage(n, u, D)
  BY DEF IsSent, Next, Handling, Tapping, Following, vars, Tick, InsertSettles,
         DeleteUpdates, DeleteAnswered, DecorationUpdates, DecorationThrows,
         DecorationDropped, DecorationShown, TapDeletes, TapCounts, TapCreates, TapLists,
         TapThrows, TapBroadcasts, JoinRoom, ReadRecent, ReadBefore, ReadsPage,
         PageAnswered, LeaveRoom
<1>2. n = m
  BY <1>0, <1>1 DEF SendMessage, IsSent
<1> DEFINE news == [b \in Client |-> [told[b][m] EXCEPT !.known = TRUE]]
<1>3. TellRoom(m, news) /\ news \in [Client -> Knowledge]
  BY <1>1, <1>2, NewsTyped DEF SendMessage
<1>4. news[c].known
  BY DEF Shape, TypeOK, Knowledge
<1> HIDE DEF news
<1> QED
  BY <1>3, <1>4, Telling

\* What a client has reached stays reached while it is in the room.
LEMMA ReachedStays ==
  ASSUME Shape, [Next]_vars, NEW c \in Client, NEW m \in Message,
         Reached(c, m), InRoom(c)'
  PROVE  Reached(c, m)'
<1>1. CASE told[c][m].known
  BY <1>1, KnowledgeGrows DEF Reached
<1>2. CASE Paged(c, m)
  <2>1. clients[c].phase = "answering"
    BY <1>2 DEF Paged, Shape, StoredOnly
  <2>2. CASE clients'[c] = clients[c]
    BY <1>2, <2>2 DEF Reached, Paged
  <2>3. CASE PageAnswered(c)
    <3>1. \E e \in clients[c].page : e.message = m
      BY <1>2 DEF Paged
    <3>2. PICK e \in clients[c].page :
              /\ e.message = m
              /\ told'[c][m] = [known |-> TRUE, deleted |-> told[c][m].deleted,
                     decorations |-> told[c][m].decorations \union e.decorations,
                     reactions |-> e.reactions]
      BY <2>3, <3>1, PageTells
    <3>3. told'[c][m].known
      BY <3>2
    <3> QED
      BY <3>3 DEF Reached
  <2>4. ~JoinRoom(c) /\ ~ReadRecent(c) /\ ~ReadBefore(c)
    BY <2>1 DEF JoinRoom, ReadRecent, ReadBefore
  <2>5. ~LeaveRoom(c)
    BY DEF LeaveRoom, InRoom, Away, Shape, TypeOK
  <2> QED
    BY <2>2, <2>3, <2>4, <2>5, ClientStep
<1> QED
  BY <1>1, <1>2 DEF Reached

\* What a client reaches without reading it has reached before, or is sent now.
LEMMA NewlyReached ==
  ASSUME Shape, [Next]_vars, NEW c \in Client, NEW n \in Message, Reached(c, n)',
         clients'[c].page \subseteq clients[c].page
  PROVE  Reached(c, n) \/ (~IsSent(n) /\ IsSent(n)')
<1>1. CASE Paged(c, n)'
  BY <1>1 DEF Paged, Reached
<1>2. CASE told'[c][n].known
  <2>1. ASSUME NEW u \in User, NEW D \in SUBSET Decoration, SendMessage(n, u, D)
        PROVE  ~IsSent(n) /\ IsSent(n)'
    BY <2>1, ChatAssumption DEF SendMessage, IsSent, Shape, TypeOK
  <2> QED
    BY <1>2, <2>1, KnowledgeGrows DEF Reached
<1> QED
  BY <1>1, <1>2 DEF Reached

\* A message that is behind for a client in the room was so, unless the client comes in.
LEMMA BehindBefore ==
  ASSUME Shape, HistoryInv, [Next]_vars, NEW c \in Client, NEW m \in Message,
         InRoom(c), InRoom(c)', Behind(c, m)'
  PROVE  /\ Behind(c, m)
         /\ Tied(c, m) => Tied(c, m)'
         /\ Stored(m) => Stored(m)'
<1>1. IsSent(m)
  BY SendTells DEF Behind, Reached
<1>2. ~Reached(c, m)
  BY ReachedStays DEF Behind
<1>3. m \notin unsaved[c]
  <2>1. unsaved[c] \subseteq unsaved'[c]
    <3>1. unsaved \in [Client -> SUBSET Message]
      BY DEF Shape, TypeOK
    <3>2. ASSUME NEW S, ReadsPage(c, S)
          PROVE  unsaved[c] \subseteq unsaved'[c]
      BY <3>1, <3>2 DEF ReadsPage
    <3>3. ~LeaveRoom(c)
      BY DEF LeaveRoom, InRoom, Away, Shape, TypeOK
    <3> QED
      BY <3>2, <3>3, ClientStep DEF JoinRoom, ReadRecent, ReadBefore, PageAnswered
  <2> QED
    BY <2>1 DEF Behind
<1>4. /\ rows[m].state \in {"inserting", "stored"} /\ ~rows[m].deleted
      /\ Stored(m) => Stored(m)'
  BY <1>1, RowBefore DEF Behind
<1>5. ASSUME NEW n \in Message, told[c][n].known, sent[n].at = sent[m].at
      PROVE  Tied(c, m)'
  <2>1. IsSent(n)
    BY <1>5, ReachedSent DEF Reached
  <2>2. sent'[n] = sent[n] /\ sent'[m] = sent[m]
    BY <1>1, <2>1, TimeStep
  <2>3. told'[c][n].known
    BY <1>5, KnowledgeGrows
  <2> QED
    BY <1>5, <2>2, <2>3 DEF Tied
<1> QED
  BY <1>1, <1>2, <1>3, <1>4, <1>5 DEF Behind, Tied

\* Reading a page keeps the order: what stays behind is no later than what is reached.
LEMMA ReadStep ==
  ASSUME Shape, HistoryInv, NEW c \in Client, NEW S \in SUBSET Visible, ReadsPage(c, S),
         NEW m \in S, Behind(c, m)',
         \A n \in Message : told[c][n].known => sent[m].at <= sent[n].at,
         clients[c].page = {}
  PROVE  /\ \A n \in Message : Reached(c, n)' => sent'[m].at <= sent'[n].at
         /\ clients'[c].more
<1>1. PICK P \in Pages(S) :
          /\ clients' = [clients EXCEPT ![c] =
                 [phase |-> "answering", more |-> Cardinality(P) = PageSize,
                  page |-> {EntryOf(n) : n \in P}]]
          /\ clients'[c].page = {EntryOf(n) : n \in P}
  BY PageRead DEF Visible
<1>2. m \notin P
  <2>1. ASSUME m \in P PROVE FALSE
    <3>1. EntryOf(m) \in clients'[c].page
      BY <1>1, <2>1
    <3>2. EntryOf(m).message = m
      BY DEF EntryOf
    <3>3. ~\E e \in clients'[c].page : e.message = m
      BY DEF Behind, Reached, Paged
    <3> QED
      BY <3>1, <3>2, <3>3
  <2> QED
    BY <2>1
<1>3. /\ P \subseteq S
      /\ Cardinality(P) # PageSize => P = S
      /\ \A p \in P, q \in S \ P : sent[q].at <= sent[p].at
  BY PageHolds DEF Visible
<1>4. clients'[c].more = (Cardinality(P) = PageSize)
  BY <1>1 DEF Shape, TypeOK
<1>5. ASSUME NEW n \in Message, Reached(c, n)'
      PROVE  sent'[m].at <= sent'[n].at
  <2>1. told' = told /\ sent' = sent
    BY DEF ReadsPage
  <2>2. told[c][n].known \/ n \in P
    BY <1>1, <1>5, <2>1 DEF Reached, Paged, EntryOf
  <2> QED
    BY <1>2, <1>3, <2>1, <2>2
<1> QED
  BY <1>2, <1>3, <1>4, <1>5

LEMMA HistoryStep ==
  ASSUME Shape, HistoryInv, [Next]_vars
  PROVE  HistoryInv'
<1>1. \A m \in Message : IsSent(m)' => sent'[m].at <= now'
  BY TimeStep
<1>2. ASSUME NEW c \in Client, NEW m \in Message, InRoom(c)', Behind(c, m)'
      PROVE  /\ HasRead(c)' => Stored(m)'
             /\ \/ Tied(c, m)'
                \/ /\ \A n \in Message : Reached(c, n)' => sent'[m].at <= sent'[n].at
                   /\ HasRead(c)' => clients'[c].more
  <2> DEFINE Goal == /\ HasRead(c)' => Stored(m)'
                     /\ \/ Tied(c, m)'
                        \/ /\ \A n \in Message : Reached(c, n)' => sent'[m].at <= sent'[n].at
                           /\ HasRead(c)' => clients'[c].more
  <2> SUFFICES Goal
    OBVIOUS
  <2>0. /\ clients \in [Client -> Follower]
        /\ sent \in [Message -> [author: User \union {None}, at: 0..MaxTime]]
        /\ MaxTime \in Nat
    BY ChatAssumption DEF Shape, TypeOK
  <2>1. CASE ~InRoom(c)
    <3>1. JoinRoom(c)
      <4>1. clients'[c] # clients[c]
        BY <1>2, <2>1 DEF InRoom
      <4>2. ~ReadRecent(c) /\ ~ReadBefore(c) /\ ~PageAnswered(c) /\ ~LeaveRoom(c)
        BY <2>1 DEF InRoom, ReadRecent, ReadBefore, PageAnswered, LeaveRoom
      <4> QED
        BY <4>1, <4>2, ClientStep
    <3>2. clients'[c].phase = "joined" /\ clients'[c].page = clients[c].page /\ told' = told
      BY <2>0, <3>1 DEF JoinRoom, Follower
    <3>3. clients[c].page = {} /\ \A n \in Message : ~told[c][n].known
      BY <2>1 DEF Shape, StoredOnly, InRoom, Untold
    <3>4. \A n \in Message : ~Reached(c, n)'
      BY <3>2, <3>3 DEF Reached, Paged
    <3>5. ~HasRead(c)'
      BY <3>2 DEF HasRead
    <3> QED
      BY <3>4, <3>5
  <2>2. CASE InRoom(c)
    <3>1. /\ Behind(c, m)
          /\ Tied(c, m) => Tied(c, m)'
          /\ Stored(m) => Stored(m)'
      BY <1>2, <2>2, BehindBefore
    <3>2. /\ HasRead(c) => Stored(m)
          /\ \/ Tied(c, m)
             \/ /\ \A n \in Message : Reached(c, n) => sent[m].at <= sent[n].at
                /\ HasRead(c) => clients[c].more
      BY <2>2, <3>1 DEF HistoryInv
    <3>3. ASSUME clients'[c].page \subseteq clients[c].page
          PROVE  (\A n \in Message : Reached(c, n) => sent[m].at <= sent[n].at)
                    => \A n \in Message : Reached(c, n)' => sent'[m].at <= sent'[n].at
      <4> SUFFICES ASSUME \A n \in Message : Reached(c, n) => sent[m].at <= sent[n].at,
                          NEW n \in Message, Reached(c, n)'
                   PROVE  sent'[m].at <= sent'[n].at
        OBVIOUS
      <4>1. IsSent(m)
        BY <3>1 DEF Behind
      <4>2. CASE Reached(c, n)
        BY <4>1, <4>2, ReachedSent, TimeStep
      <4>3. CASE ~IsSent(n) /\ IsSent(n)'
        BY <4>1, <4>3, TimeStep
      <4> QED
        BY <3>3, <4>2, <4>3, NewlyReached
    <3>4. CASE clients'[c] = clients[c]
      <4>1. HasRead(c)' = HasRead(c) /\ clients'[c].more = clients[c].more
        BY <3>4 DEF HasRead
      <4> QED
        BY <3>1, <3>2, <3>3, <3>4, <4>1
    <3>5. CASE PageAnswered(c)
      <4>1. clients'[c].page = {} /\ clients'[c].more = clients[c].more
        BY <2>0, <3>5 DEF PageAnswered, Follower
      <4>2. HasRead(c)
        BY <3>5 DEF PageAnswered, HasRead
      <4> QED
        BY <3>1, <3>2, <3>3, <4>1, <4>2
    <3>6. CASE ReadRecent(c)
      <4>1. ReadsPage(c, Visible) /\ clients[c].page = {}
        BY <3>6 DEF ReadRecent, Shape, StoredOnly
      <4>2. Stored(m) /\ m \in Visible
        <5>1. rows[m].state # "inserting"
          BY <1>2, <4>1 DEF ReadsPage, Behind, Shape, TypeOK
        <5> QED
          BY <3>1, <5>1 DEF Behind, Stored, Visible
      <4>3. CASE \A n \in Message : Reached(c, n) => sent[m].at <= sent[n].at
        BY <1>2, <3>1, <4>1, <4>2, <4>3, ReadStep DEF Reached
      <4> QED
        BY <3>1, <3>2, <4>2, <4>3
    <3>7. CASE ReadBefore(c)
      <4>1. /\ clients[c].phase = "in" /\ clients[c].page = {}
            /\ HasRead(c)
        BY <3>7 DEF ReadBefore, HasRead, Shape, StoredOnly
      <4>2. PICK o \in Message :
                /\ told[c][o].known
                /\ \A n \in Message : told[c][n].known => sent[o].at <= sent[n].at
                /\ ReadsPage(c, {n \in Visible : sent[n].at < sent[o].at})
        BY <3>7 DEF ReadBefore
      <4>3. Stored(m) /\ m \in Visible
        BY <3>1, <3>2, <4>1 DEF Behind, Visible
      <4>4. CASE Tied(c, m)
        BY <3>1, <4>3, <4>4
      <4>5. CASE ~Tied(c, m)
        <5>1. sent[m].at < sent[o].at
          <6>1. sent[m].at <= sent[o].at
            BY <3>2, <4>2, <4>5 DEF Reached
          <6>2. sent[m].at # sent[o].at
            BY <4>2, <4>5 DEF Tied
          <6> QED
            BY <2>0, <6>1, <6>2
        <5>2. \A n \in Message : told[c][n].known => sent[m].at <= sent[n].at
          BY <3>2, <4>5 DEF Reached
        <5> DEFINE S == {n \in Visible : sent[n].at < sent[o].at}
        <5>3. S \in SUBSET Visible /\ m \in S /\ ReadsPage(c, S)
          BY <4>2, <4>3, <5>1
        <5> HIDE DEF S
        <5>4. /\ \A n \in Message : Reached(c, n)' => sent'[m].at <= sent'[n].at
              /\ clients'[c].more
          BY <1>2, <4>1, <5>2, <5>3, ReadStep
        <5> QED
          BY <3>1, <4>3, <5>4
      <4> QED
        BY <4>4, <4>5
    <3>8. ~LeaveRoom(c)
      BY <1>2, <2>0 DEF LeaveRoom, InRoom, Away
    <3>9. ~JoinRoom(c)
      BY <2>2 DEF JoinRoom, InRoom
    <3> QED
      BY <3>4, <3>5, <3>6, <3>7, <3>8, <3>9, ClientStep
  <2> QED
    BY <2>1, <2>2
<1> QED
  BY <1>1, <1>2 DEF HistoryInv

\* A client that has scrolled to the top misses a message only if its insert was
\* running when a page was read, or if it shares its instant with a known one.
THEOREM HistoryComplete == Spec => []MissedOnlyIfUnsavedOrTied
<1>1. Init => HistoryInv
  <2> SUFFICES ASSUME Init PROVE HistoryInv
    OBVIOUS
  <2>1. \A m \in Message : ~IsSent(m)
    BY DEF Init, IsSent, Unsent
  <2> QED
    BY <2>1 DEF HistoryInv, Behind
<1>2. Shape /\ HistoryInv /\ [Next]_vars => HistoryInv'
  BY HistoryStep
<1>3. Shape /\ HistoryInv => MissedOnlyIfUnsavedOrTied
  <2> SUFFICES ASSUME Shape, HistoryInv, NEW c \in Client, NEW m \in Visible,
                      clients[c].phase = "in", ~clients[c].more, ~told[c][m].known,
                      m \notin unsaved[c]
               PROVE  Tied(c, m)
    BY DEF MissedOnlyIfUnsavedOrTied, Tied
  <2>1. m \in Message /\ Stored(m) /\ ~rows[m].deleted
    BY DEF Visible
  <2>2. clients[c].page = {}
    BY DEF Shape, StoredOnly
  <2>3. Behind(c, m)
    BY <2>1, <2>2 DEF Behind, Reached, Paged, Stored, Shape, UnsentIsBlank
  <2>4. InRoom(c) /\ HasRead(c)
    BY DEF InRoom, HasRead
  <2> QED
    BY <2>1, <2>3, <2>4 DEF HistoryInv
<1> QED
  BY <1>1, <1>2, <1>3, ShapeHolds, PTL DEF Spec

=============================================================================
