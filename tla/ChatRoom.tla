------------------------------ MODULE ChatRoom ------------------------------
(***************************************************************************)
(* The chat of one room: messages that are broadcast before they are       *)
(* saved, previews and posters that patch them later, reactions, deletions *)
(* and the pages of history a client reads (chat.service.ts,               *)
(* chat-reaction.service.ts and the chat handlers of room.gateway.ts).     *)
(*                                                                         *)
(* An action is one query together with the code that sends it.  Where     *)
(* what a query found is told to somebody, its answer is an action of its  *)
(* own: other queries may run, and be answered, in between.                *)
(***************************************************************************)
EXTENDS Integers, FiniteSets

CONSTANTS
    User,
    Message,
    Emoji,
    Client,         \* sockets that follow the room
    Call,           \* chat-reaction handlers that may run at a time
    Liked,          \* messages people react to
    Cap,            \* MAX_REACTIONS_PER_USER_PER_MESSAGE
    PageSize,       \* HISTORY_PAGE_SIZE
    MaxTime,        \* bound of the clock
    None

ASSUME ChatAssumption ==
    /\ Cap \in Nat \ {0}
    /\ PageSize \in Nat \ {0}
    /\ MaxTime \in Nat
    /\ None \notin User
    /\ IsFiniteSet(Call)
    /\ IsFiniteSet(Message)
    /\ Liked \subseteq Message

VARIABLES
    now,            \* the clock, in the milliseconds of sentAt
    sent,           \* messages broadcast: who sent them, and when
    rows,           \* the ChatMessage rows, and how far their inserts are
    reactions,      \* the ChatMessageReaction rows
    decorating,     \* how far the detached scrape or poster of a message is
    reacting,       \* where each chat-reaction handler is
    deleting,       \* where the chat-message-delete handler of a message is
    clients,        \* where each client's join or scroll is
    told,           \* what each client has been told of each message
    unsaved,        \* history: messages without a row when a client read a page
    overtaken       \* history: messages whose reactions changed between a read
                    \* and its telling, or changed and were never told

vars == <<now, sent, rows, reactions, decorating, reacting, deleting, clients,
          told, unsaved, overtaken>>

Decoration == {"linkPreview", "attachments"}

Unsent == [author |-> None, at |-> 0]

NoRow == [state |-> "none", deleted |-> FALSE, decorations |-> {}]

NoTap == [phase |-> "idle", user |-> None, message |-> None, emoji |-> None,
          seen |-> {}]

Away == [phase |-> "out", more |-> FALSE, page |-> {}]

Untold == [known |-> FALSE, deleted |-> FALSE, decorations |-> {}, reactions |-> {}]

Row == [state: {"none", "inserting", "stored", "failed"}, deleted: BOOLEAN,
        decorations: SUBSET Decoration]

Tap == [phase: {"idle", "missing", "counted", "toggled", "listed"},
        user: User \union {None}, message: Message \union {None},
        emoji: Emoji \union {None}, seen: SUBSET (User \X Emoji)]

\* What a page says of one message.
Entry == [message: Message, decorations: SUBSET Decoration,
          reactions: SUBSET (User \X Emoji)]

Follower == [phase: {"out", "joined", "answering", "in"}, more: BOOLEAN,
             page: SUBSET Entry]

Knowledge == [known: BOOLEAN, deleted: BOOLEAN, decorations: SUBSET Decoration,
              reactions: SUBSET (User \X Emoji)]

Progress == {"none", "fetching", "updated", "lost", "shown", "shown lost"}

TypeOK ==
    /\ now \in 0..MaxTime
    /\ sent \in [Message -> [author: User \union {None}, at: 0..MaxTime]]
    /\ rows \in [Message -> Row]
    /\ \A m \in Message :
            rows[m].state = "stored" \/ (~rows[m].deleted /\ rows[m].decorations = {})
    /\ reactions \subseteq Message \X User \X Emoji
    /\ decorating \in [Message -> [Decoration -> Progress]]
    /\ reacting \in [Call -> Tap]
    /\ deleting \in [Message -> {"idle", "deleted", "refused"}]
    /\ clients \in [Client -> Follower]
    /\ told \in [Client -> [Message -> Knowledge]]
    /\ unsaved \in [Client -> SUBSET Message]
    /\ overtaken \subseteq Message

Init ==
    /\ now = 0
    /\ sent = [m \in Message |-> Unsent]
    /\ rows = [m \in Message |-> NoRow]
    /\ reactions = {}
    /\ decorating = [m \in Message |-> [d \in Decoration |-> "none"]]
    /\ reacting = [k \in Call |-> NoTap]
    /\ deleting = [m \in Message |-> "idle"]
    /\ clients = [c \in Client |-> Away]
    /\ told = [c \in Client |-> [m \in Message |-> Untold]]
    /\ unsaved = [c \in Client |-> {}]
    /\ overtaken = {}

-----------------------------------------------------------------------------
(* Helpers *)

IsSent(m) == sent[m].author # None

Stored(m) == rows[m].state = "stored"

\* Mutant: the socket joins the socket.io room only when its join is answered.
InRoomOnceAnswered(c) == clients[c].phase = "in"

\* server.to(room): every socket that has joined the socket.io room.
InRoom(c) == clients[c].phase # "out"

ReactionsOn(m) == {<<r[2], r[3]>> : r \in {q \in reactions : q[1] = m}}

Held(m, u) == Cardinality({r \in reactions : r[1] = m /\ r[2] = u})

\* chat-message-updated: each client of the room takes the fields it carries, which
\* makes what it has been told of m what news says.
TellRoom(m, news) ==
    told' = [c \in Client |->
                IF InRoom(c) THEN [told[c] EXCEPT ![m] = news[c]] ELSE told[c]]

\* Somebody has read the reactions of m and not yet told them.
ReadPending(m) ==
    \/ \E k \in Call : reacting[k].phase = "listed" /\ reacting[k].message = m
    \/ \E c \in Client : \E e \in clients[c].page : e.message = m

Overtakes(m) == IF ReadPending(m) THEN overtaken \union {m} ELSE overtaken

\* toggle has returned: the message's reactions are to be listed.
Toggled(m) == [NoTap EXCEPT !.phase = "toggled", !.message = m]

Tick ==
    /\ now < MaxTime
    /\ now' = now + 1
    /\ UNCHANGED <<sent, rows, reactions, decorating, reacting, deleting, clients,
                   told, unsaved, overtaken>>

-----------------------------------------------------------------------------
(* chat-message *)

\* Broadcast at once; the insert is on its way, and so are the decorations D: the
\* scrape of a text with a URL, the posters of videos.
SendMessage(m, u, D) ==
    /\ ~IsSent(m)
    /\ sent' = [sent EXCEPT ![m] = [author |-> u, at |-> now]]
    /\ TellRoom(m, [c \in Client |-> [told[c][m] EXCEPT !.known = TRUE]])
    /\ rows' = [rows EXCEPT ![m].state = "inserting"]
    /\ decorating' = [decorating EXCEPT ![m] = [d \in Decoration |->
            IF d \in D THEN "fetching" ELSE "none"]]
    /\ UNCHANGED <<now, reactions, reacting, deleting, clients, unsaved, overtaken>>

\* saveMessage, and its catch, which only logs.
InsertSettles(m) ==
    /\ rows[m].state = "inserting"
    /\ \E outcome \in {"stored", "failed"} :
          rows' = [rows EXCEPT ![m].state = outcome]
    /\ UNCHANGED <<now, sent, reactions, decorating, reacting, deleting, clients,
                   told, unsaved, overtaken>>

\* Mutant: the patch rewrites the whole row.
DecorationRewritesRow(m, d) ==
    /\ decorating[m][d] = "fetching"
    /\ Stored(m)
    /\ decorating' = [decorating EXCEPT ![m][d] = "updated"]
    /\ rows' = [rows EXCEPT ![m].decorations = {d}]
    /\ UNCHANGED <<now, sent, reactions, reacting, deleting, clients, told,
                   unsaved, overtaken>>

\* Mutant: an update that finds no row is kept for the insert to come.
DecorationUpserts(m, d) ==
    /\ decorating[m][d] = "fetching"
    /\ decorating' = [decorating EXCEPT ![m][d] = "updated"]
    /\ rows' = [rows EXCEPT ![m].decorations = @ \union {d}]
    /\ UNCHANGED <<now, sent, reactions, reacting, deleting, clients, told,
                   unsaved, overtaken>>

\* The page is scraped, or the poster made, and the row is patched.
DecorationUpdates(m, d) ==
    /\ decorating[m][d] = "fetching"
    /\ Stored(m)
    /\ decorating' = [decorating EXCEPT ![m][d] = "updated"]
    /\ rows' = [rows EXCEPT ![m].decorations = @ \union {d}]
    /\ UNCHANGED <<now, sent, reactions, reacting, deleting, clients, told,
                   unsaved, overtaken>>

\* The update throws, since it finds no row yet or the database fails, and
\* updateLinkPreview or updateAttachments catches that.
DecorationThrows(m, d) ==
    /\ decorating[m][d] = "fetching"
    /\ decorating' = [decorating EXCEPT ![m][d] = "lost"]
    /\ UNCHANGED <<now, sent, rows, reactions, reacting, deleting, clients, told,
                   unsaved, overtaken>>

\* Nothing worth showing, or the fetch failed.
DecorationDropped(m, d) ==
    /\ decorating[m][d] = "fetching"
    /\ decorating' = [decorating EXCEPT ![m][d] = "none"]
    /\ UNCHANGED <<now, sent, rows, reactions, reacting, deleting, clients, told,
                   unsaved, overtaken>>

\* The update has settled, one way or the other: the room is told.
DecorationShown(m, d) ==
    /\ decorating[m][d] \in {"updated", "lost"}
    /\ decorating' = [decorating EXCEPT ![m][d] =
            IF @ = "updated" THEN "shown" ELSE "shown lost"]
    /\ TellRoom(m, [c \in Client |->
            [told[c][m] EXCEPT !.decorations = @ \union {d}]])
    /\ UNCHANGED <<now, sent, rows, reactions, reacting, deleting, clients,
                   unsaved, overtaken>>

-----------------------------------------------------------------------------
(* chat-reaction *)

\* Mutant: only an added reaction is listed and broadcast.
TapDeletesQuietly(k, u, m, e) ==
    /\ reacting[k].phase = "idle"
    /\ IsSent(m)
    /\ LET had == <<m, u, e>> \in reactions IN
       /\ reactions' = reactions \ {<<m, u, e>>}
       /\ overtaken' = IF had THEN Overtakes(m) ELSE overtaken
       /\ reacting' = IF had THEN reacting
               ELSE [reacting EXCEPT ![k] =
                       [phase |-> "missing", user |-> u, message |-> m, emoji |-> e,
                        seen |-> {}]]
    /\ UNCHANGED <<now, sent, rows, decorating, deleting, clients, told, unsaved>>

\* toggle: deleteMany of exactly this emoji.  The room knows of the message.
TapDeletes(k, u, m, e) ==
    /\ reacting[k].phase = "idle"
    /\ IsSent(m)
    /\ LET had == <<m, u, e>> \in reactions IN
       /\ reactions' = reactions \ {<<m, u, e>>}
       /\ overtaken' = IF had THEN Overtakes(m) ELSE overtaken
       /\ reacting' = [reacting EXCEPT ![k] =
               IF had THEN Toggled(m)
               ELSE [phase |-> "missing", user |-> u, message |-> m, emoji |-> e,
                     seen |-> {}]]
    /\ UNCHANGED <<now, sent, rows, decorating, deleting, clients, told, unsaved>>

\* Mutant: one more than the cap passes.
CountPassesAtCap(k) ==
    /\ reacting[k].phase = "missing"
    /\ reacting' = [reacting EXCEPT ![k] =
            IF Held(@.message, @.user) > Cap
            THEN Toggled(@.message) ELSE [@ EXCEPT !.phase = "counted"]]
    /\ UNCHANGED <<now, sent, rows, reactions, decorating, deleting, clients, told,
                   unsaved, overtaken>>

\* At the cap nothing is added, and the reactions are listed as they are.
TapCounts(k) ==
    /\ reacting[k].phase = "missing"
    /\ reacting' = [reacting EXCEPT ![k] =
            IF Held(@.message, @.user) >= Cap
            THEN Toggled(@.message) ELSE [@ EXCEPT !.phase = "counted"]]
    /\ UNCHANGED <<now, sent, rows, reactions, decorating, deleting, clients, told,
                   unsaved, overtaken>>

TapCreates(k) ==
    LET t == reacting[k] IN
    /\ t.phase = "counted"
    /\ Stored(t.message)
    /\ <<t.message, t.user, t.emoji>> \notin reactions
    /\ reactions' = reactions \union {<<t.message, t.user, t.emoji>>}
    /\ overtaken' = Overtakes(t.message)
    /\ reacting' = [reacting EXCEPT ![k] = Toggled(t.message)]
    /\ UNCHANGED <<now, sent, rows, decorating, deleting, clients, told, unsaved>>

\* listGrouped, as the database evaluates it.
TapLists(k) ==
    /\ reacting[k].phase = "toggled"
    /\ reacting' = [reacting EXCEPT ![k].phase = "listed",
                                    ![k].seen = ReactionsOn(reacting[k].message)]
    /\ UNCHANGED <<now, sent, rows, reactions, decorating, deleting, clients, told,
                   unsaved, overtaken>>

\* A query throws - for the insert, since the message has no row or another tap
\* has created this very reaction - and the handler answers { ok: false }.  When
\* that is the list, the room is not told of what toggle has written.
TapThrows(k) ==
    /\ reacting[k].phase \in {"missing", "counted", "toggled"}
    /\ overtaken' = IF reacting[k].phase = "toggled"
                    THEN overtaken \union {reacting[k].message} ELSE overtaken
    /\ reacting' = [reacting EXCEPT ![k] = NoTap]
    /\ UNCHANGED <<now, sent, rows, reactions, decorating, deleting, clients, told,
                   unsaved>>

\* Its answer arrives and is broadcast.
TapBroadcasts(k) ==
    /\ reacting[k].phase = "listed"
    /\ TellRoom(reacting[k].message, [c \in Client |->
            [told[c][reacting[k].message] EXCEPT !.reactions = reacting[k].seen]])
    /\ reacting' = [reacting EXCEPT ![k] = NoTap]
    /\ UNCHANGED <<now, sent, rows, reactions, decorating, deleting, clients,
                   unsaved, overtaken>>

-----------------------------------------------------------------------------
(* chat-message-delete *)

\* Authorization is the write: one's own message, if it has a row yet.
DeleteUpdates(m, u) ==
    LET mine == Stored(m) /\ sent[m].author = u IN
    /\ deleting[m] = "idle"
    /\ IsSent(m)
    /\ deleting' = [deleting EXCEPT ![m] = IF mine THEN "deleted" ELSE "refused"]
    /\ rows' = IF mine THEN [rows EXCEPT ![m].deleted = TRUE] ELSE rows
    /\ UNCHANGED <<now, sent, reactions, decorating, reacting, clients, told,
                   unsaved, overtaken>>

\* The count arrives: the deletion is broadcast, or { ok: false } returned.
DeleteAnswered(m) ==
    /\ deleting[m] # "idle"
    /\ deleting' = [deleting EXCEPT ![m] = "idle"]
    /\ IF deleting[m] = "deleted"
       THEN TellRoom(m, [c \in Client |-> [told[c][m] EXCEPT !.deleted = TRUE]])
       ELSE UNCHANGED told
    /\ UNCHANGED <<now, sent, rows, reactions, decorating, reacting, clients,
                   unsaved, overtaken>>

-----------------------------------------------------------------------------
(* History: the page of the join-room ack, and load-earlier-chat-messages *)

\* Mutant: deleted messages are part of the history.
VisibleEvenDeleted == {m \in Message : Stored(m)}

Visible == {m \in Message : Stored(m) /\ ~rows[m].deleted}

\* orderBy sentAt desc, take: which of several messages of one instant make the
\* page is up to the database.
Pages(S) ==
    {P \in SUBSET S :
        /\ Cardinality(P) = IF Cardinality(S) < PageSize THEN Cardinality(S) ELSE PageSize
        /\ \A p \in P, s \in S \ P : sent[s].at <= sent[p].at}

EntryOf(m) == [message |-> m, decorations |-> rows[m].decorations,
               reactions |-> ReactionsOn(m)]

\* queryPage, as the database evaluates it.
ReadsPage(c, S) ==
    /\ \E P \in Pages(S) :
          clients' = [clients EXCEPT ![c] =
              [phase |-> "answering", more |-> Cardinality(P) = PageSize,
               page |-> {EntryOf(m) : m \in P}]]
    /\ unsaved' = [unsaved EXCEPT ![c] =
            @ \union {m \in Message : rows[m].state = "inserting"}]
    /\ UNCHANGED <<now, sent, rows, reactions, decorating, reacting, deleting, told,
                   overtaken>>

\* joinRoom is done and the socket is in the socket.io room.
JoinRoom(c) ==
    /\ clients[c].phase = "out"
    /\ clients' = [clients EXCEPT ![c].phase = "joined"]
    /\ UNCHANGED <<now, sent, rows, reactions, decorating, reacting, deleting, told,
                   unsaved, overtaken>>

\* getRecentHistory
ReadRecent(c) ==
    /\ clients[c].phase = "joined"
    /\ ReadsPage(c, Visible)

\* getMessagesBefore: strictly before the oldest message the client has loaded.
ReadBefore(c) ==
    /\ clients[c].phase = "in"
    /\ clients[c].more
    /\ \E m \in Message :
          /\ told[c][m].known
          /\ \A n \in Message : told[c][n].known => sent[m].at <= sent[n].at
          /\ ReadsPage(c, {n \in Visible : sent[n].at < sent[m].at})

\* The page reaches the client: with the join-room ack, two queries later, or as
\* the answer to its scrolling.
PageAnswered(c) ==
    LET page == clients[c].page
        Of(m) == CHOOSE e \in page : e.message = m
    IN
    /\ clients[c].phase = "answering"
    /\ clients' = [clients EXCEPT ![c].phase = "in", ![c].page = {}]
    /\ told' = [told EXCEPT ![c] = [m \in Message |->
            IF \E e \in page : e.message = m
            THEN [known |-> TRUE, deleted |-> @[m].deleted,
                  decorations |-> @[m].decorations \union Of(m).decorations,
                  reactions |-> Of(m).reactions]
            ELSE @[m]]]
    /\ UNCHANGED <<now, sent, rows, reactions, decorating, reacting, deleting,
                   unsaved, overtaken>>

\* leave-room or a disconnect; whoever comes back starts from the ack again.
LeaveRoom(c) ==
    /\ InRoom(c)
    /\ clients' = [clients EXCEPT ![c] = Away]
    /\ told' = [told EXCEPT ![c] = [m \in Message |-> Untold]]
    /\ unsaved' = [unsaved EXCEPT ![c] = {}]
    /\ UNCHANGED <<now, sent, rows, reactions, decorating, reacting, deleting,
                   overtaken>>

-----------------------------------------------------------------------------
Handling ==
    \/ Tick
    \/ \E m \in Message, u \in User, D \in SUBSET Decoration : SendMessage(m, u, D)
    \/ \E m \in Message, u \in User : DeleteUpdates(m, u)
    \/ \E m \in Message : InsertSettles(m) \/ DeleteAnswered(m)
    \/ \E m \in Message, d \in Decoration :
          \/ DecorationUpdates(m, d) \/ DecorationThrows(m, d)
          \/ DecorationDropped(m, d) \/ DecorationShown(m, d)
    \/ \E k \in Call, u \in User, m \in Liked, e \in Emoji : TapDeletes(k, u, m, e)

Tapping ==
    \E k \in Call :
        \/ TapCounts(k) \/ TapCreates(k) \/ TapLists(k)
        \/ TapThrows(k) \/ TapBroadcasts(k)

Following ==
    \E c \in Client :
        \/ JoinRoom(c) \/ ReadRecent(c) \/ ReadBefore(c) \/ PageAnswered(c)
        \/ LeaveRoom(c)

Next == Handling \/ Tapping \/ Following

Spec == Init /\ [][Next]_vars

-----------------------------------------------------------------------------
(* Properties *)

\* A client that has scrolled to the top has been told of every message that is
\* stored and not deleted, unless the insert was still running when the client
\* read a page, or the message shares its instant with one it was told of
\* (sentAt < before).  getRecentHistory, getMessagesBefore, chat-message.
MissedOnlyIfUnsavedOrTied ==
    \A c \in Client, m \in Visible :
        (clients[c].phase = "in" /\ ~clients[c].more /\ ~told[c][m].known) =>
            \/ m \in unsaved[c]
            \/ \E n \in Message : told[c][n].known /\ sent[n].at = sent[m].at

\* Whoever was told of a message is told of its deletion, also a client whose
\* page of history was read before the deletion and arrives after its broadcast.
DeletionReachesEveryone ==
    \A c \in Client, m \in Message :
        (/\ clients[c].phase = "in"
         /\ told[c][m].known
         /\ rows[m].deleted
         /\ deleting[m] # "deleted") => told[c][m].deleted

\* With no tap on a message in progress, the reactions a client was last told are
\* those of the table, unless some read was overtaken by a write before it was
\* told, or the list after a write failed.  onChatReaction, onJoinRoom.
DivergesOnlyIfOvertaken ==
    \A c \in Client, m \in Message \ overtaken :
        (/\ clients[c].phase = "in"
         /\ told[c][m].known
         /\ \A k \in Call : reacting[k].message = m =>
                reacting[k].phase \notin {"toggled", "listed"}) =>
            told[c][m].reactions = ReactionsOn(m)

\* The cap is counted before the insert: taps of one user that overlap may exceed
\* it, but only by the number of handlers less one.  toggle.
CapOverrunBounded ==
    \A m \in Message, u \in User : Held(m, u) < Cap + Cardinality(Call)

\* A preview or poster that the room was shown is in the row, unless its own
\* update threw: neither of two updates undoes the other.  updateLinkPreview,
\* updateAttachments.
DecorationLostOnlyIfThrown ==
    \A c \in Client, m \in Message, d \in Decoration :
        (d \in told[c][m].decorations /\ d \notin rows[m].decorations) =>
            decorating[m][d] = "shown lost"
=============================================================================
