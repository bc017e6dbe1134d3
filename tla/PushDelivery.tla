---------------------------- MODULE PushDelivery ----------------------------
(***************************************************************************)
(* Push notifications to the devices of one user: registrations            *)
(* (push-subscription.service.ts, fcm-token.service.ts), the fan-outs that *)
(* read them and prune the dead ones, and the window that keeps a flapping *)
(* radio from announcing the same join again (push-notification.service.ts).*)
(*                                                                         *)
(* A fan-out reads the browsers' registrations, then the apps' tokens, then*)
(* sends to all of them at once, and deletes a row by id when its vendor   *)
(* says that the address is gone: each is an await, where registrations    *)
(* change.  Vendors hand out new addresses whenever they like.             *)
(***************************************************************************)
EXTENDS Integers, FiniteSets

CONSTANTS
    Device,
    Native,         \* devices that are installs of the app, not browsers
    Platform,       \* the platform of each device
    Id,             \* row ids
    FanOut,
    MaxAddress,     \* bound: addresses a vendor gives one device
    Window,         \* PEER_JOINED_RENOTIFY_WINDOW_MS
    MaxTime,        \* bound: the clock
    None

ASSUME DeviceAssumption ==
    /\ Native \subseteq Device
    /\ Platform \in [Device -> {"android", "ios", "desktop"}]
    /\ \A d \in Native : Platform[d] \in {"android", "ios"}

ASSUME WindowAssumption == Window \in Nat \ {0}

ASSUME BoundAssumption == MaxAddress \in Nat /\ MaxTime \in Nat

\* A missing entry is not a time.
ASSUME NoneAssumption == None \notin Nat

VARIABLES
    rows,           \* PushSubscription and FcmToken rows of the user
    address,        \* the endpoint or token at which the vendor reaches a device
    wanted,         \* whether the device's last call registered it
    fanOuts,
    clock,
    announcedAt,    \* the entry of peerJoinedAnnouncedAt for one joiner
    lastJoin        \* history: when the joiner last joined, and if that was told

vars == <<rows, address, wanted, fanOuts, clock, announcedAt, lastJoin>>
registrations == <<rows, address, wanted>>
window == <<clock, announcedAt, lastJoin>>

Idle == [kind |-> "none", phase |-> "idle", except |-> None, before |-> {},
         listed |-> {}, targets |-> {}, dead |-> {}]

Init ==
    /\ rows = {}
    /\ address = [d \in Device |-> 0]
    /\ wanted = [d \in Device |-> FALSE]
    /\ fanOuts = [f \in FanOut |-> Idle]
    /\ clock = 0
    /\ announcedAt = None
    /\ lastJoin = [at |-> None, told |-> FALSE]

-----------------------------------------------------------------------------
(* Registrations *)

\* Ids that a row has or that a fan-out still refers to: a uuid is never reused.
UsedIds ==
    {r.id : r \in rows \union
        UNION {fanOuts[f].before \union fanOuts[f].listed
                 \union fanOuts[f].targets \union fanOuts[f].dead : f \in FanOut}}

RowOf(d) == {r \in rows : r.device = d}

\* The vendor gives the device a new address; it answers 410 for the old one.
NewAddress(d) ==
    /\ address[d] < MaxAddress
    /\ address' = [address EXCEPT ![d] = @ + 1]
    /\ UNCHANGED <<rows, wanted, fanOuts, window>>

\* The upsert: an existing row keeps its id.
Register(d, platform) ==
    /\ address[d] # 0
    /\ wanted' = [wanted EXCEPT ![d] = TRUE]
    /\ \E id \in IF RowOf(d) = {} THEN Id \ UsedIds ELSE {r.id : r \in RowOf(d)} :
        rows' = (rows \ RowOf(d)) \union
            {[id |-> id, device |-> d, address |-> address[d], platform |-> platform]}
    /\ UNCHANGED <<address, fanOuts, window>>

\* POST push/subscriptions: the browser names its platform, or a client too old
\* to know is filed under "web".
RegisterSubscription(d) ==
    d \notin Native /\ \E platform \in {Platform[d], "web"} : Register(d, platform)

\* POST push/fcm-token: the platform has to be one of an app.
RegisterToken(d) == d \in Native /\ Register(d, Platform[d])

Unregister(d) ==
    /\ wanted' = [wanted EXCEPT ![d] = FALSE]
    /\ rows' = rows \ RowOf(d)
    /\ UNCHANGED <<address, fanOuts, window>>

-----------------------------------------------------------------------------
(* Which registrations a fan-out uses *)

\* Mutant: a token silences only a subscription of its own device.
SuppressOwnDevice(subscriptions, tokens) ==
    {s \in subscriptions : s.device \notin {t.device : t \in tokens}}

SuppressNativeDuplicates(subscriptions, tokens) ==
    {s \in subscriptions : s.platform \notin {t.platform : t \in tokens}}

DropSilentPushIntolerant(subscriptions) == {s \in subscriptions : s.platform # "ios"}

Listed(f, devices) == {r \in rows : r.device \in devices \ {fanOuts[f].except}}

-----------------------------------------------------------------------------
(* Fan-outs *)

Begun(f, kind, except) ==
    /\ fanOuts[f] = Idle
    /\ fanOuts' = [fanOuts EXCEPT ![f] = [Idle EXCEPT
            !.kind = kind, !.except = except, !.before = rows,
            !.phase = IF kind = "update" THEN "tokens" ELSE "subscriptions"]]

\* notifyChatMessage, for a recipient who is not looking and has opted in.
NotifyChatMessage(f) == Begun(f, "notice", None) /\ UNCHANGED <<registrations, window>>

\* POST active: dismissOtherDevices, not awaited.
DismissOtherDevices(f, d) == Begun(f, "dismissal", d) /\ UNCHANGED <<registrations, window>>

\* announceAppUpdate reads the tokens only.
AnnounceAppUpdate(f) == Begun(f, "update", None) /\ UNCHANGED <<registrations, window>>

ListSubscriptions(f) ==
    /\ fanOuts[f].phase = "subscriptions"
    /\ fanOuts' = [fanOuts EXCEPT ![f].phase = "tokens",
                                  ![f].listed = Listed(f, Device \ Native)]
    /\ UNCHANGED <<registrations, window>>

\* The tokens are read and everything is sent: the web targets are what the
\* tokens leave of the subscriptions read before.
ListTokens(f) ==
    LET job == fanOuts[f]
        tokens == Listed(f, Native)
        web == SuppressNativeDuplicates(job.listed, tokens) IN
    /\ job.phase = "tokens"
    /\ \E sent \in IF job.kind = "update"
                   THEN {{t \in tokens : t.platform = p} : p \in {"android", "ios"}}
                   ELSE {tokens} :
        fanOuts' = [fanOuts EXCEPT ![f] = [job EXCEPT
            !.phase = "sending", !.listed = {},
            !.targets = sent \union
                (IF job.kind = "dismissal" THEN DropSilentPushIntolerant(web) ELSE web)]]
    /\ UNCHANGED <<registrations, window>>

\* A vendor accepts a push, or fails in a way that is only logged.
Answered(f, r) ==
    /\ r \in fanOuts[f].targets
    /\ fanOuts' = [fanOuts EXCEPT ![f].targets = @ \ {r}]
    /\ UNCHANGED <<registrations, window>>

\* 404, 410 or an unregistered token.
Gone(f, r) ==
    /\ r \in fanOuts[f].targets
    /\ r.address # address[r.device]
    /\ fanOuts' = [fanOuts EXCEPT ![f].targets = @ \ {r}, ![f].dead = @ \union {r}]
    /\ UNCHANGED <<registrations, window>>

\* Mutant: unregister(userId, deviceId) does the clean-up.
DeleteByDevice(f, r) ==
    /\ r \in fanOuts[f].dead
    /\ fanOuts' = [fanOuts EXCEPT ![f].dead = @ \ {r}]
    /\ rows' = {q \in rows : q.device # r.device}
    /\ UNCHANGED <<address, wanted, window>>

DeleteById(f, r) ==
    /\ r \in fanOuts[f].dead
    /\ fanOuts' = [fanOuts EXCEPT ![f].dead = @ \ {r}]
    /\ rows' = {q \in rows : q.id # r.id}
    /\ UNCHANGED <<address, wanted, window>>

\* Promise.all settles.
Finished(f) ==
    /\ fanOuts[f].phase = "sending"
    /\ fanOuts[f].targets = {} /\ fanOuts[f].dead = {}
    /\ fanOuts' = [fanOuts EXCEPT ![f] = Idle]
    /\ UNCHANGED <<registrations, window>>

-----------------------------------------------------------------------------
(* The announcement window *)

Tick ==
    /\ clock < MaxTime
    /\ clock' = clock + 1
    /\ UNCHANGED <<registrations, fanOuts, announcedAt, lastJoin>>

\* What the sweep of wasJustAnnouncedAsJoined leaves of the joiner's entry.
Swept == IF announcedAt # None /\ clock - announcedAt >= Window THEN None ELSE announcedAt

\* Mutant: a suppressed join is not recorded, so that the window stands still.
FixedWindow ==
    /\ announcedAt' = IF Swept = None THEN clock ELSE Swept
    /\ lastJoin' = [at |-> clock, told |-> Swept = None]

\* The join is recorded whether or not it is announced: the window slides.
WasJustAnnouncedAsJoined ==
    /\ announcedAt' = clock
    /\ lastJoin' = [at |-> clock, told |-> Swept = None]

\* notifyPeerJoined.
NotifyPeerJoined(f) ==
    /\ WasJustAnnouncedAsJoined
    /\ IF Swept = None THEN Begun(f, "notice", None) ELSE UNCHANGED fanOuts
    /\ UNCHANGED <<registrations, clock>>

-----------------------------------------------------------------------------

Registration(d) ==
    NewAddress(d) \/ RegisterSubscription(d) \/ RegisterToken(d) \/ Unregister(d)

Delivery(f) ==
    \/ NotifyChatMessage(f) \/ AnnounceAppUpdate(f) \/ NotifyPeerJoined(f)
    \/ \E d \in Device : DismissOtherDevices(f, d)
    \/ ListSubscriptions(f) \/ ListTokens(f) \/ Finished(f)
    \/ \E r \in fanOuts[f].targets : Answered(f, r) \/ Gone(f, r)
    \/ \E r \in fanOuts[f].dead : DeleteById(f, r)

Next ==
    \/ Tick
    \/ \E d \in Device : Registration(d)
    \/ \E f \in FanOut : Delivery(f)

Spec == Init /\ [][Next]_vars

-----------------------------------------------------------------------------
(* Properties *)

Row == [id : Id, device : Device, address : 1..MaxAddress,
        platform : {"android", "ios", "desktop", "web"}]

\* Types, and the unique index on (userId, deviceId).
TypeOK ==
    /\ rows \subseteq Row
    /\ \A d \in Device : Cardinality(RowOf(d)) <= 1
    /\ address \in [Device -> 0..MaxAddress]
    /\ wanted \in [Device -> BOOLEAN]
    /\ \A f \in FanOut :
        /\ fanOuts[f].kind \in {"none", "notice", "dismissal", "update"}
        /\ fanOuts[f].phase \in {"idle", "subscriptions", "tokens", "sending"}
        /\ fanOuts[f].except \in Device \union {None}
        /\ fanOuts[f].before \union fanOuts[f].listed \union fanOuts[f].targets
             \union fanOuts[f].dead \subseteq Row
    /\ clock \in 0..MaxTime
    /\ announcedAt \in 0..MaxTime \union {None}
    /\ lastJoin \in [at : 0..MaxTime \union {None}, told : BOOLEAN]

\* An app that was registered before a fan-out began and still is when it sends
\* keeps the browsers of its platform quiet, however registrations change in
\* between; the exception is the app whose own call the fan-out answers.
NoSecondBuzz ==
    \A f \in FanOut : \A s \in fanOuts[f].targets : \A n \in fanOuts[f].before \intersect rows :
        /\ s.device \notin Native
        /\ n.device \in Native
        /\ n.device # fanOuts[f].except
        => n.platform # s.platform

\* Pruning deletes the row of a device that is registered at its current address
\* only if that row was re-registered in place while the fan-out was sending to
\* the previous address.  A device that unregistered and registered is safe.
LostOnlyIfReplaced ==
    [][\A r \in rows :
        (r.address = address[r.device] /\ wanted'[r.device] /\ RowOf(r.device)' = {}) =>
            \E f \in FanOut : \E q \in fanOuts[f].dead :
                q.id = r.id /\ q.address # r.address]_vars

\* "A radio that flaps" rings once: a join is announced exactly if the joiner has
\* not joined, announced or not, within the window before it.
AnnouncedAfterQuiet ==
    [][lastJoin'.at # lastJoin.at =>
        (lastJoin'.told <=> lastJoin.at = None \/ lastJoin'.at - lastJoin.at >= Window)]_vars

=============================================================================
