----------------------------- MODULE RoomAccess -----------------------------
(***************************************************************************)
(* Who is what in one room: creation, visibility, passcode, modules,       *)
(* invitations and visits (room-provisioning.service.ts,                   *)
(* room-invitation.service.ts, room-membership.service.ts and the          *)
(* handlers of rooms.controller.ts and room.gateway.ts that call them).    *)
(*                                                                         *)
(* Every handler reads, decides and writes in separate queries; an action  *)
(* is one query together with the code up to the next.  A transaction is   *)
(* one action: it commits as a whole or not at all.                        *)
(***************************************************************************)
EXTENDS Integers, FiniteSets

CONSTANTS
    User,
    Module,
    Private,        \* modules whose manifest says requiresPrivate
    Led,            \* modules whose manifest has a creatorRole
    Untitled,       \* modules whose manifest says requiresGeneratedName
    Invitation,     \* ids of invitations, each issued at most once
    Click,          \* calls that may redeem one invitation
    None

ASSUME ManifestAssumption ==
    Private \subseteq Module /\ Led \subseteq Module /\ Untitled \subseteq Module

VARIABLES
    room,           \* the Room row
    members,        \* RoomMember.role
    modules,        \* RoomModule rows
    moduleRoles,    \* RoomMemberModuleRole.role
    invitations,    \* RoomInvitation rows
    creating,       \* where the create call of a user is
    configuring,    \* where the visibility change of a user is, what it read
    enabling,       \* the module whose enabling a user was admitted to
    inviting,       \* the invitation a user was admitted to issue
    accepting,      \* where each redeeming call is, and the role it read
    visiting        \* users let in, whose visit is still to be recorded

vars == <<room, members, modules, moduleRoles, invitations, creating,
          configuring, enabling, inviting, accepting, visiting>>

tables == <<room, members, modules, moduleRoles, invitations>>

Role == {"owner", "moderator", "member"}

\* A missing row is neither a person nor a role.
ASSUME NoneAssumption == None \notin User \union Role

Invitable == {"moderator", "member"}

NoRoom == [creator |-> None, private |-> FALSE, passcode |-> FALSE]

Unconfigured == [phase |-> "idle", private |-> TRUE, seen |-> {}]

NoInvitation == [state |-> "none", invitee |-> None, role |-> None, modules |-> {}]

Init ==
    /\ room = NoRoom
    /\ members = [u \in User |-> None]
    /\ modules = {}
    /\ moduleRoles = [u \in User |-> [m \in Module |-> None]]
    /\ invitations = [i \in Invitation |-> NoInvitation]
    /\ creating = [u \in User |-> "idle"]
    /\ configuring = [u \in User |-> Unconfigured]
    /\ enabling = [u \in User |-> None]
    /\ inviting = [u \in User |-> None]
    /\ accepting = [i \in Invitation |-> [c \in Click |->
            [phase |-> "idle", seen |-> None]]]
    /\ visiting = {}

-----------------------------------------------------------------------------
(* Helpers *)

Exists == room.creator # None

\* contextFor gives someone without a row no context, and so no capability.
IsMember(u) == members[u] # None

\* capabilitiesFor, for people who signed in.
MayConfigure(u) == IsMember(u) /\ members[u] = "owner"
MayInvite(u) == IsMember(u) /\ members[u] \in {"owner", "moderator"}

Rank(r) == CASE r = "owner" -> 3 [] r = "moderator" -> 2 [] r = "member" -> 1
             [] OTHER -> -1

\* Mutant: the invitation's role always wins.
RoleOfInvitation(a, b) == b

HighestRoomRole(a, b) == IF Rank(a) >= Rank(b) THEN a ELSE b

ForcesPrivate(M) == M \intersect Private # {}

\* An upsert that leaves an existing row alone.
Default(old, new) == IF old = None THEN new ELSE old

-----------------------------------------------------------------------------
(* create *)

\* The passcode is hashed, then the name is looked up; one that exists is refused.
CreateChecked(u) ==
    /\ creating[u] = "idle"
    /\ ~Exists
    /\ creating' = [creating EXCEPT ![u] = "checked"]
    /\ UNCHANGED <<tables, configuring, enabling, inviting, accepting, visiting>>

\* Mutant: the room is written by an upsert.
CreateUpserts(u, M, private, passcode) ==
    /\ creating[u] = "checked"
    /\ creating' = [creating EXCEPT ![u] = "created"]
    /\ room' = [creator |-> u, private |-> private \/ ForcesPrivate(M),
                passcode |-> passcode]
    /\ members' = [members EXCEPT ![u] = "owner"]
    /\ modules' = M
    /\ UNCHANGED <<moduleRoles, invitations, configuring, enabling, inviting,
                   accepting, visiting>>

\* The transaction: room, owner, modules and the creator's module roles.  A room
\* with an untitled module has a generated name, which nobody else is creating.
CreateCommits(u, M, private, passcode) ==
    /\ creating[u] = "checked"
    /\ ~Exists
    /\ M \intersect Untitled # {} => \A v \in User \ {u} : creating[v] = "idle"
    /\ creating' = [creating EXCEPT ![u] = "created"]
    /\ room' = [creator |-> u, private |-> private \/ ForcesPrivate(M),
                passcode |-> passcode]
    /\ members' = [members EXCEPT ![u] = "owner"]
    /\ modules' = M
    /\ moduleRoles' = [moduleRoles EXCEPT ![u] =
            [m \in Module |-> IF m \in M \intersect Led THEN "creator" ELSE None]]
    /\ UNCHANGED <<invitations, configuring, enabling, inviting, accepting, visiting>>

\* The name was taken meanwhile: the unique index rolls the transaction back.
CreateRollsBack(u) ==
    /\ creating[u] = "checked"
    /\ Exists
    /\ creating' = [creating EXCEPT ![u] = "idle"]
    /\ UNCHANGED <<tables, configuring, enabling, inviting, accepting, visiting>>

-----------------------------------------------------------------------------
(* PATCH :roomName *)

\* RoomCapabilityGuard lets the call through.
ConfigureAdmitted(u, private) ==
    /\ MayConfigure(u)
    /\ configuring[u].phase = "idle"
    /\ configuring' = [configuring EXCEPT ![u] =
            [phase |-> "admitted", private |-> private, seen |-> {}]]
    /\ UNCHANGED <<tables, creating, enabling, inviting, accepting, visiting>>

\* Mutant: only a room that is already private is checked.
VisibilityCheckedWhenPrivate(u) ==
    /\ configuring[u].phase = "admitted"
    /\ configuring' = [configuring EXCEPT ![u] =
            [@ EXCEPT !.phase = "checked", !.seen = modules]]
    /\ UNCHANGED <<tables, creating, enabling, inviting, accepting, visiting>>

\* setVisibility reads the enabled modules; one that requires privacy blocks.
VisibilityChecked(u) ==
    /\ configuring[u].phase = "admitted"
    /\ configuring' = [configuring EXCEPT ![u] =
            IF ~@.private /\ ForcesPrivate(modules) THEN Unconfigured
            ELSE [@ EXCEPT !.phase = "checked", !.seen = modules]]
    /\ UNCHANGED <<tables, creating, enabling, inviting, accepting, visiting>>

VisibilityWritten(u) ==
    /\ configuring[u].phase = "checked"
    /\ configuring' = [configuring EXCEPT ![u] = Unconfigured]
    /\ room' = [room EXCEPT !.private = configuring[u].private]
    /\ UNCHANGED <<members, modules, moduleRoles, invitations, creating, enabling,
                   inviting, accepting, visiting>>

\* setPasscode depends on nothing it read but the guard's answer, which for an
\* owner stays the same; so does disableModule.
SetPasscode(u, passcode) ==
    /\ MayConfigure(u)
    /\ room' = [room EXCEPT !.passcode = passcode]
    /\ UNCHANGED <<members, modules, moduleRoles, invitations, creating,
                   configuring, enabling, inviting, accepting, visiting>>

-----------------------------------------------------------------------------
(* POST and DELETE :roomName/modules *)

EnableAdmitted(u, m) ==
    /\ MayConfigure(u)
    /\ enabling[u] = None
    /\ enabling' = [enabling EXCEPT ![u] = m]
    /\ UNCHANGED <<tables, creating, configuring, inviting, accepting, visiting>>

\* The transaction: module, visibility, the enabler's role unless there is one.
EnableCommits(u) ==
    LET m == enabling[u] IN
    /\ m # None
    /\ enabling' = [enabling EXCEPT ![u] = None]
    /\ modules' = modules \union {m}
    /\ room' = [room EXCEPT !.private = @ \/ m \in Private]
    /\ moduleRoles' = [moduleRoles EXCEPT ![u][m] =
            IF m \in Led THEN Default(@, "creator") ELSE @]
    /\ UNCHANGED <<members, invitations, creating, configuring, inviting,
                   accepting, visiting>>

\* Visibility and role rows stay as they are.
DisableModule(u, m) ==
    /\ MayConfigure(u)
    /\ m \in modules
    /\ modules' = modules \ {m}
    /\ UNCHANGED <<room, members, moduleRoles, invitations, creating, configuring,
                   enabling, inviting, accepting, visiting>>

-----------------------------------------------------------------------------
(* invitations *)

SetInvitation(i, inv) == invitations' = [invitations EXCEPT ![i] = inv]

\* Module roles only for modules that are on and have roles.
ValidateModuleRoles(M) == M \subseteq modules \intersect Led

\* The guard and the checks before the write.
IssueChecked(u, i, invitee, role, M) ==
    /\ MayInvite(u)
    /\ inviting[u] = None
    /\ ValidateModuleRoles(M)
    /\ \A v \in User : inviting[v] # None => inviting[v].id # i
    /\ invitations[i].state = "none"
    /\ inviting' = [inviting EXCEPT ![u] =
            [id |-> i, invitee |-> invitee, role |-> role, modules |-> M]]
    /\ UNCHANGED <<tables, creating, configuring, enabling, accepting, visiting>>

Issued(u) ==
    LET q == inviting[u] IN
    /\ q # None
    /\ inviting' = [inviting EXCEPT ![u] = None]
    /\ SetInvitation(q.id, [state |-> "pending", invitee |-> q.invitee,
                            role |-> q.role, modules |-> q.modules])
    /\ UNCHANGED <<room, members, modules, moduleRoles, creating, configuring,
                   enabling, accepting, visiting>>

\* deleteMany with acceptedAt null: an accepted invitation stays.  Guard and delete
\* are one step here: the owner may always revoke, and who did is not recorded.
Revoke(u, i) ==
    /\ MayInvite(u)
    /\ invitations[i].state = "pending"
    /\ SetInvitation(i, [invitations[i] EXCEPT !.state = "revoked"])
    /\ UNCHANGED <<room, members, modules, moduleRoles, creating, configuring,
                   enabling, inviting, accepting, visiting>>

\* accept reads the invitation and finds it open.  Used up, expired or meant for
\* someone else, the call ends and changes nothing.
AcceptBegins(i, c) ==
    /\ accepting[i][c].phase = "idle"
    /\ invitations[i].state = "pending"
    /\ accepting' = [accepting EXCEPT ![i][c].phase = "found"]
    /\ UNCHANGED <<tables, creating, configuring, enabling, inviting, visiting>>

\* It reads the role its user already has.
AcceptReads(i, c) ==
    /\ accepting[i][c].phase = "found"
    /\ accepting' = [accepting EXCEPT ![i][c] =
            [phase |-> "read", seen |-> members[invitations[i].invitee]]]
    /\ UNCHANGED <<tables, creating, configuring, enabling, inviting, visiting>>

\* Mutant: acceptedAt is set by updateMany, which finds nothing
\* to update once the invitation is gone, and does not throw.
AcceptCommitsAnyway(i, c) ==
    LET inv == invitations[i]
        u == inv.invitee IN
    /\ accepting[i][c].phase = "read"
    /\ accepting' = [accepting EXCEPT ![i][c].phase = "accepted"]
    /\ members' = [members EXCEPT ![u] = HighestRoomRole(accepting[i][c].seen, inv.role)]
    /\ invitations' = [invitations EXCEPT ![i].state = IF @ = "revoked" THEN @ ELSE "accepted"]
    /\ UNCHANGED <<room, modules, moduleRoles, creating, configuring, enabling,
                   inviting, visiting>>

\* The transaction: role, module roles, acceptedAt.
AcceptCommits(i, c) ==
    LET inv == invitations[i]
        u == inv.invitee IN
    /\ accepting[i][c].phase = "read"
    /\ inv.state # "revoked"
    /\ accepting' = [accepting EXCEPT ![i][c].phase = "accepted"]
    /\ members' = [members EXCEPT ![u] = HighestRoomRole(accepting[i][c].seen, inv.role)]
    /\ moduleRoles' = [moduleRoles EXCEPT ![u] =
            [m \in Module |-> IF m \in inv.modules THEN "invited" ELSE @[m]]]
    /\ SetInvitation(i, [inv EXCEPT !.state = "accepted"])
    /\ UNCHANGED <<room, modules, creating, configuring, enabling, inviting, visiting>>

\* The row is gone: its update throws, and nothing is kept.
AcceptRollsBack(i, c) ==
    /\ accepting[i][c].phase = "read"
    /\ invitations[i].state = "revoked"
    /\ accepting' = [accepting EXCEPT ![i][c].phase = "idle"]
    /\ UNCHANGED <<tables, creating, configuring, enabling, inviting, visiting>>

-----------------------------------------------------------------------------
(* join-room and POST :roomName/join *)

\* assertMayJoin: the room is there and public, or the visitor is one of its members.
Admitted(u) ==
    /\ Exists
    /\ ~room.private \/ IsMember(u)
    /\ u \notin visiting
    /\ visiting' = visiting \union {u}
    /\ UNCHANGED <<tables, creating, configuring, enabling, inviting, accepting>>

\* joinWithPasscode: a room without a passcode is entered by none.
AdmittedByPasscode(u) ==
    /\ Exists
    /\ room.passcode
    /\ u \notin visiting
    /\ visiting' = visiting \union {u}
    /\ UNCHANGED <<tables, creating, configuring, enabling, inviting, accepting>>

\* Mutant: the update branch of the upsert writes the role too.
RecordVisitAsMember(u) ==
    /\ u \in visiting
    /\ visiting' = visiting \ {u}
    /\ members' = [members EXCEPT ![u] = "member"]
    /\ UNCHANGED <<room, modules, moduleRoles, invitations, creating, configuring,
                   enabling, inviting, accepting>>

\* recordVisit: an upsert that never touches a role.
RecordVisit(u) ==
    /\ u \in visiting
    /\ visiting' = visiting \ {u}
    /\ members' = [members EXCEPT ![u] = Default(@, "member")]
    /\ UNCHANGED <<room, modules, moduleRoles, invitations, creating, configuring,
                   enabling, inviting, accepting>>

-----------------------------------------------------------------------------

Create(u) ==
    \/ CreateChecked(u) \/ CreateRollsBack(u)
    \/ \E M \in SUBSET Module, private, passcode \in BOOLEAN :
        CreateCommits(u, M, private, passcode)

Configure(u) ==
    \/ VisibilityChecked(u) \/ VisibilityWritten(u) \/ EnableCommits(u)
    \/ \E flag \in BOOLEAN : ConfigureAdmitted(u, flag) \/ SetPasscode(u, flag)
    \/ \E m \in Module : EnableAdmitted(u, m) \/ DisableModule(u, m)

Invite(u) ==
    \/ Issued(u)
    \/ \E i \in Invitation :
        \/ Revoke(u, i)
        \/ \E v \in User, role \in Invitable, M \in SUBSET Module :
            IssueChecked(u, i, v, role, M)

Accept(i, c) ==
    AcceptBegins(i, c) \/ AcceptReads(i, c) \/ AcceptCommits(i, c) \/ AcceptRollsBack(i, c)

Next ==
    \/ \E u \in User :
        \/ Create(u) \/ Configure(u) \/ Invite(u)
        \/ Admitted(u) \/ AdmittedByPasscode(u) \/ RecordVisit(u)
    \/ \E i \in Invitation, c \in Click : Accept(i, c)

Spec == Init /\ [][Next]_vars

-----------------------------------------------------------------------------
(* Properties *)

InvitationRow ==
    [state : {"none", "pending", "accepted", "revoked"}, invitee : User \union {None},
     role : Invitable \union {None}, modules : SUBSET Module]

Issue == [id : Invitation, invitee : User, role : Invitable, modules : SUBSET Module]

\* Types, and the foreign key from RoomMember to Room.
TypeOK ==
    /\ room \in [creator : User \union {None}, private : BOOLEAN, passcode : BOOLEAN]
    /\ members \in [User -> Role \union {None}]
    /\ modules \subseteq Module
    /\ moduleRoles \in [User -> [Module -> {"creator", "invited", None}]]
    /\ invitations \in [Invitation -> InvitationRow]
    /\ creating \in [User -> {"idle", "checked", "created"}]
    /\ configuring \in [User -> [phase : {"idle", "admitted", "checked"},
            private : BOOLEAN, seen : SUBSET Module]]
    /\ enabling \in [User -> Module \union {None}]
    /\ inviting \in [User -> Issue \union {None}]
    /\ accepting \in [Invitation -> [Click ->
            [phase : {"idle", "found", "read", "accepted"},
             seen : Role \union {None}]]]
    /\ visiting \subseteq User
    /\ ~Exists => visiting = {} /\ \A u \in User : members[u] = None

\* A room always has its owner: whoever created it, one person, whatever
\* invitations to it they accept and however often they visit.  "A room that
\* exists with no owner is a room nobody can configure."
OneOwner ==
    \A u \in User : (members[u] = "owner") <=> (room.creator = u)

\* Two creations of one name: the one that answers 201 is the room there is.
OneCreation == \A u \in User : creating[u] = "created" => room.creator = u

\* An invitation revoked while it is being accepted grants nothing: the accept
\* fails as a whole, and one that went through can no longer be revoked.
RevokedGrantsNothing ==
    \A i \in Invitation, c \in Click :
        ~(invitations[i].state = "revoked" /\ accepting[i][c].phase = "accepted")

\* "Accepting an invitation can never LOWER what someone already holds", as long
\* as no other write to that membership came between the read and the write.
NoDemotionUnlessOvertaken ==
    [][\A u \in User :
        Rank(members'[u]) < Rank(members[u]) =>
            \E i \in Invitation, c \in Click :
                /\ accepting[i][c].phase = "read"
                /\ invitations[i].invitee = u
                /\ accepting[i][c].seen # members[u]]_vars

\* A room never becomes public with a module on that requires privacy, by any
\* order of enabling, disabling and changes of visibility, except through a change
\* to public that read the enabled modules before that one was among them.
PrivateUnlessOvertaken ==
    [][\A m \in Private :
        (~room'.private /\ m \in modules') /\ (room.private \/ m \notin modules) =>
            \E u \in User :
                configuring[u].phase = "checked" /\ m \notin configuring[u].seen]_vars

=============================================================================
