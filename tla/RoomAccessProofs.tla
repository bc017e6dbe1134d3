-------------------------- MODULE RoomAccessProofs --------------------------
(***************************************************************************)
(* Proofs about RoomAccess for any users, modules, invitations and         *)
(* redeeming calls.                                                        *)
(***************************************************************************)
EXTENDS RoomAccess, TLAPS

\* Where a visibility change and a redeeming call can be: TypeOK's record sets.
Change == [phase : {"idle", "admitted", "checked"}, private : BOOLEAN, seen : SUBSET Module]

Redemption == [phase : {"idle", "found", "read", "accepted"}, seen : Role \union {None}]

\* Before the room is created nobody is invited to it.
Founded ==
    ~Exists =>
        /\ \A u \in User : inviting[u] = None
        /\ \A i \in Invitation : invitations[i].state = "none"

\* An id is being issued by at most one call, and is not yet used; a row names
\* somebody and a role below the owner's.
Issues ==
    /\ \A u \in User : inviting[u] # None =>
        /\ invitations[inviting[u].id].state = "none"
        /\ \A v \in User \ {u} : inviting[v] # None => inviting[v].id # inviting[u].id
    /\ \A i \in Invitation : invitations[i].state # "none" =>
        invitations[i].invitee \in User /\ invitations[i].role \in Invitable

\* A redeeming call has an invitation that was issued; while it stands between
\* its read and its write, nobody becomes or stops being the owner.
Redemptions ==
    \A i \in Invitation, c \in Click :
        /\ accepting[i][c].phase # "idle" => invitations[i].state # "none"
        /\ accepting[i][c].phase = "read" =>
              (accepting[i][c].seen = "owner" <=> members[invitations[i].invitee] = "owner")
        /\ accepting[i][c].phase = "accepted" => invitations[i].state = "accepted"

\* An issued invitation stays issued, to the same person; an accepted one, accepted.
StaysIssued ==
    \A i \in Invitation : invitations[i].state # "none" =>
        /\ invitations'[i].state # "none"
        /\ invitations'[i].invitee = invitations[i].invitee
        /\ invitations[i].state = "accepted" => invitations'[i].state = "accepted"

\* A change to public found none of the modules it read to require privacy.
Changes ==
    \A u \in User :
        configuring[u].phase = "checked" /\ ~configuring[u].private =>
            ~ForcesPrivate(configuring[u].seen)

Inv == TypeOK /\ OneOwner /\ OneCreation /\ Founded /\ Issues /\ Redemptions /\ Changes

-----------------------------------------------------------------------------
(* Ranks *)

LEMMA Ranks ==
  /\ Rank("owner") = 3 /\ Rank("moderator") = 2 /\ Rank("member") = 1 /\ Rank(None) = -1
BY NoneAssumption DEF Rank, Role

\* The role written is one of the two, never the lower one, and an owner's exactly
\* if one was read: an invitation makes nobody the owner.
LEMMA HigherRole ==
  ASSUME NEW seen \in Role \union {None}, NEW role \in Invitable
  PROVE  /\ HighestRoomRole(seen, role) \in Role
         /\ HighestRoomRole(seen, role) = "owner" <=> seen = "owner"
         /\ Rank(HighestRoomRole(seen, role)) >= Rank(seen)
BY Ranks, NoneAssumption DEF HighestRoomRole, Role, Invitable

\* An upsert that finds a row leaves it alone.
LEMMA Kept ==
  ASSUME NEW old \in Role \union {None}
  PROVE  /\ Default(old, "member") \in Role
         /\ Default(old, "member") = "owner" <=> old = "owner"
         /\ Rank(Default(old, "member")) >= Rank(old)
BY Ranks, NoneAssumption DEF Default, Role

-----------------------------------------------------------------------------
(* The strengthened invariant *)

\* A redeeming call that moves on changes its phase and nothing else.
LEMMA Moves ==
  ASSUME accepting \in [Invitation -> [Click -> Redemption]],
         NEW i \in Invitation, NEW c \in Click,
         NEW phase \in {"idle", "found", "read", "accepted"},
         accepting' = [accepting EXCEPT ![i][c].phase = phase]
  PROVE  /\ accepting' \in [Invitation -> [Click -> Redemption]]
         /\ \A j \in Invitation, d \in Click :
              /\ accepting'[j][d].phase = IF j = i /\ d = c THEN phase ELSE accepting[j][d].phase
              /\ accepting'[j][d].seen = accepting[j][d].seen
<1> DEFINE moved == [accepting[i][c] EXCEPT !.phase = phase]
<1>0. accepting[i][c] \in Redemption
  OBVIOUS
<1>1. moved \in Redemption /\ moved.phase = phase /\ moved.seen = accepting[i][c].seen
  BY <1>0 DEF Redemption
<1>2. accepting' = [accepting EXCEPT ![i] = [accepting[i] EXCEPT ![c] = moved]]
  OBVIOUS
<1> HIDE DEF moved
<1> QED
  BY <1>1, <1>2

LEMMA InvInit == Init => Inv
BY NoneAssumption DEF Init, Inv, TypeOK, OneOwner, OneCreation, Founded, Issues,
    Redemptions, Changes, Exists, NoRoom, Unconfigured, NoInvitation, InvitationRow,
    Role, Invitable

\* A row that changes its state changes nothing else.
LEMMA Restated ==
  ASSUME NEW row \in InvitationRow, NEW state \in {"none", "pending", "accepted", "revoked"}
  PROVE  LET after == [row EXCEPT !.state = state] IN
         /\ after \in InvitationRow
         /\ after.state = state /\ after.invitee = row.invitee /\ after.role = row.role
BY DEF InvitationRow

\* Types, one action at a time.
LEMMA TypeStep ==
  ASSUME Inv, [Next]_vars
  PROVE  TypeOK'
<1> USE DEF TypeOK, Exists
<1>0. TypeOK
  BY DEF Inv
<1>1. ASSUME NEW u \in User, Create(u)
      PROVE  TypeOK'
  <2>1. CASE CreateChecked(u)
    BY <1>0, <2>1 DEF CreateChecked, tables
  <2>2. CASE CreateRollsBack(u)
    BY <1>0, <2>2 DEF CreateRollsBack, tables
  <2>3. ASSUME NEW M \in SUBSET Module, NEW private \in BOOLEAN, NEW passcode \in BOOLEAN,
               CreateCommits(u, M, private, passcode)
        PROVE  TypeOK'
    <3>1. room' \in [creator : User \union {None}, private : BOOLEAN, passcode : BOOLEAN]
      BY <1>0, <2>3 DEF CreateCommits, ForcesPrivate
    <3>2. members' \in [User -> Role \union {None}]
      BY <1>0, <2>3 DEF CreateCommits, Role
    <3>3. moduleRoles' \in [User -> [Module -> {"creator", "invited", None}]]
      BY <1>0, <2>3 DEF CreateCommits
    <3> QED
      BY <1>0, <2>3, <3>1, <3>2, <3>3, NoneAssumption DEF CreateCommits
  <2> QED
    BY <1>1, <2>1, <2>2, <2>3 DEF Create
<1>2. ASSUME NEW u \in User, Configure(u)
      PROVE  TypeOK'
  <2>1. CASE VisibilityChecked(u)
    <3> DEFINE checked == [configuring[u] EXCEPT !.phase = "checked", !.seen = modules]
    <3>1. configuring \in [User -> Change] /\ Unconfigured \in Change
      BY <1>0 DEF Change, Unconfigured
    <3>2. checked \in Change
      BY <1>0, <3>1 DEF Change
    <3>3. configuring' \in [User -> Change]
      <4>1. \/ configuring' = [configuring EXCEPT ![u] = Unconfigured]
            \/ configuring' = [configuring EXCEPT ![u] = checked]
        BY <2>1 DEF VisibilityChecked
      <4> QED
        BY <3>1, <3>2, <4>1
    <3> QED
      BY <1>0, <2>1, <3>3 DEF VisibilityChecked, tables, Change
  <2>2. CASE VisibilityWritten(u)
    BY <1>0, <2>2 DEF VisibilityWritten, Unconfigured
  <2>3. CASE EnableCommits(u)
    <3>1. enabling[u] \in Module
      BY <1>0, <2>3 DEF EnableCommits
    <3>2. moduleRoles' \in [User -> [Module -> {"creator", "invited", None}]]
      BY <1>0, <2>3, <3>1 DEF EnableCommits, Default
    <3> QED
      BY <1>0, <2>3, <3>1, <3>2 DEF EnableCommits
  <2>4. ASSUME NEW flag \in BOOLEAN, ConfigureAdmitted(u, flag)
        PROVE  TypeOK'
    BY <1>0, <2>4 DEF ConfigureAdmitted, tables
  <2>5. ASSUME NEW flag \in BOOLEAN, SetPasscode(u, flag)
        PROVE  TypeOK'
    BY <1>0, <2>5 DEF SetPasscode
  <2>6. ASSUME NEW m \in Module, EnableAdmitted(u, m)
        PROVE  TypeOK'
    BY <1>0, <2>6 DEF EnableAdmitted, tables
  <2>7. ASSUME NEW m \in Module, DisableModule(u, m)
        PROVE  TypeOK'
    BY <1>0, <2>7 DEF DisableModule
  <2> QED
    BY <1>2, <2>1, <2>2, <2>3, <2>4, <2>5, <2>6, <2>7 DEF Configure
<1>3. ASSUME NEW u \in User, Invite(u)
      PROVE  TypeOK'
  <2>1. CASE Issued(u)
    <3>1. inviting[u] \in Issue
      BY <1>0, <2>1 DEF Issued
    <3>2. invitations' \in [Invitation -> InvitationRow]
      BY <1>0, <2>1, <3>1 DEF Issued, SetInvitation, Issue, InvitationRow
    <3> QED
      BY <1>0, <2>1, <3>2 DEF Issued
  <2>2. ASSUME NEW i \in Invitation, Revoke(u, i)
        PROVE  TypeOK'
    <3>1. [invitations[i] EXCEPT !.state = "revoked"] \in InvitationRow
      BY <1>0, Restated
    <3> QED
      BY <1>0, <2>2, <3>1 DEF Revoke, SetInvitation
  <2>3. ASSUME NEW i \in Invitation, NEW v \in User, NEW role \in Invitable,
               NEW M \in SUBSET Module, IssueChecked(u, i, v, role, M)
        PROVE  TypeOK'
    BY <1>0, <2>3 DEF IssueChecked, tables, Issue
  <2> QED
    BY <1>3, <2>1, <2>2, <2>3 DEF Invite
<1>4. ASSUME NEW i \in Invitation, NEW c \in Click, Accept(i, c)
      PROVE  TypeOK'
  <2>0. accepting \in [Invitation -> [Click -> Redemption]]
    BY <1>0 DEF Redemption
  <2>1. CASE AcceptBegins(i, c)
    <3>1. accepting' \in [Invitation -> [Click -> Redemption]]
      BY <2>0, <2>1, Moves DEF AcceptBegins
    <3> QED
      BY <1>0, <2>1, <3>1 DEF AcceptBegins, tables, Redemption
  <2>2. CASE AcceptReads(i, c)
    <3>1. members[invitations[i].invitee] \in Role \union {None}
      BY <1>0, <2>2 DEF AcceptReads, Inv, Redemptions, Issues
    <3> QED
      BY <1>0, <2>2, <3>1 DEF AcceptReads, tables
  <2>3. CASE AcceptCommits(i, c)
    <3> DEFINE u == invitations[i].invitee
               M == invitations[i].modules
    <3>1. /\ u \in User /\ invitations[i].role \in Invitable
          /\ accepting[i][c].seen \in Role \union {None}
          /\ Exists
      BY <1>0, <2>3 DEF AcceptCommits, Inv, Redemptions, Issues, Founded
    <3>2. members' \in [User -> Role \union {None}]
      BY <1>0, <2>3, <3>1, HigherRole DEF AcceptCommits
    <3>3. moduleRoles' \in [User -> [Module -> {"creator", "invited", None}]]
      BY <1>0, <2>3, <3>1 DEF AcceptCommits
    <3>4. invitations' \in [Invitation -> InvitationRow]
      <4>1. [invitations[i] EXCEPT !.state = "accepted"] \in InvitationRow
        BY <1>0, Restated
      <4> QED
        BY <1>0, <2>3, <4>1 DEF AcceptCommits, SetInvitation
    <3>5. accepting' \in [Invitation -> [Click -> Redemption]]
      BY <2>0, <2>3, Moves DEF AcceptCommits
    <3> QED
      BY <1>0, <2>3, <3>1, <3>2, <3>3, <3>4, <3>5 DEF AcceptCommits, Redemption
  <2>4. CASE AcceptRollsBack(i, c)
    <3>1. accepting' \in [Invitation -> [Click -> Redemption]]
      BY <2>0, <2>4, Moves DEF AcceptRollsBack
    <3> QED
      BY <1>0, <2>4, <3>1 DEF AcceptRollsBack, tables, Redemption
  <2> QED
    BY <1>4, <2>1, <2>2, <2>3, <2>4 DEF Accept
<1>5. ASSUME NEW u \in User, Admitted(u) \/ AdmittedByPasscode(u)
      PROVE  TypeOK'
  BY <1>0, <1>5 DEF Admitted, AdmittedByPasscode, tables
<1>6. ASSUME NEW u \in User, RecordVisit(u)
      PROVE  TypeOK'
  <2>1. members' \in [User -> Role \union {None}]
    BY <1>0, <1>6, Kept DEF RecordVisit
  <2> QED
    BY <1>0, <1>6, <2>1 DEF RecordVisit
<1>7. CASE UNCHANGED vars
  BY <1>0, <1>7 DEF vars
<1> QED
  BY <1>1, <1>2, <1>3, <1>4, <1>5, <1>6, <1>7 DEF Next

\* The owner, and who created the room.
LEMMA OwnerStep ==
  ASSUME Inv, [Next]_vars
  PROVE  OneOwner' /\ OneCreation'
<1> USE DEF OneOwner, OneCreation, Exists
<1>0. TypeOK /\ OneOwner /\ OneCreation
  BY DEF Inv
<1>1. ASSUME NEW u \in User, Create(u)
      PROVE  OneOwner' /\ OneCreation'
  <2>1. CASE CreateChecked(u) \/ CreateRollsBack(u)
    BY <1>0, <2>1 DEF CreateChecked, CreateRollsBack, tables, TypeOK
  <2>2. ASSUME NEW M \in SUBSET Module, NEW private \in BOOLEAN, NEW passcode \in BOOLEAN,
               CreateCommits(u, M, private, passcode)
        PROVE  OneOwner' /\ OneCreation'
    <3>1. room'.creator = u
      BY <2>2 DEF CreateCommits
    <3>2. \A v \in User : members[v] # "owner" /\ creating[v] # "created"
      BY <1>0, <2>2, NoneAssumption DEF CreateCommits
    <3>3. OneOwner'
      BY <1>0, <2>2, <3>1, <3>2 DEF CreateCommits, TypeOK
    <3>4. OneCreation'
      BY <1>0, <2>2, <3>1, <3>2 DEF CreateCommits, TypeOK
    <3> QED
      BY <3>3, <3>4
  <2> QED
    BY <1>1, <2>1, <2>2 DEF Create
<1>2. ASSUME NEW u \in User, Configure(u)
      PROVE  OneOwner' /\ OneCreation'
  <2>1. room'.creator = room.creator /\ members' = members /\ creating' = creating
    BY <1>0, <1>2 DEF Configure, VisibilityChecked, VisibilityWritten, EnableCommits,
        ConfigureAdmitted, SetPasscode, EnableAdmitted, DisableModule, tables, TypeOK
  <2> QED
    BY <1>0, <2>1
<1>3. ASSUME NEW u \in User, Invite(u)
      PROVE  OneOwner' /\ OneCreation'
  BY <1>0, <1>3 DEF Invite, Issued, Revoke, IssueChecked, tables
<1>4. ASSUME NEW i \in Invitation, NEW c \in Click, Accept(i, c)
      PROVE  OneOwner' /\ OneCreation'
  <2>1. CASE AcceptCommits(i, c)
    <3> DEFINE u == invitations[i].invitee
    <3>1. /\ u \in User /\ invitations[i].role \in Invitable
          /\ accepting[i][c].seen \in Role \union {None}
          /\ accepting[i][c].seen = "owner" <=> members[u] = "owner"
      BY <2>1 DEF Inv, TypeOK, AcceptCommits, Redemptions, Issues
    <3>2. members' = [members EXCEPT ![u] = HighestRoomRole(accepting[i][c].seen,
                                                            invitations[i].role)]
      BY <2>1 DEF AcceptCommits
    <3>3. members'[u] = "owner" <=> members[u] = "owner"
      BY <1>0, <3>1, <3>2, HigherRole DEF TypeOK
    <3> QED
      BY <1>0, <2>1, <3>1, <3>2, <3>3 DEF AcceptCommits, TypeOK
  <2> QED
    BY <1>0, <1>4, <2>1 DEF Accept, AcceptBegins, AcceptReads, AcceptRollsBack, tables
<1>5. ASSUME NEW u \in User, Admitted(u) \/ AdmittedByPasscode(u)
      PROVE  OneOwner' /\ OneCreation'
  BY <1>0, <1>5 DEF Admitted, AdmittedByPasscode, tables
<1>6. ASSUME NEW u \in User, RecordVisit(u)
      PROVE  OneOwner' /\ OneCreation'
  <2>1. members'[u] = "owner" <=> members[u] = "owner"
    BY <1>0, <1>6, Kept DEF RecordVisit, TypeOK
  <2> QED
    BY <1>0, <1>6, <2>1 DEF RecordVisit, TypeOK
<1>7. CASE UNCHANGED vars
  BY <1>0, <1>7 DEF vars
<1> QED
  BY <1>1, <1>2, <1>3, <1>4, <1>5, <1>6, <1>7 DEF Next

\* A room keeps its creator, and so its owner.
LEMMA SameOwner ==
  ASSUME Inv, [Next]_vars, Exists
  PROVE  /\ room'.creator = room.creator
         /\ \A u \in User : members'[u] = "owner" <=> members[u] = "owner"
<1>0. room \in [creator : User \union {None}, private : BOOLEAN, passcode : BOOLEAN]
  BY DEF Inv, TypeOK
<1>1. room'.creator = room.creator
  <2>1. ASSUME NEW u \in User, Create(u)
        PROVE  room' = room
    BY <2>1 DEF Create, CreateChecked, CreateCommits, CreateRollsBack, tables
  <2>2. ASSUME NEW u \in User, Configure(u)
        PROVE  room'.creator = room.creator
    BY <1>0, <2>2 DEF Configure, VisibilityChecked, VisibilityWritten, EnableCommits,
        ConfigureAdmitted, SetPasscode, EnableAdmitted, DisableModule, tables
  <2>3. ASSUME NEW u \in User, Invite(u)
        PROVE  room' = room
    BY <2>3 DEF Invite, Issued, Revoke, IssueChecked, tables
  <2>4. ASSUME NEW i \in Invitation, NEW c \in Click, Accept(i, c)
        PROVE  room' = room
    BY <2>4 DEF Accept, AcceptBegins, AcceptReads, AcceptCommits, AcceptRollsBack, tables
  <2>5. ASSUME NEW u \in User, Admitted(u) \/ AdmittedByPasscode(u) \/ RecordVisit(u)
        PROVE  room' = room
    BY <2>5 DEF Admitted, AdmittedByPasscode, RecordVisit, tables
  <2> QED
    BY <2>1, <2>2, <2>3, <2>4, <2>5 DEF Next, vars
<1>2. OneOwner /\ OneOwner'
  BY OwnerStep DEF Inv
<1> QED
  BY <1>1, <1>2 DEF OneOwner

\* Nobody is invited to a room that does not exist.
LEMMA FoundedStep ==
  ASSUME Inv, [Next]_vars
  PROVE  Founded'
<1>0. TypeOK /\ Founded /\ OneOwner
  BY DEF Inv
<1>1. CASE Exists
  BY <1>1, SameOwner DEF Founded, Exists
<1>2. CASE ~Exists
  <2>1. \A u \in User : inviting[u] = None /\ ~MayInvite(u)
    BY <1>0, <1>2, NoneAssumption DEF TypeOK, Founded, MayInvite, IsMember
  <2>2. \A i \in Invitation : invitations[i].state = "none"
    BY <1>0, <1>2 DEF Founded
  <2>3. \A i \in Invitation, c \in Click : accepting[i][c].phase = "idle"
    BY <2>2 DEF Inv, Redemptions
  <2>4. ASSUME NEW u \in User, Create(u) \/ Configure(u)
        PROVE  inviting' = inviting /\ invitations' = invitations
    BY <2>4 DEF Create, CreateChecked, CreateCommits, CreateRollsBack, Configure,
        VisibilityChecked, VisibilityWritten, EnableCommits, ConfigureAdmitted,
        SetPasscode, EnableAdmitted, DisableModule, tables
  <2>5. ASSUME NEW u \in User
        PROVE  ~Invite(u)
    BY <2>1 DEF Invite, Issued, Revoke, IssueChecked
  <2>6. ASSUME NEW i \in Invitation, NEW c \in Click
        PROVE  ~Accept(i, c)
    BY <2>2, <2>3 DEF Accept, AcceptBegins, AcceptReads, AcceptCommits, AcceptRollsBack
  <2>7. ASSUME NEW u \in User, Admitted(u) \/ AdmittedByPasscode(u) \/ RecordVisit(u)
        PROVE  inviting' = inviting /\ invitations' = invitations
    BY <2>7 DEF Admitted, AdmittedByPasscode, RecordVisit, tables
  <2>8. inviting' = inviting /\ invitations' = invitations
    BY <2>4, <2>5, <2>6, <2>7 DEF Next, vars
  <2> QED
    BY <2>1, <2>2, <2>8 DEF Founded
<1> QED
  BY <1>1, <1>2

\* An invitation is issued under an id of its own, and never again.
LEMMA IssuesStep ==
  ASSUME Inv, [Next]_vars
  PROVE  Issues' /\ StaysIssued
<1> USE DEF StaysIssued
<1>0. TypeOK /\ Issues
  BY DEF Inv
<1>1. ASSUME NEW u \in User, Create(u) \/ Configure(u)
      PROVE  inviting' = inviting /\ invitations' = invitations
  BY <1>1 DEF Create, CreateChecked, CreateCommits, CreateRollsBack, Configure,
      VisibilityChecked, VisibilityWritten, EnableCommits, ConfigureAdmitted,
      SetPasscode, EnableAdmitted, DisableModule, tables
<1>2. ASSUME NEW u \in User, Admitted(u) \/ AdmittedByPasscode(u) \/ RecordVisit(u)
      PROVE  inviting' = inviting /\ invitations' = invitations
  BY <1>2 DEF Admitted, AdmittedByPasscode, RecordVisit, tables
<1>3. ASSUME NEW i \in Invitation, NEW c \in Click, Accept(i, c)
      PROVE  Issues' /\ StaysIssued
  <2>1. CASE AcceptCommits(i, c)
    <3> DEFINE after == [invitations[i] EXCEPT !.state = "accepted"]
    <3>1. invitations[i].state # "none"
      BY <2>1 DEF AcceptCommits, Inv, Redemptions
    <3>2. /\ after.state = "accepted" /\ after.invitee = invitations[i].invitee
          /\ after.role = invitations[i].role
      BY <1>0, Restated DEF TypeOK
    <3>3. inviting' = inviting /\ invitations' = [invitations EXCEPT ![i] = after]
      BY <2>1 DEF AcceptCommits, SetInvitation
    <3> HIDE DEF after
    <3>4. \A j \in Invitation :
            /\ j # i => invitations'[j] = invitations[j]
            /\ j = i => invitations'[j] = after
      BY <1>0, <3>3 DEF TypeOK
    <3>5. \A j \in Invitation :
            /\ invitations'[j].state = IF j = i THEN "accepted" ELSE invitations[j].state
            /\ invitations'[j].invitee = invitations[j].invitee
            /\ invitations'[j].role = invitations[j].role
      BY <3>2, <3>4
    <3>6. \A v \in User : inviting[v] # None => inviting[v].id \in Invitation
      BY <1>0 DEF TypeOK, Issue
    <3> QED
      BY <1>0, <3>1, <3>3, <3>5, <3>6 DEF Issues
  <2>2. CASE ~AcceptCommits(i, c)
    <3>1. inviting' = inviting /\ invitations' = invitations
      BY <1>3, <2>2 DEF Accept, AcceptBegins, AcceptReads, AcceptRollsBack, tables
    <3> QED
      BY <1>0, <3>1 DEF Issues
  <2> QED
    BY <2>1, <2>2
<1>4. ASSUME NEW u \in User, Issued(u)
      PROVE  Issues' /\ StaysIssued
  <2> DEFINE q == inviting[u]
             new == [state |-> "pending", invitee |-> q.invitee, role |-> q.role,
                     modules |-> q.modules]
  <2>1. q \in Issue /\ q # None
    BY <1>0, <1>4 DEF TypeOK, Issued
  <2>2. q.id \in Invitation /\ q.invitee \in User /\ q.role \in Invitable
    BY <2>1 DEF Issue
  <2>3. invitations[q.id].state = "none"
    BY <1>0, <2>1 DEF Issues
  <2>4. /\ invitations' = [invitations EXCEPT ![q.id] = new]
        /\ inviting' = [inviting EXCEPT ![u] = None]
    BY <1>4 DEF Issued, SetInvitation
  <2>5. new.state = "pending" /\ new.invitee = q.invitee /\ new.role = q.role
    OBVIOUS
  <2>6. \A v \in User \ {u} : inviting[v] # None => inviting[v].id # q.id
    BY <1>0, <2>1 DEF Issues
  <2>7. \A v \in User : inviting[v] # None => inviting[v].id \in Invitation
    BY <1>0 DEF TypeOK, Issue
  <2> HIDE DEF q, new
  <2>8. /\ invitations'[q.id] = new
        /\ \A j \in Invitation \ {q.id} : invitations'[j] = invitations[j]
        /\ inviting'[u] = None
        /\ \A v \in User \ {u} : inviting'[v] = inviting[v]
    BY <1>0, <2>2, <2>4 DEF TypeOK
  <2> QED
    BY <1>0, <2>2, <2>3, <2>5, <2>6, <2>7, <2>8 DEF Issues
<1>5. ASSUME NEW u \in User, NEW i \in Invitation, Revoke(u, i)
      PROVE  Issues' /\ StaysIssued
  <2> DEFINE after == [invitations[i] EXCEPT !.state = "revoked"]
  <2>1. invitations[i].state = "pending"
    BY <1>5 DEF Revoke
  <2>2. /\ after.state = "revoked" /\ after.invitee = invitations[i].invitee
        /\ after.role = invitations[i].role
    BY <1>0, Restated DEF TypeOK
  <2>3. inviting' = inviting /\ invitations' = [invitations EXCEPT ![i] = after]
    BY <1>5 DEF Revoke, SetInvitation
  <2> HIDE DEF after
  <2>4. \A j \in Invitation :
          /\ j # i => invitations'[j] = invitations[j]
          /\ j = i => invitations'[j] = after
    BY <1>0, <2>3 DEF TypeOK
  <2>5. \A j \in Invitation :
          /\ invitations'[j].state = IF j = i THEN "revoked" ELSE invitations[j].state
          /\ invitations'[j].invitee = invitations[j].invitee
          /\ invitations'[j].role = invitations[j].role
    BY <2>2, <2>4
  <2>6. \A v \in User : inviting[v] # None => inviting[v].id \in Invitation
    BY <1>0 DEF TypeOK, Issue
  <2> QED
    BY <1>0, <2>1, <2>3, <2>5, <2>6 DEF Issues
<1>6. ASSUME NEW u \in User, NEW i \in Invitation, NEW v \in User,
             NEW role \in Invitable, NEW M \in SUBSET Module,
             IssueChecked(u, i, v, role, M)
      PROVE  Issues' /\ StaysIssued
  <2> DEFINE q == [id |-> i, invitee |-> v, role |-> role, modules |-> M]
  <2>1. /\ invitations' = invitations
        /\ inviting[u] = None
        /\ inviting' = [inviting EXCEPT ![u] = q]
        /\ invitations[i].state = "none"
        /\ \A w \in User : inviting[w] # None => inviting[w].id # i
    BY <1>6 DEF IssueChecked, tables
  <2>2. q.id = i
    OBVIOUS
  <2> HIDE DEF q
  <2>3. inviting'[u] = q /\ \A w \in User \ {u} : inviting'[w] = inviting[w]
    BY <1>0, <2>1 DEF TypeOK
  <2> QED
    BY <1>0, <2>1, <2>2, <2>3 DEF Issues
<1>7. CASE UNCHANGED <<inviting, invitations>>
  BY <1>0, <1>7 DEF Issues
<1> HIDE DEF StaysIssued
<1> QED
  BY <1>1, <1>2, <1>3, <1>4, <1>5, <1>6, <1>7 DEF Next, Invite, vars

\* A redeeming call keeps what it read true where the owner is concerned.
LEMMA RedemptionsStep ==
  ASSUME Inv, [Next]_vars
  PROVE  Redemptions'
<1>0. TypeOK /\ Redemptions /\ Issues
  BY DEF Inv
<1>1. accepting \in [Invitation -> [Click -> Redemption]]
  BY <1>0 DEF TypeOK, Redemption
<1>2. ASSUME NEW i \in Invitation, invitations[i].state # "none"
      PROVE  /\ invitations'[i].state # "none"
             /\ invitations'[i].invitee = invitations[i].invitee
             /\ invitations[i].state = "accepted" => invitations'[i].state = "accepted"
             /\ members'[invitations[i].invitee] = "owner"
                  <=> members[invitations[i].invitee] = "owner"
  <2>1. Exists /\ invitations[i].invitee \in User
    BY <1>0, <1>2 DEF Inv, Founded, Issues
  <2> QED
    BY <1>2, <2>1, SameOwner, IssuesStep DEF StaysIssued
<1>3. CASE accepting' = accepting
  BY <1>0, <1>2, <1>3 DEF Redemptions
<1>4. ASSUME NEW i \in Invitation, NEW c \in Click, Accept(i, c)
      PROVE  Redemptions'
  <2>1. CASE AcceptBegins(i, c)
    <3>1. /\ invitations[i].state # "none"
          /\ accepting' = [accepting EXCEPT ![i][c].phase = "found"]
      BY <2>1 DEF AcceptBegins
    <3>2. \A j \in Invitation, d \in Click :
            /\ accepting'[j][d].phase = IF j = i /\ d = c THEN "found" ELSE accepting[j][d].phase
            /\ accepting'[j][d].seen = accepting[j][d].seen
      BY <1>1, <3>1, Moves
    <3> QED
      BY <1>0, <1>2, <3>1, <3>2 DEF Redemptions
  <2>2. CASE AcceptReads(i, c)
    <3> DEFINE now == [phase |-> "read", seen |-> members[invitations[i].invitee]]
    <3>1. /\ invitations[i].state # "none"
          /\ accepting' = [accepting EXCEPT ![i][c] = now]
      BY <1>0, <2>2 DEF AcceptReads, Redemptions
    <3>2. now.phase = "read" /\ now.seen = members[invitations[i].invitee]
      OBVIOUS
    <3> HIDE DEF now
    <3>3. \A j \in Invitation, d \in Click :
            accepting'[j][d] = IF j = i /\ d = c THEN now ELSE accepting[j][d]
      BY <1>1, <3>1
    <3> QED
      BY <1>0, <1>2, <3>1, <3>2, <3>3 DEF Redemptions
  <2>3. CASE AcceptCommits(i, c)
    <3>1. /\ invitations[i].state # "none"
          /\ accepting' = [accepting EXCEPT ![i][c].phase = "accepted"]
      BY <1>0, <2>3 DEF AcceptCommits, Redemptions
    <3>2. \A j \in Invitation, d \in Click :
            /\ accepting'[j][d].phase =
                  IF j = i /\ d = c THEN "accepted" ELSE accepting[j][d].phase
            /\ accepting'[j][d].seen = accepting[j][d].seen
      BY <1>1, <3>1, Moves
    <3>3. invitations'[i].state = "accepted"
      BY <1>0, <2>3, Restated DEF AcceptCommits, SetInvitation, TypeOK
    <3> QED
      BY <1>0, <1>2, <3>1, <3>2, <3>3 DEF Redemptions
  <2>4. CASE AcceptRollsBack(i, c)
    <3>1. accepting' = [accepting EXCEPT ![i][c].phase = "idle"]
      BY <2>4 DEF AcceptRollsBack
    <3>2. \A j \in Invitation, d \in Click :
            /\ accepting'[j][d].phase = IF j = i /\ d = c THEN "idle" ELSE accepting[j][d].phase
            /\ accepting'[j][d].seen = accepting[j][d].seen
      BY <1>1, <3>1, Moves
    <3> QED
      BY <1>0, <1>2, <3>2 DEF Redemptions
  <2> QED
    BY <1>4, <2>1, <2>2, <2>3, <2>4 DEF Accept
<1>5. ASSUME NEW u \in User,
             \/ Create(u) \/ Configure(u) \/ Invite(u)
             \/ Admitted(u) \/ AdmittedByPasscode(u) \/ RecordVisit(u)
      PROVE  accepting' = accepting
  BY <1>5 DEF Create, CreateChecked, CreateCommits, CreateRollsBack, Configure,
      VisibilityChecked, VisibilityWritten, EnableCommits, ConfigureAdmitted,
      SetPasscode, EnableAdmitted, DisableModule, Invite, Issued, Revoke, IssueChecked,
      Admitted, AdmittedByPasscode, RecordVisit
<1> QED
  BY <1>3, <1>4, <1>5 DEF Next, vars

\* A change to public goes on only if what it read allows it.
LEMMA ChangesStep ==
  ASSUME Inv, [Next]_vars
  PROVE  Changes'
<1>0. configuring \in [User -> Change] /\ Changes
  BY DEF Inv, TypeOK, Change
<1>1. ASSUME NEW u \in User, VisibilityChecked(u)
      PROVE  Changes'
  <2> DEFINE old == configuring[u]
             checked == [old EXCEPT !.phase = "checked", !.seen = modules]
  <2>1. old \in Change
    BY <1>0
  <2>2. checked.private = old.private /\ checked.seen = modules
    BY <2>1 DEF Change
  <2>3. \/ configuring' = [configuring EXCEPT ![u] = Unconfigured]
        \/ /\ configuring' = [configuring EXCEPT ![u] = checked]
           /\ old.private \/ ~ForcesPrivate(modules)
    BY <1>1 DEF VisibilityChecked
  <2> HIDE DEF old, checked
  <2>4. \A v \in User \ {u} : configuring'[v] = configuring[v]
    BY <1>0, <2>3
  <2>5. CASE configuring' = [configuring EXCEPT ![u] = Unconfigured]
    BY <1>0, <2>4, <2>5 DEF Changes, Unconfigured
  <2>6. CASE /\ configuring' = [configuring EXCEPT ![u] = checked]
             /\ old.private \/ ~ForcesPrivate(modules)
    <3>1. configuring'[u] = checked
      BY <1>0, <2>6
    <3>2. ~configuring'[u].private => ~ForcesPrivate(configuring'[u].seen)
      BY <2>2, <2>6, <3>1
    <3> QED
      BY <1>0, <2>4, <3>2 DEF Changes, ForcesPrivate
  <2> QED
    BY <2>3, <2>5, <2>6
<1>2. ASSUME NEW u \in User, VisibilityWritten(u)
      PROVE  Changes'
  BY <1>0, <1>2 DEF VisibilityWritten, Changes, Unconfigured, ForcesPrivate
<1>3. ASSUME NEW u \in User, NEW flag \in BOOLEAN, ConfigureAdmitted(u, flag)
      PROVE  Changes'
  BY <1>0, <1>3 DEF ConfigureAdmitted, Changes, ForcesPrivate
<1>4. CASE configuring' = configuring
  BY <1>0, <1>4 DEF Changes, ForcesPrivate
<1>5. ASSUME NEW u \in User,
             \/ Create(u) \/ Invite(u) \/ EnableCommits(u)
             \/ \E flag \in BOOLEAN : SetPasscode(u, flag)
             \/ \E m \in Module : EnableAdmitted(u, m) \/ DisableModule(u, m)
             \/ Admitted(u) \/ AdmittedByPasscode(u) \/ RecordVisit(u)
      PROVE  configuring' = configuring
  BY <1>5 DEF Create, CreateChecked, CreateCommits, CreateRollsBack, EnableCommits,
      SetPasscode, EnableAdmitted, DisableModule, Invite, Issued, Revoke, IssueChecked,
      Admitted, AdmittedByPasscode, RecordVisit
<1>6. ASSUME NEW i \in Invitation, NEW c \in Click, Accept(i, c)
      PROVE  configuring' = configuring
  BY <1>6 DEF Accept, AcceptBegins, AcceptReads, AcceptCommits, AcceptRollsBack
<1> QED
  BY <1>1, <1>2, <1>3, <1>4, <1>5, <1>6 DEF Next, Configure, vars

\* Every reachable state satisfies the strengthened invariant.
THEOREM Invariant == Spec => []Inv
<1>1. Inv /\ [Next]_vars => Inv'
  BY TypeStep, OwnerStep, FoundedStep, IssuesStep, RedemptionsStep, ChangesStep DEF Inv
<1> QED
  BY InvInit, <1>1, PTL DEF Spec

-----------------------------------------------------------------------------
(* The properties *)

\* Type correctness, for the handlers of room-provisioning.service.ts,
\* room-invitation.service.ts and room-membership.service.ts.
THEOREM TypeCorrect == Spec => []TypeOK
<1>1. Inv => TypeOK
  BY DEF Inv
<1> QED
  BY Invariant, <1>1, PTL

\* The room's owner is the user who created it, and nobody else: no accepted
\* invitation and no recorded visit makes or unmakes an owner.
THEOREM OwnerIsCreator == Spec => []OneOwner
<1>1. Inv => OneOwner
  BY DEF Inv
<1> QED
  BY Invariant, <1>1, PTL

\* A create call that answers 201 made the room, also when several race.
THEOREM CreatedOnce == Spec => []OneCreation
<1>1. Inv => OneCreation
  BY DEF Inv
<1> QED
  BY Invariant, <1>1, PTL

\* No accept goes through on an invitation that is revoked, before or after.
THEOREM RevokedIsVoid == Spec => []RevokedGrantsNothing
<1>1. Inv => RevokedGrantsNothing
  BY DEF Inv, Redemptions, RevokedGrantsNothing
<1> QED
  BY Invariant, <1>1, PTL

\* Accepting an invitation lowers a role only if the membership was written
\* between the accept's read of it and its own write.
THEOREM NoDemotion == Spec => NoDemotionUnlessOvertaken
<1> DEFINE Keeps == \A u \in User :
        Rank(members'[u]) < Rank(members[u]) =>
            \E i \in Invitation, c \in Click :
                /\ accepting[i][c].phase = "read"
                /\ invitations[i].invitee = u
                /\ accepting[i][c].seen # members[u]
<1>1. Inv /\ [Next]_vars => [Keeps]_vars
  <2> SUFFICES ASSUME Inv, [Next]_vars
               PROVE  [Keeps]_vars
    OBVIOUS
  <2>0. members \in [User -> Role \union {None}]
    BY DEF Inv, TypeOK
  <2>1. \A r \in Role \union {None} : Rank(r) \in Int /\ Rank(r) <= Rank("owner")
    BY Ranks, NoneAssumption DEF Role
  <2>2. CASE members' = members
    BY <2>0, <2>1, <2>2
  <2>3. ASSUME NEW u \in User, NEW M \in SUBSET Module, NEW private \in BOOLEAN,
               NEW passcode \in BOOLEAN, CreateCommits(u, M, private, passcode)
        PROVE  Keeps
    <3>1. members' = [members EXCEPT ![u] = "owner"]
      BY <2>3 DEF CreateCommits
    <3>2. \A v \in User : Rank(members'[v]) >= Rank(members[v])
      <4> SUFFICES ASSUME NEW v \in User
                   PROVE  Rank(members'[v]) >= Rank(members[v])
        OBVIOUS
      <4>1. members'[v] = IF v = u THEN "owner" ELSE members[v]
        BY <2>0, <3>1
      <4>2. members[v] \in Role \union {None}
        BY <2>0
      <4> QED
        BY <2>1, <4>1, <4>2, Ranks
    <3>3. members' \in [User -> Role \union {None}]
      BY <2>0, <3>1 DEF Role
    <3> QED
      BY <2>0, <2>1, <3>2, <3>3
  <2>4. ASSUME NEW u \in User, RecordVisit(u)
        PROVE  Keeps
    <3>1. members' = [members EXCEPT ![u] = Default(members[u], "member")]
      BY <2>4 DEF RecordVisit
    <3>2. \A v \in User : Rank(members'[v]) >= Rank(members[v])
      BY <2>0, <2>1, <3>1, Kept
    <3>3. \A v \in User : Default(members[v], "member") \in Role
      BY <2>0, Kept
    <3>4. members' \in [User -> Role \union {None}]
      BY <2>0, <3>1, <3>3
    <3> QED
      BY <2>0, <2>1, <3>2, <3>4
  <2>5. ASSUME NEW i \in Invitation, NEW c \in Click, AcceptCommits(i, c)
        PROVE  Keeps
    <3> DEFINE v == invitations[i].invitee
               seen == accepting[i][c].seen
               role == invitations[i].role
    <3>1. /\ v \in User /\ role \in Invitable /\ seen \in Role \union {None}
          /\ accepting[i][c].phase = "read"
      BY <2>5 DEF Inv, TypeOK, AcceptCommits, Redemptions, Issues
    <3>2. members' = [members EXCEPT ![v] = HighestRoomRole(seen, role)]
      BY <2>5 DEF AcceptCommits
    <3>3. /\ HighestRoomRole(seen, role) \in Role
          /\ Rank(HighestRoomRole(seen, role)) >= Rank(seen)
      BY <3>1, HigherRole
    <3> SUFFICES ASSUME NEW u \in User, Rank(members'[u]) < Rank(members[u])
                 PROVE  v = u /\ seen # members[u]
      BY <3>1
    <3> HIDE DEF v, seen, role
    <3>4. v = u
      BY <2>0, <2>1, <3>2
    <3>5. members'[u] = HighestRoomRole(seen, role)
      BY <2>0, <3>2, <3>4
    <3> QED
      BY <2>0, <2>1, <3>3, <3>4, <3>5
  <2>6. ASSUME NEW u \in User,
               \/ CreateChecked(u) \/ CreateRollsBack(u) \/ Configure(u) \/ Invite(u)
               \/ Admitted(u) \/ AdmittedByPasscode(u)
        PROVE  members' = members
    BY <2>6 DEF CreateChecked, CreateRollsBack, Configure, VisibilityChecked,
        VisibilityWritten, EnableCommits, ConfigureAdmitted, SetPasscode, EnableAdmitted,
        DisableModule, Invite, Issued, Revoke, IssueChecked, Admitted,
        AdmittedByPasscode, tables
  <2>7. ASSUME NEW i \in Invitation, NEW c \in Click,
               AcceptBegins(i, c) \/ AcceptReads(i, c) \/ AcceptRollsBack(i, c)
        PROVE  members' = members
    BY <2>7 DEF AcceptBegins, AcceptReads, AcceptRollsBack, tables
  <2> HIDE DEF Keeps
  <2> QED
    BY <2>2, <2>3, <2>4, <2>5, <2>6, <2>7 DEF Next, Create, Accept, vars
<1>2. []Inv /\ [][Next]_vars => [][Keeps]_vars
  BY <1>1, PTL
<1> QED
  BY <1>2, Invariant, PTL DEF Spec, NoDemotionUnlessOvertaken

\* A module that requires privacy is on in a public room only through a change of
\* visibility that read the modules before it was on.
THEOREM StaysPrivate == Spec => PrivateUnlessOvertaken
<1> DEFINE Keeps == \A m \in Private :
        (~room'.private /\ m \in modules') /\ (room.private \/ m \notin modules) =>
            \E u \in User :
                configuring[u].phase = "checked" /\ m \notin configuring[u].seen
<1>1. Inv /\ [Next]_vars => [Keeps]_vars
  <2> SUFFICES ASSUME Inv, [Next]_vars
               PROVE  [Keeps]_vars
    OBVIOUS
  <2>0. room \in [creator : User \union {None}, private : BOOLEAN, passcode : BOOLEAN]
    BY DEF Inv, TypeOK
  <2>1. ASSUME NEW u \in User, NEW M \in SUBSET Module, NEW private \in BOOLEAN,
               NEW passcode \in BOOLEAN, CreateCommits(u, M, private, passcode)
        PROVE  Keeps
    BY <2>0, <2>1 DEF CreateCommits, ForcesPrivate
  <2>2. ASSUME NEW u \in User, VisibilityWritten(u)
        PROVE  Keeps
    <3>1. /\ configuring[u].phase = "checked"
          /\ room'.private = configuring[u].private
          /\ modules' = modules
      BY <2>0, <2>2 DEF VisibilityWritten
    <3> QED
      BY <3>1 DEF Inv, Changes, ForcesPrivate
  <2>3. ASSUME NEW u \in User, EnableCommits(u)
        PROVE  Keeps
    <3>1. /\ room'.private = (room.private \/ enabling[u] \in Private)
          /\ modules' = modules \union {enabling[u]}
      BY <2>0, <2>3 DEF EnableCommits
    <3> QED
      BY <3>1
  <2>4. CASE room'.private = room.private /\ modules' \subseteq modules
    BY <2>4
  <2>5. ASSUME NEW u \in User,
               \/ CreateChecked(u) \/ CreateRollsBack(u) \/ VisibilityChecked(u)
               \/ \E flag \in BOOLEAN : ConfigureAdmitted(u, flag) \/ SetPasscode(u, flag)
               \/ \E m \in Module : EnableAdmitted(u, m) \/ DisableModule(u, m)
               \/ Invite(u) \/ Admitted(u) \/ AdmittedByPasscode(u) \/ RecordVisit(u)
        PROVE  room'.private = room.private /\ modules' \subseteq modules
    BY <2>0, <2>5 DEF CreateChecked, CreateRollsBack, VisibilityChecked,
        ConfigureAdmitted, SetPasscode, EnableAdmitted, DisableModule, Invite, Issued,
        Revoke, IssueChecked, Admitted, AdmittedByPasscode, RecordVisit, tables
  <2>6. ASSUME NEW i \in Invitation, NEW c \in Click, Accept(i, c)
        PROVE  room'.private = room.private /\ modules' \subseteq modules
    BY <2>6 DEF Accept, AcceptBegins, AcceptReads, AcceptCommits, AcceptRollsBack, tables
  <2>7. CASE UNCHANGED vars
    BY <2>7
  <2> HIDE DEF Keeps
  <2> QED
    BY <2>1, <2>2, <2>3, <2>4, <2>5, <2>6, <2>7 DEF Next, Create, Configure
<1>2. []Inv /\ [][Next]_vars => [][Keeps]_vars
  BY <1>1, PTL
<1> QED
  BY <1>2, Invariant, PTL DEF Spec, PrivateUnlessOvertaken

=============================================================================
