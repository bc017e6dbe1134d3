------------------------- MODULE PushDeliveryProofs -------------------------
(***************************************************************************)
(* Proofs about PushDelivery for any devices, platforms, row ids, fan-outs *)
(* and window.                                                             *)
(***************************************************************************)
EXTENDS PushDelivery, FiniteSetTheorems, TLAPS

\* The rows a fan-out holds on to.
Held(job) == job.before \union job.listed \union job.targets \union job.dead

Job == [kind : {"none", "notice", "dismissal", "update"},
        phase : {"idle", "subscriptions", "tokens", "sending"},
        except : Device \union {None},
        before : SUBSET Row, listed : SUBSET Row, targets : SUBSET Row, dead : SUBSET Row]

\* A row that is or once was in the table: its address is no newer than the
\* device's, and the row that has its id now is its successor.
Known(q) ==
    /\ q \in Row
    /\ q.address <= address[q.device]
    /\ q.device \in Native => q.platform = Platform[q.device]
    /\ \A r \in rows : q.id = r.id => q.device = r.device /\ q.address <= r.address

Rows ==
    /\ address \in [Device -> 0..MaxAddress]
    /\ wanted \in [Device -> BOOLEAN]
    /\ \A r \in rows : Known(r)
    /\ \A r, q \in rows : r.id = q.id \/ r.device = q.device => r = q

\* NoSecondBuzz for one fan-out.
Quiet(job) ==
    \A s \in job.targets : \A n \in job.before \intersect rows :
        (s.device \notin Native /\ n.device \in Native /\ n.device # job.except)
            => n.platform # s.platform

\* A row that is to be pruned was refused at an address its device has left.
Left(job) == \A q \in job.dead : q.address # address[q.device]

Sound(job) == (\A q \in Held(job) : Known(q)) /\ Quiet(job) /\ Left(job)

Jobs ==
    /\ fanOuts \in [FanOut -> Job]
    /\ \A f \in FanOut : Sound(fanOuts[f])

\* The window slides with every join: it starts at the last one.
Slides ==
    /\ clock \in 0..MaxTime
    /\ announcedAt = lastJoin.at
    /\ lastJoin \in [at : 0..MaxTime \union {None}, told : BOOLEAN]

Inv == Rows /\ Jobs /\ Slides

-----------------------------------------------------------------------------
(* Registrations *)

\* An id is used as long as a row or a fan-out has it.
LEMMA Used ==
  /\ \A r \in rows : r.id \in UsedIds
  /\ \A f \in FanOut : \A q \in Held(fanOuts[f]) : q.id \in UsedIds
BY DEF UsedIds, Held

\* Rows that go away disturb no fan-out.
LEMMA FewerRows ==
  ASSUME Rows, Jobs, rows' \subseteq rows, UNCHANGED <<address, fanOuts>>,
         wanted' \in [Device -> BOOLEAN]
  PROVE  Rows' /\ Jobs'
<1>1. ASSUME NEW q, Known(q)
      PROVE  Known(q)'
  BY <1>1 DEF Known
<1>2. Rows'
  BY <1>1 DEF Rows
<1>3. ASSUME NEW f \in FanOut
      PROVE  Sound(fanOuts[f])'
  <2>1. Sound(fanOuts[f])
    BY DEF Jobs
  <2>2. (\A q \in Held(fanOuts[f]) : Known(q))'
    BY <1>1, <2>1 DEF Sound, Held
  <2>3. Quiet(fanOuts[f])'
    BY <2>1 DEF Sound, Quiet
  <2>4. Left(fanOuts[f])'
    BY <2>1 DEF Sound, Left
  <2> QED
    BY <2>2, <2>3, <2>4 DEF Sound
<1> QED
  BY <1>2, <1>3 DEF Jobs

\* Addresses only move on, so an address once left stays left.
LEMMA NewAddressStep ==
  ASSUME Rows, Jobs, NEW d \in Device, NewAddress(d)
  PROVE  Rows' /\ Jobs'
<1>0. /\ address \in [Device -> 0..MaxAddress] /\ MaxAddress \in Nat
      /\ address[d] < MaxAddress /\ address' = [address EXCEPT ![d] = @ + 1]
      /\ rows' = rows /\ wanted' = wanted /\ fanOuts' = fanOuts
  BY BoundAssumption DEF Rows, NewAddress
<1>1. /\ address' \in [Device -> 0..MaxAddress]
      /\ \A e \in Device : address'[e] = IF e = d THEN address[e] + 1 ELSE address[e]
  BY <1>0
<1>2. ASSUME NEW q, Known(q)
      PROVE  Known(q)' /\ (q.address # address[q.device] => q.address # address'[q.device])
  <2>1. q.device \in Device /\ q.address \in Nat
    BY <1>0, <1>2 DEF Known, Row
  <2>2. address[q.device] \in Nat
    BY <1>0, <2>1
  <2> QED
    BY <1>0, <1>1, <1>2, <2>1, <2>2 DEF Known
<1>3. Rows'
  BY <1>0, <1>1, <1>2 DEF Rows
<1>4. ASSUME NEW f \in FanOut
      PROVE  Sound(fanOuts[f])'
  <2>1. Sound(fanOuts[f])
    BY DEF Jobs
  <2>2. (\A q \in Held(fanOuts[f]) : Known(q))'
    BY <1>0, <1>2, <2>1 DEF Sound, Held
  <2>3. Quiet(fanOuts[f])'
    BY <1>0, <2>1 DEF Sound, Quiet
  <2>4. Left(fanOuts[f])'
    BY <1>0, <1>2, <2>1 DEF Sound, Left, Held
  <2> QED
    BY <2>2, <2>3, <2>4 DEF Sound
<1> QED
  BY <1>0, <1>3, <1>4 DEF Jobs

\* A registration that is written keeps the id of the row it replaces and brings no
\* row back that a fan-out saw before.
LEMMA RegisterStep ==
  ASSUME Rows, Jobs, NEW d \in Device, NEW platform \in {"android", "ios", "desktop", "web"},
         d \in Native => platform = Platform[d],
         Register(d, platform)
  PROVE  Rows' /\ Jobs'
<1>0. /\ address \in [Device -> 0..MaxAddress] /\ MaxAddress \in Nat /\ address[d] # 0
      /\ address' = address /\ fanOuts' = fanOuts /\ wanted' \in [Device -> BOOLEAN]
  BY BoundAssumption DEF Rows, Register
<1>1. PICK id \in IF RowOf(d) = {} THEN Id \ UsedIds ELSE {r.id : r \in RowOf(d)} :
        rows' = (rows \ RowOf(d)) \union
            {[id |-> id, device |-> d, address |-> address[d], platform |-> platform]}
  BY DEF Register
<1>12. PICK new : new = [id |-> id, device |-> d, address |-> address[d], platform |-> platform]
  OBVIOUS
<1>2. new.id = id /\ new.device = d /\ new.address = address[d] /\ new.platform = platform
  BY <1>12
<1>3. \/ id \in Id \ UsedIds /\ RowOf(d) = {}
      \/ \E r \in rows : r.device = d /\ r.id = id
  BY <1>1 DEF RowOf
<1>4. new \in Row
  <2>1. id \in Id
    BY <1>3 DEF Rows, Known, Row
  <2>2. address[d] \in 1..MaxAddress
    BY <1>0
  <2> QED
    BY <1>12, <2>1, <2>2 DEF Row
<1>5. rows' = (rows \ RowOf(d)) \union {new}
  BY <1>1, <1>12
<1>6. \A r \in rows' : r = new \/ (r \in rows /\ r.device # d)
  BY <1>5 DEF RowOf
<1>7. ASSUME NEW q, Known(q), q.id \in UsedIds
      PROVE  Known(q)'
  <2>1. ASSUME q.id = id
        PROVE  q.device = d /\ q.address <= address[d]
    BY <1>3, <1>7, <2>1 DEF Known
  <2> QED
    BY <1>0, <1>2, <1>6, <1>7, <2>1 DEF Known
<1>8. \A r \in rows : r.id = id => r.device = d
  BY <1>3, Used DEF Rows
<1>9. Known(new)'
  <2>1. \A r \in rows' : new.id = r.id => r = new
    BY <1>2, <1>6, <1>8
  <2>2. address[d] <= address[d]
    BY <1>0
  <2> QED
    BY <1>0, <1>2, <1>4, <2>1, <2>2 DEF Known
<1>10. Rows'
  <2>1. \A r \in rows' : Known(r)'
    BY <1>6, <1>7, <1>9, Used DEF Rows
  <2>2. \A r, q \in rows' : r.id = q.id \/ r.device = q.device => r = q
    BY <1>2, <1>6, <1>8 DEF Rows
  <2> QED
    BY <1>0, <2>1, <2>2 DEF Rows
<1>11. ASSUME NEW f \in FanOut
       PROVE  Sound(fanOuts[f])'
  <2>1. Sound(fanOuts[f])
    BY DEF Jobs
  <2>2. (\A q \in Held(fanOuts[f]) : Known(q))'
    BY <1>0, <1>7, <2>1, Used DEF Sound, Held
  <2>3. ASSUME NEW n \in fanOuts[f].before \intersect rows', n.device \in Native
        PROVE  n \in rows
    <3> SUFFICES ASSUME n = new
                 PROVE  n \in rows
      BY <1>6
    <3>1. Known(n) /\ n.id \in UsedIds
      BY <2>1, Used DEF Sound, Held
    <3>2. PICK r \in rows : r.device = d /\ r.id = id
      BY <1>2, <1>3, <3>1
    <3>3. Known(r) /\ n.address <= r.address /\ r.address <= address[d]
      BY <1>2, <3>1, <3>2 DEF Known, Rows
    <3>4. r.address = address[d]
      BY <1>0, <1>2, <3>2, <3>3 DEF Known, Row
    <3>5. r.platform = platform
      BY <1>2, <2>3, <3>2, <3>3 DEF Known
    <3>6. r = new
      BY <1>12, <3>2, <3>3, <3>4, <3>5 DEF Known, Row
    <3> QED
      BY <3>6
  <2>4. Quiet(fanOuts[f])'
    BY <1>0, <2>1, <2>3 DEF Sound, Quiet
  <2>5. Left(fanOuts[f])'
    BY <1>0, <2>1 DEF Sound, Left
  <2> QED
    BY <2>2, <2>4, <2>5 DEF Sound
<1> QED
  BY <1>0, <1>10, <1>11 DEF Jobs

LEMMA RegistrationStep ==
  ASSUME Rows, Jobs, NEW d \in Device, Registration(d)
  PROVE  Rows' /\ Jobs'
<1>1. CASE NewAddress(d)
  BY <1>1, NewAddressStep
<1>2. CASE RegisterSubscription(d)
  <2>1. PICK platform \in {Platform[d], "web"} : Register(d, platform)
    BY <1>2 DEF RegisterSubscription
  <2>2. platform \in {"android", "ios", "desktop", "web"} /\ d \notin Native
    BY <1>2, DeviceAssumption DEF RegisterSubscription
  <2> QED
    BY <2>1, <2>2, RegisterStep
<1>3. CASE RegisterToken(d)
  <2>1. Platform[d] \in {"android", "ios", "desktop", "web"}
    BY DeviceAssumption
  <2> QED
    BY <1>3, <2>1, RegisterStep DEF RegisterToken
<1>4. CASE Unregister(d)
  BY <1>4, FewerRows DEF Unregister, Rows
<1> QED
  BY <1>1, <1>2, <1>3, <1>4 DEF Registration

-----------------------------------------------------------------------------
(* Fan-outs *)

\* A fan-out that moves on holds rows it held or reads now.
LEMMA JobStep ==
  ASSUME Jobs, UNCHANGED <<rows, address>>, \A r \in rows : Known(r),
         NEW f \in FanOut, NEW job \in Job,
         fanOuts' = [fanOuts EXCEPT ![f] = job],
         Held(job) \subseteq Held(fanOuts[f]) \union rows,
         Quiet(job), Left(job)
  PROVE  Jobs'
<1>1. fanOuts' \in [FanOut -> Job]
  BY DEF Jobs
<1>2. ASSUME NEW j, Sound(j)
      PROVE  Sound(j)'
  BY <1>2 DEF Sound, Quiet, Left, Known
<1>3. Sound(job)
  BY DEF Jobs, Sound
<1>4. ASSUME NEW g \in FanOut
      PROVE  Sound(fanOuts[g])'
  <2>1. PICK j : j = fanOuts'[g]
    OBVIOUS
  <2>2. j = IF g = f THEN job ELSE fanOuts[g]
    BY <2>1 DEF Jobs
  <2>3. Sound(j)
    BY <1>3, <2>2 DEF Jobs
  <2> QED
    BY <1>2, <2>1, <2>3
<1> QED
  BY <1>1, <1>4 DEF Jobs

\* The rows are known, and no step of a fan-out but a deletion writes them.
LEMMA BegunStep ==
  ASSUME Rows, Jobs, NEW f \in FanOut, NEW kind \in {"notice", "dismissal", "update"},
         NEW except \in Device \union {None}, Begun(f, kind, except),
         UNCHANGED registrations
  PROVE  Rows' /\ Jobs'
<1>1. UNCHANGED <<rows, address, wanted>>
  BY DEF registrations
<1>2. rows \subseteq Row
  BY DEF Rows, Known
<1>3. PICK job : job = [Idle EXCEPT
            !.kind = kind, !.except = except, !.before = rows,
            !.phase = IF kind = "update" THEN "tokens" ELSE "subscriptions"]
  OBVIOUS
<1>4. /\ job \in Job
      /\ job.before = rows /\ job.listed = {} /\ job.targets = {} /\ job.dead = {}
  BY <1>2, <1>3 DEF Job, Idle
<1>5. fanOuts' = [fanOuts EXCEPT ![f] = job]
  BY <1>3 DEF Begun
<1>6. Held(job) \subseteq Held(fanOuts[f]) \union rows /\ Quiet(job) /\ Left(job)
  BY <1>4 DEF Held, Quiet, Left
<1>7. \A r \in rows : Known(r)
  BY DEF Rows
<1>8. Jobs'
  BY <1>1, <1>4, <1>5, <1>6, <1>7, JobStep
<1>9. Rows'
  BY <1>1 DEF Rows, Known
<1> QED
  BY <1>8, <1>9

LEMMA DeliveryStep ==
  ASSUME Rows, Jobs, NEW f \in FanOut, Delivery(f)
  PROVE  Rows' /\ Jobs'
<1>0. /\ rows \subseteq Row /\ \A r \in rows : Known(r)
      /\ fanOuts \in [FanOut -> Job] /\ fanOuts[f] \in Job /\ Sound(fanOuts[f])
  BY DEF Rows, Jobs, Known
<1>1. ASSUME UNCHANGED <<rows, address, wanted>>
      PROVE  Rows'
  BY <1>1 DEF Rows, Known
<1>2. CASE NotifyChatMessage(f)
  BY <1>2, BegunStep DEF NotifyChatMessage
<1>3. CASE AnnounceAppUpdate(f)
  BY <1>3, BegunStep DEF AnnounceAppUpdate
<1>4. CASE NotifyPeerJoined(f)
  <2>1. CASE Swept = None
    BY <1>4, <2>1, BegunStep DEF NotifyPeerJoined
  <2>2. CASE Swept # None
    <3>1. UNCHANGED <<rows, address, wanted, fanOuts>>
      BY <1>4, <2>2 DEF NotifyPeerJoined, registrations
    <3> QED
      BY <3>1, FewerRows DEF Rows
  <2> QED
    BY <2>1, <2>2
<1>5. ASSUME NEW d \in Device, DismissOtherDevices(f, d)
      PROVE  Rows' /\ Jobs'
  BY <1>5, BegunStep DEF DismissOtherDevices
<1>6. CASE ListSubscriptions(f)
  <2>1. PICK job : job = [fanOuts[f] EXCEPT
            !.phase = "tokens", !.listed = Listed(f, Device \ Native)]
    OBVIOUS
  <2>2. Listed(f, Device \ Native) \subseteq rows
    BY DEF Listed
  <2>3. /\ job \in Job /\ job.listed \subseteq rows
        /\ job.before = fanOuts[f].before /\ job.targets = fanOuts[f].targets
        /\ job.dead = fanOuts[f].dead /\ job.except = fanOuts[f].except
    BY <1>0, <2>1, <2>2 DEF Job
  <2>4. /\ UNCHANGED <<rows, address, wanted>>
        /\ fanOuts' = [fanOuts EXCEPT ![f] = job]
    BY <1>6, <2>1 DEF ListSubscriptions, registrations
  <2>5. Held(job) \subseteq Held(fanOuts[f]) \union rows /\ Quiet(job) /\ Left(job)
    BY <1>0, <2>3 DEF Held, Sound, Quiet, Left
  <2> QED
    BY <1>0, <1>1, <2>3, <2>4, <2>5, JobStep
<1>7. CASE ListTokens(f)
  <2> DEFINE tokens == Listed(f, Native)
             web == SuppressNativeDuplicates(fanOuts[f].listed, tokens)
  <2>1. PICK sent \in SUBSET tokens, shown \in SUBSET web :
          fanOuts' = [fanOuts EXCEPT ![f] = [fanOuts[f] EXCEPT
            !.phase = "sending", !.listed = {}, !.targets = sent \union shown]]
    <3>1. PICK sent \in IF fanOuts[f].kind = "update"
                   THEN {{t \in tokens : t.platform = p} : p \in {"android", "ios"}}
                   ELSE {tokens} :
            fanOuts' = [fanOuts EXCEPT ![f] = [fanOuts[f] EXCEPT
              !.phase = "sending", !.listed = {},
              !.targets = sent \union (IF fanOuts[f].kind = "dismissal"
                                       THEN DropSilentPushIntolerant(web) ELSE web)]]
      BY <1>7 DEF ListTokens
    <3>2. sent \in SUBSET tokens
      BY <3>1
    <3>3. (IF fanOuts[f].kind = "dismissal" THEN DropSilentPushIntolerant(web) ELSE web)
            \in SUBSET web
      BY DEF DropSilentPushIntolerant
    <3> HIDE DEF web, tokens
    <3> QED
      BY <3>1, <3>2, <3>3
  <2>2. PICK job : job = [fanOuts[f] EXCEPT
            !.phase = "sending", !.listed = {}, !.targets = sent \union shown]
    OBVIOUS
  <2>3. /\ \A t \in sent : t \in rows /\ t.device \in Native
        /\ shown \subseteq fanOuts[f].listed
        /\ \A s \in shown, n \in rows :
             n.device \in Native /\ n.device # fanOuts[f].except => n.platform # s.platform
    BY <2>1 DEF Listed, SuppressNativeDuplicates
  <2>4. sent \union shown \subseteq Row
    BY <1>0, <2>3 DEF Job
  <2>5. /\ job \in Job /\ job.listed = {} /\ job.targets = sent \union shown
        /\ job.before = fanOuts[f].before
        /\ job.dead = fanOuts[f].dead /\ job.except = fanOuts[f].except
    BY <1>0, <2>2, <2>4 DEF Job
  <2>6. /\ UNCHANGED <<rows, address, wanted>>
        /\ fanOuts' = [fanOuts EXCEPT ![f] = job]
    BY <1>7, <2>1, <2>2 DEF ListTokens, registrations
  <2>7. Held(job) \subseteq Held(fanOuts[f]) \union rows /\ Quiet(job) /\ Left(job)
    BY <1>0, <2>3, <2>5 DEF Held, Sound, Quiet, Left
  <2> QED
    BY <1>0, <1>1, <2>5, <2>6, <2>7, JobStep
<1>8. ASSUME NEW r \in fanOuts[f].targets, Answered(f, r)
      PROVE  Rows' /\ Jobs'
  <2>1. PICK job : job = [fanOuts[f] EXCEPT !.targets = @ \ {r}]
    OBVIOUS
  <2>2. /\ job \in Job /\ job.targets \subseteq fanOuts[f].targets
        /\ job.before = fanOuts[f].before /\ job.listed = fanOuts[f].listed
        /\ job.dead = fanOuts[f].dead /\ job.except = fanOuts[f].except
    BY <1>0, <2>1 DEF Job
  <2>3. /\ UNCHANGED <<rows, address, wanted>>
        /\ fanOuts' = [fanOuts EXCEPT ![f] = job]
    BY <1>8, <2>1 DEF Answered, registrations
  <2>4. Held(job) \subseteq Held(fanOuts[f]) \union rows /\ Quiet(job) /\ Left(job)
    BY <1>0, <2>2 DEF Held, Sound, Quiet, Left
  <2> QED
    BY <1>0, <1>1, <2>2, <2>3, <2>4, JobStep
<1>9. ASSUME NEW r \in fanOuts[f].targets, Gone(f, r)
      PROVE  Rows' /\ Jobs'
  <2>1. PICK job : job = [fanOuts[f] EXCEPT !.targets = @ \ {r}, !.dead = @ \union {r}]
    OBVIOUS
  <2>2. /\ job \in Job /\ job.targets \subseteq fanOuts[f].targets
        /\ job.before = fanOuts[f].before /\ job.listed = fanOuts[f].listed
        /\ job.dead = fanOuts[f].dead \union {r} /\ job.except = fanOuts[f].except
    BY <1>0, <2>1 DEF Job
  <2>3. /\ UNCHANGED <<rows, address, wanted>>
        /\ r.address # address[r.device]
        /\ fanOuts' = [fanOuts EXCEPT ![f] = job]
    BY <1>9, <2>1 DEF Gone, registrations
  <2>4. Held(job) \subseteq Held(fanOuts[f]) \union rows /\ Quiet(job) /\ Left(job)
    BY <1>0, <2>2, <2>3 DEF Held, Sound, Quiet, Left
  <2> QED
    BY <1>0, <1>1, <2>2, <2>3, <2>4, JobStep
<1>10. ASSUME NEW r \in fanOuts[f].dead, DeleteById(f, r)
       PROVE  Rows' /\ Jobs'
  <2>1. PICK job : job = [fanOuts[f] EXCEPT !.dead = @ \ {r}]
    OBVIOUS
  <2>2. /\ job \in Job /\ job.targets = fanOuts[f].targets
        /\ job.before = fanOuts[f].before /\ job.listed = fanOuts[f].listed
        /\ job.dead \subseteq fanOuts[f].dead /\ job.except = fanOuts[f].except
    BY <1>0, <2>1 DEF Job
  <2>3. /\ UNCHANGED <<address, wanted>> /\ rows' \subseteq rows
        /\ fanOuts' = [fanOuts EXCEPT ![f] = job]
    BY <1>10, <2>1 DEF DeleteById
  <2>4. ASSUME NEW q, Known(q)
        PROVE  Known(q)'
    BY <2>3, <2>4 DEF Known
  <2>5. Rows'
    BY <2>3, <2>4 DEF Rows
  <2>6. ASSUME NEW j, Sound(j)
        PROVE  Sound(j)'
    <3>1. (\A q \in Held(j) : Known(q))'
      BY <2>4, <2>6 DEF Sound, Held
    <3> QED
      BY <2>3, <2>6, <3>1 DEF Sound, Quiet, Left
  <2>7. Sound(job)
    BY <1>0, <2>2 DEF Sound, Held, Quiet, Left
  <2>8. ASSUME NEW g \in FanOut
        PROVE  Sound(fanOuts[g])'
    <3>1. PICK j : j = fanOuts'[g]
      OBVIOUS
    <3>2. j = IF g = f THEN job ELSE fanOuts[g]
      BY <1>0, <2>3, <3>1
    <3>3. Sound(j)
      BY <2>7, <3>2 DEF Jobs
    <3> QED
      BY <2>6, <3>1, <3>3
  <2>9. fanOuts' \in [FanOut -> Job]
    BY <1>0, <2>2, <2>3
  <2> QED
    BY <2>5, <2>8, <2>9 DEF Jobs
<1>11. CASE Finished(f)
  <2>1. /\ UNCHANGED <<rows, address, wanted>>
        /\ fanOuts' = [fanOuts EXCEPT ![f] = Idle]
    BY <1>11 DEF Finished, registrations
  <2>2. Idle \in Job
    BY DEF Job, Idle
  <2>3. Held(Idle) \subseteq Held(fanOuts[f]) \union rows /\ Quiet(Idle) /\ Left(Idle)
    BY DEF Held, Quiet, Left, Idle
  <2> QED
    BY <1>0, <1>1, <2>1, <2>2, <2>3, JobStep
<1> QED
  BY <1>2, <1>3, <1>4, <1>5, <1>6, <1>7, <1>8, <1>9, <1>10, <1>11 DEF Delivery

-----------------------------------------------------------------------------
(* The strengthened invariant *)

\* The window: time passes, and every join moves its start.
LEMMA SlidesStep ==
  ASSUME Slides, [Next]_vars
  PROVE  Slides'
<1>1. CASE Tick
  BY <1>1, BoundAssumption DEF Slides, Tick
<1>2. ASSUME NEW f \in FanOut, NotifyPeerJoined(f)
      PROVE  Slides'
  BY <1>2 DEF Slides, NotifyPeerJoined, WasJustAnnouncedAsJoined
<1>3. CASE UNCHANGED window
  BY <1>3 DEF Slides, window
<1>4. ASSUME NEW d \in Device, Registration(d)
      PROVE  UNCHANGED window
  BY <1>4 DEF Registration, NewAddress, RegisterSubscription, RegisterToken, Register,
      Unregister
<1>5. ASSUME NEW f \in FanOut, Delivery(f), ~NotifyPeerJoined(f)
      PROVE  UNCHANGED window
  BY <1>5 DEF Delivery, NotifyChatMessage, AnnounceAppUpdate, DismissOtherDevices,
      ListSubscriptions, ListTokens, Finished, Answered, Gone, DeleteById, window
<1> QED
  BY <1>1, <1>2, <1>3, <1>4, <1>5 DEF Next, vars, window

\* Every reachable state satisfies the strengthened invariant.
THEOREM Invariant == Spec => []Inv
<1>1. Init => Inv
  <2> SUFFICES ASSUME Init
               PROVE  Inv
    OBVIOUS
  <2>1. Rows
    BY BoundAssumption DEF Init, Rows
  <2>2. Idle \in Job /\ Held(Idle) = {} /\ Quiet(Idle) /\ Left(Idle)
    BY DEF Job, Idle, Held, Quiet, Left
  <2>3. Jobs
    BY <2>2 DEF Init, Jobs, Sound
  <2>4. Slides
    BY BoundAssumption DEF Init, Slides
  <2> QED
    BY <2>1, <2>3, <2>4 DEF Inv
<1>2. Inv /\ [Next]_vars => Inv'
  <2> SUFFICES ASSUME Inv, [Next]_vars
               PROVE  Rows' /\ Jobs'
    BY SlidesStep DEF Inv
  <2>1. Rows /\ Jobs
    BY DEF Inv
  <2>2. CASE UNCHANGED <<rows, address, wanted, fanOuts>>
    BY <2>1, <2>2, FewerRows DEF Rows
  <2>3. Tick \/ UNCHANGED vars => UNCHANGED <<rows, address, wanted, fanOuts>>
    BY DEF Tick, vars, registrations
  <2> QED
    BY <2>1, <2>2, <2>3, RegistrationStep, DeliveryStep DEF Next
<1> QED
  BY <1>1, <1>2, PTL DEF Spec

-----------------------------------------------------------------------------
(* The properties *)

\* Type correctness, and that upserts and deletions in any order keep one row per
\* device.
THEOREM TypeCorrect == Spec => []TypeOK
<1>1. Inv => TypeOK
  <2> SUFFICES ASSUME Inv
               PROVE  TypeOK
    OBVIOUS
  <2>1. ASSUME NEW d \in Device
        PROVE  Cardinality(RowOf(d)) <= 1
    <3>1. CASE RowOf(d) = {}
      BY <3>1, FS_EmptySet
    <3>2. ASSUME NEW r \in RowOf(d)
          PROVE  Cardinality(RowOf(d)) <= 1
      <4>1. RowOf(d) = {r}
        BY DEF RowOf, Inv, Rows
      <4>2. Cardinality(RowOf(d)) = 1
        BY <4>1, FS_Singleton
      <4> QED
        BY <4>2
    <3> QED
      BY <3>1, <3>2
  <2>2. \A f \in FanOut : fanOuts[f] \in Job
    BY DEF Inv, Jobs
  <2>3. announcedAt \in 0..MaxTime \union {None}
    BY DEF Inv, Slides
  <2> QED
    BY <2>1, <2>2, <2>3 DEF Inv, Rows, Known, Slides, Job, TypeOK
<1> QED
  BY Invariant, <1>1, PTL

\* suppressNativeDuplicates: a browser of a platform is pushed to only if no app of
\* that platform was registered all along, for any devices and fan-outs.
THEOREM OneBuzz == Spec => []NoSecondBuzz
<1>1. Inv => NoSecondBuzz
  BY DEF Inv, Jobs, Sound, Quiet, NoSecondBuzz
<1> QED
  BY Invariant, <1>1, PTL

\* Pruning loses a device that is registered at its current address only if its row
\* was re-registered in place while the fan-out was sending.
THEOREM PruningIsExact == Spec => LostOnlyIfReplaced
<1> DEFINE Keeps == \A r \in rows :
        (r.address = address[r.device] /\ wanted'[r.device] /\ RowOf(r.device)' = {}) =>
            \E f \in FanOut : \E q \in fanOuts[f].dead :
                q.id = r.id /\ q.address # r.address
<1>1. Inv /\ [Next]_vars => [Keeps]_vars
  <2> SUFFICES ASSUME Inv, Next, NEW r \in rows, r.address = address[r.device],
                      wanted'[r.device], RowOf(r.device)' = {}
               PROVE  \E f \in FanOut : \E q \in fanOuts[f].dead :
                        q.id = r.id /\ q.address # r.address
    OBVIOUS
  <2>0. r.device \in Device /\ r \notin rows'
    BY DEF Inv, Rows, Known, Row, RowOf
  <2>1. ASSUME NEW d \in Device, Registration(d)
        PROVE  FALSE
    <3>1. ASSUME NEW platform, Register(d, platform)
          PROVE  FALSE
      <4>1. PICK new : new.device = d /\ rows' = (rows \ RowOf(d)) \union {new}
        BY <3>1 DEF Register
      <4>2. CASE r.device = d
        BY <4>1, <4>2 DEF RowOf
      <4>3. CASE r.device # d
        BY <2>0, <4>1, <4>3 DEF RowOf
      <4> QED
        BY <4>2, <4>3
    <3>2. CASE Unregister(d)
      BY <2>0, <3>2 DEF Unregister, RowOf, Inv, Rows
    <3> QED
      BY <2>0, <2>1, <3>1, <3>2 DEF Registration, NewAddress, RegisterSubscription,
          RegisterToken
  <2>2. ASSUME NEW f \in FanOut, NEW q \in fanOuts[f].dead, DeleteById(f, q)
        PROVE  q.id = r.id /\ q.address # r.address
    <3>1. q.id = r.id
      BY <2>0, <2>2 DEF DeleteById
    <3>2. Known(q) /\ q.address # address[q.device]
      BY DEF Inv, Jobs, Sound, Held, Left
    <3> QED
      BY <3>1, <3>2 DEF Known
  <2>3. ASSUME NEW f \in FanOut, Delivery(f),
               \A q \in fanOuts[f].dead : ~DeleteById(f, q)
        PROVE  rows' = rows
    BY <2>3 DEF Delivery, NotifyChatMessage, AnnounceAppUpdate, NotifyPeerJoined,
        DismissOtherDevices, ListSubscriptions, ListTokens, Finished, Answered, Gone,
        registrations
  <2>4. ~Tick
    BY <2>0 DEF Tick, registrations
  <2> QED
    BY <2>0, <2>1, <2>2, <2>3, <2>4 DEF Next
<1>2. []Inv /\ [][Next]_vars => [][Keeps]_vars
  BY <1>1, PTL
<1> QED
  BY <1>2, Invariant, PTL DEF Spec, LostOnlyIfReplaced

\* wasJustAnnouncedAsJoined: a join is announced exactly if none came within the
\* window before it, for any window.
THEOREM WindowSlides == Spec => AnnouncedAfterQuiet
<1> DEFINE Keeps == lastJoin'.at # lastJoin.at =>
        (lastJoin'.told <=> lastJoin.at = None \/ lastJoin'.at - lastJoin.at >= Window)
<1>1. Inv /\ [Next]_vars => [Keeps]_vars
  <2> SUFFICES ASSUME Inv, Next, lastJoin'.at # lastJoin.at
               PROVE  lastJoin'.told <=>
                        lastJoin.at = None \/ lastJoin'.at - lastJoin.at >= Window
    OBVIOUS
  <2>1. PICK f \in FanOut : NotifyPeerJoined(f)
    BY DEF Next, Tick, Registration, NewAddress, RegisterSubscription, RegisterToken,
        Register, Unregister, Delivery, NotifyChatMessage, AnnounceAppUpdate,
        DismissOtherDevices, ListSubscriptions, ListTokens, Finished, Answered, Gone,
        DeleteById, window
  <2>2. lastJoin'.at = clock /\ lastJoin'.told = (Swept = None)
    BY <2>1 DEF NotifyPeerJoined, WasJustAnnouncedAsJoined
  <2>3. announcedAt = lastJoin.at
    BY DEF Inv, Slides
  <2>4. Swept = None <=> lastJoin.at = None \/ clock - lastJoin.at >= Window
    BY <2>3, NoneAssumption DEF Swept, Inv, Slides
  <2> QED
    BY <2>2, <2>4
<1>2. []Inv /\ [][Next]_vars => [][Keeps]_vars
  BY <1>1, PTL
<1> QED
  BY <1>2, Invariant, PTL DEF Spec, AnnouncedAfterQuiet

=============================================================================
