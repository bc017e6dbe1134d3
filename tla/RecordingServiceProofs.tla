----------------------- MODULE RecordingServiceProofs -----------------------
(***************************************************************************)
(* Proofs about RecordingService for any producers, any calls of start()   *)
(* and stop(), any range of ports and any number of attempts.              *)
(*                                                                         *)
(* The lemmas are in four layers: what one take t may look like (Shape),   *)
(* what a table T of takes and a set U of used ports owe each other        *)
(* (Books), how a take is tied to the calls it belongs to (Linked), and    *)
(* one lemma for each action of the service.                               *)
(***************************************************************************)
EXTENDS RecordingService, FiniteSetTheorems, TLAPS

-----------------------------------------------------------------------------
(* One take *)

\* At most one cause has begun to finalize the take.
Single(t) == \A c, d \in Cause : c # d => t.fin[c] = "none" \/ t.fin[d] = "none"

\* The take's ports are its own.
Held(t) == \A c \in Cause : t.fin[c] \in {"none", "quitting"}

\* How far a take is says what it holds: ports from the transports on, a process
\* from the launch on, media from the verification on, and all of it until a
\* finalization sees the process exit.
Shape(t) ==
    /\ t \in Take
    /\ t.phase # "registered" => (\A c \in Cause : t.fin[c] = "none") /\ t.row = "open"
    /\ t.phase \in {"transport", "failed", "starved"} => t.ports = {}
    /\ t.phase \in {"transport", "launching", "failed", "starved"} => t.ffmpeg # "running"
    /\ t.phase \in {"verifying", "persisting"} => t.ffmpeg = "running"
    /\ t.phase = "persisting" => t.temp
    /\ t.phase = "registered" => (t.ffmpeg = "running" <=> Held(t))
    /\ t.phase = "registered" /\ t.ffmpeg = "running" => t.temp /\ t.row = "open"
    /\ Single(t) =>
        /\ t.row = "empty" => t.temp
        /\ t.row = "kept" => ~t.temp
        /\ \A c \in Cause : /\ t.fin[c] # "empty"
                            /\ t.fin[c] = "remuxing" => t.temp /\ t.row = "open"

Begin(t, c) ==
    [t EXCEPT !.fin[c] = IF t.ffmpeg = "running" THEN "quitting" ELSE AfterExit(t)]

Stored(t, c, row, temp) == [t EXCEPT !.fin[c] = "done", !.row = row, !.temp = temp]

Exited(t) ==
    [t EXCEPT !.ffmpeg = "exited",
              !.fin = [c \in Cause |-> IF @[c] = "quitting" THEN AfterExit(t) ELSE @[c]]]

LEMMA TakeFields ==
  ASSUME NEW t \in Take
  PROVE  /\ t.phase \in TakePhase /\ t.attempt \in 1..MaxAttempts
         /\ t.ports \subseteq PortMin..PortMax /\ t.ffmpeg \in {"none", "running", "exited"}
         /\ t.video \in Producer \union {None} /\ t.temp \in BOOLEAN
         /\ t.row \in {"open", "kept", "empty"} /\ t.fin \in [Cause -> FinPhase]
BY DEF Take

\* Finalizing a registered take for a new cause: a process that runs is asked to
\* quit; one that does not was asked before, for another cause.
LEMMA BeginShape ==
  ASSUME NEW t, Shape(t), t.phase = "registered", NEW c \in Cause, t.fin[c] = "none"
  PROVE  /\ Shape(Begin(t, c))
         /\ Begin(t, c).phase = t.phase /\ Begin(t, c).ports = t.ports
         /\ Begin(t, c).fin[c] \in Finalizing
         /\ \A d \in Cause \ {c} : Begin(t, c).fin[d] = t.fin[d]
         /\ Held(Begin(t, c)) <=> Held(t)
         /\ t.ffmpeg = "running" <=> Held(t)
         /\ Single(Begin(t, c)) => t.ffmpeg = "running"
         /\ Single(Begin(t, c)) => Single(t)
<1>1. t \in Take
  BY DEF Shape
<1>2. PICK x : x = IF t.ffmpeg = "running" THEN "quitting" ELSE AfterExit(t)
  OBVIOUS
<1>3. /\ x \in {"quitting", "remuxing", "empty"}
      /\ x = "quitting" <=> t.ffmpeg = "running"
  BY <1>2 DEF AfterExit
<1>4. PICK u : u = [t EXCEPT !.fin[c] = x]
  OBVIOUS
<1>5. PICK f : f = [t.fin EXCEPT ![c] = x]
  OBVIOUS
<1>6. u = [t EXCEPT !.fin = f]
  BY <1>4, <1>5
<1>7. /\ f \in [Cause -> FinPhase] /\ f[c] = x
      /\ \A d \in Cause \ {c} : f[d] = t.fin[d]
  BY <1>1, <1>3, <1>5, TakeFields DEF FinPhase
<1>8. /\ u \in Take /\ u.fin = f /\ u.phase = t.phase /\ u.ports = t.ports
      /\ u.ffmpeg = t.ffmpeg /\ u.row = t.row /\ (u.temp <=> t.temp)
  BY <1>1, <1>6, <1>7 DEF Take
<1>9. Begin(t, c) = u
  BY <1>2, <1>4 DEF Begin
<1>10. t.ffmpeg = "running" <=> Held(t)
  BY DEF Shape
<1>11. Held(u) <=> Held(t)
  BY <1>3, <1>7, <1>8, <1>10 DEF Held
<1>12. Single(u) => \A d \in Cause : t.fin[d] = "none"
  BY <1>3, <1>7, <1>8 DEF Single
<1>13. Single(u) => t.ffmpeg = "running"
  BY <1>10, <1>12 DEF Held
<1>14. Single(u) => Single(t)
  BY <1>12 DEF Single
<1>15. Single(u) => \A d \in Cause : u.fin[d] \in {"none", "quitting"}
  BY <1>3, <1>7, <1>8, <1>12, <1>13
<1>16. Shape(u)
  BY <1>8, <1>10, <1>11, <1>13, <1>14, <1>15 DEF Shape
<1> QED
  BY <1>3, <1>7, <1>8, <1>9, <1>10, <1>11, <1>13, <1>14, <1>16 DEF Finalizing

\* What a finalization stores does not touch what the others wait for.
LEMMA StoreShape ==
  ASSUME NEW t, Shape(t), NEW c \in Cause, t.fin[c] \in {"remuxing", "empty"},
         NEW row \in {"kept", "empty"}, NEW temp \in BOOLEAN,
         row = "kept" => ~temp,
         t.fin[c] = "remuxing" /\ row = "empty" => (temp <=> t.temp),
         NEW u, u = Stored(t, c, row, temp)
  PROVE  /\ Shape(u)
         /\ u.phase = t.phase /\ u.ports = t.ports
         /\ u.fin[c] = "done" /\ \A d \in Cause \ {c} : u.fin[d] = t.fin[d]
         /\ ~Held(u) /\ ~Held(t)
<1>1. t \in Take
  BY DEF Shape
<1>2. PICK f : f = [t.fin EXCEPT ![c] = "done"]
  OBVIOUS
<1>3. u = [[[t EXCEPT !.fin = f] EXCEPT !.row = row] EXCEPT !.temp = temp]
  BY <1>2 DEF Stored
<1>4. /\ f \in [Cause -> FinPhase] /\ f[c] = "done"
      /\ \A d \in Cause \ {c} : f[d] = t.fin[d]
  BY <1>1, <1>2, TakeFields DEF FinPhase
<1>5. /\ u \in Take /\ u.fin = f /\ u.phase = t.phase /\ u.ports = t.ports
      /\ u.ffmpeg = t.ffmpeg /\ u.row = row /\ (u.temp <=> temp)
  BY <1>1, <1>3, <1>4 DEF Take
<1>6. t.phase = "registered" /\ ~Held(t) /\ t.ffmpeg # "running"
  BY DEF Shape, Held
<1>7. ~Held(u)
  BY <1>4, <1>5 DEF Held
<1>8. Single(u) => Single(t) /\ \A d \in Cause \ {c} : u.fin[d] = "none"
  BY <1>4, <1>5 DEF Single
<1>9. Single(u) => (row = "empty" => temp)
  BY <1>8 DEF Shape
<1>10. Shape(u)
  BY <1>4, <1>5, <1>6, <1>7, <1>8, <1>9 DEF Shape
<1> QED
  BY <1>4, <1>5, <1>6, <1>7, <1>10

\* The process exits: every finalization that waited goes on, no other does.
LEMMA ExitShape ==
  ASSUME NEW t, Shape(t), NEW b \in Cause, t.fin[b] = "quitting",
         NEW u, u = Exited(t)
  PROVE  /\ Shape(u)
         /\ u.phase = t.phase /\ u.ports = t.ports
         /\ \A c \in Cause :
              /\ t.fin[c] # "quitting" => u.fin[c] = t.fin[c]
              /\ t.fin[c] = "quitting" => u.fin[c] \in {"remuxing", "empty"}
         /\ ~Held(u)
<1>1. t \in Take
  BY DEF Shape
<1>2. PICK x : x = AfterExit(t)
  OBVIOUS
<1>3. /\ x \in {"remuxing", "empty"}
      /\ t.temp => x = "remuxing"
  BY <1>2 DEF AfterExit
<1>4. PICK f : f = [c \in Cause |-> IF t.fin[c] = "quitting" THEN x ELSE t.fin[c]]
  OBVIOUS
<1>5. u = [[t EXCEPT !.ffmpeg = "exited"] EXCEPT !.fin = f]
  BY <1>2, <1>4 DEF Exited
<1>6. /\ f \in [Cause -> FinPhase]
      /\ \A c \in Cause : f[c] = IF t.fin[c] = "quitting" THEN x ELSE t.fin[c]
  BY <1>1, <1>3, <1>4, TakeFields DEF FinPhase
<1>7. /\ u \in Take /\ u.fin = f /\ u.phase = t.phase /\ u.ports = t.ports
      /\ u.ffmpeg = "exited" /\ u.row = t.row /\ (u.temp <=> t.temp)
  BY <1>1, <1>5, <1>6 DEF Take
<1>8. ~Held(u)
  BY <1>3, <1>6, <1>7 DEF Held
<1>9. t.phase = "registered"
  BY DEF Shape
<1>10. Single(u) => Single(t) /\ \A c \in Cause \ {b} : t.fin[c] = "none"
  BY <1>3, <1>6, <1>7 DEF Single
<1>11. Single(u) => t.temp /\ t.row = "open"
  <2>1. Single(u) => Held(t)
    BY <1>10 DEF Held
  <2> QED
    BY <1>9, <2>1 DEF Shape
<1>12. Single(u) => \A c \in Cause : u.fin[c] \in {"none", "remuxing"}
  BY <1>3, <1>6, <1>7, <1>10, <1>11
<1>13. Shape(u)
  BY <1>7, <1>8, <1>9, <1>11, <1>12 DEF Shape
<1> QED
  BY <1>3, <1>6, <1>7, <1>8, <1>13

\* A take that is launched holds nothing yet.
LEMMA NewShape ==
  ASSUME NEW k \in TakeId
  PROVE  /\ Shape(NewTake(k))
         /\ NewTake(k).phase = "transport" /\ NewTake(k).ports = {}
         /\ \A c \in Cause : NewTake(k).fin[c] = "none"
<1>1. PICK t : t = NewTake(k)
  OBVIOUS
<1>2. k.webcam \in Producer \union {None} /\ 1 \in 1..MaxAttempts
  BY BoundAssumption DEF TakeId
<1>3. t \in Take
  BY <1>1, <1>2 DEF NewTake, Take, TakePhase, FinPhase
<1>4. /\ t.phase = "transport" /\ t.ports = {} /\ t.ffmpeg = "none" /\ t.row = "open"
      /\ \A c \in Cause : t.fin[c] = "none"
  BY <1>1 DEF NewTake
<1> QED
  BY <1>1, <1>3, <1>4 DEF Shape

-----------------------------------------------------------------------------
(* A table of takes and the used ports *)

HeldIn(T) == {k \in DOMAIN T : Held(T[k])}

\* PortsExclusive and NoPortLeaks of a table and a set of used ports.
Exclusive(T, U) ==
    (\A k \in DOMAIN T : Single(T[k])) =>
        \A j, k \in HeldIn(T) :
            T[k].ports \subseteq U /\ (j # k => T[j].ports \intersect T[k].ports = {})

Starved(T) == \E k \in DOMAIN T : IsCombined(k) /\ T[k].phase = "starved"

Accounted(T, U) == Starved(T) \/ \A x \in U : \E k \in HeldIn(T) : x \in T[k].ports

Books(T, U) ==
    /\ DOMAIN T \subseteq TakeId
    /\ \A k \in DOMAIN T : Shape(T[k])
    /\ U \subseteq PortMin..PortMax
    /\ Exclusive(T, U)
    /\ Accounted(T, U)

\* A change that leaves every take its ports and its hold on them.
LEMMA BooksKept ==
  ASSUME NEW T, NEW U, Books(T, U), NEW T2, DOMAIN T2 = DOMAIN T,
         \A k \in DOMAIN T :
            /\ Shape(T2[k])
            /\ T2[k].ports = T[k].ports
            /\ T[k].phase = "starved" => T2[k].phase = "starved"
            /\ Single(T2[k]) => Single(T[k])
            /\ Held(T2[k]) <=> Held(T[k])
  PROVE  Books(T2, U)
<1>1. HeldIn(T2) = HeldIn(T)
  BY DEF HeldIn
<1>2. \A k \in HeldIn(T) : k \in DOMAIN T
  BY DEF HeldIn
<1>3. Exclusive(T2, U)
  <2> SUFFICES ASSUME \A k \in DOMAIN T2 : Single(T2[k]),
                      NEW j \in HeldIn(T), NEW k \in HeldIn(T)
               PROVE  T2[k].ports \subseteq U
                        /\ (j # k => T2[j].ports \intersect T2[k].ports = {})
    BY <1>1 DEF Exclusive
  <2>1. \A i \in DOMAIN T : Single(T[i])
    OBVIOUS
  <2>2. T[k].ports \subseteq U /\ (j # k => T[j].ports \intersect T[k].ports = {})
    BY <2>1 DEF Books, Exclusive
  <2> QED
    BY <1>2, <2>2
<1>4. Accounted(T2, U)
  <2>1. CASE Starved(T)
    BY <2>1 DEF Starved, Accounted
  <2>2. CASE \A x \in U : \E k \in HeldIn(T) : x \in T[k].ports
    BY <1>1, <1>2, <2>2 DEF Accounted
  <2> QED
    BY <2>1, <2>2 DEF Books, Accounted
<1> QED
  BY <1>3, <1>4 DEF Books

\* Takes that are launched hold nothing.
LEMMA BooksLaunch ==
  ASSUME NEW T, NEW U, Books(T, U), NEW K, K \subseteq TakeId,
         K \intersect DOMAIN T = {}
  PROVE  Books(Launch(T, K), U)
<1>1. PICK T2 : T2 = Launch(T, K)
  OBVIOUS
<1>2. /\ DOMAIN T2 = DOMAIN T \union K
      /\ \A k \in DOMAIN T : T2[k] = T[k]
      /\ \A k \in K : T2[k] = NewTake(k)
  BY <1>1 DEF Launch
<1>3. \A k \in K : Shape(T2[k]) /\ T2[k].ports = {} /\ Held(T2[k])
  BY <1>2, NewShape DEF Held
<1>4. \A k \in HeldIn(T) : k \in HeldIn(T2) /\ T2[k] = T[k]
  BY <1>2 DEF HeldIn
<1>5. \A k \in HeldIn(T2) : k \in HeldIn(T) \/ T2[k].ports = {}
  BY <1>2, <1>3 DEF HeldIn
<1>6. Exclusive(T2, U)
  <2> SUFFICES ASSUME \A k \in DOMAIN T2 : Single(T2[k]),
                      NEW j \in HeldIn(T2), NEW k \in HeldIn(T2)
               PROVE  T2[k].ports \subseteq U
                        /\ (j # k => T2[j].ports \intersect T2[k].ports = {})
    BY DEF Exclusive
  <2>1. \A i \in DOMAIN T : Single(T[i])
    BY <1>2
  <2>2. \A i, h \in HeldIn(T) :
            T[h].ports \subseteq U /\ (i # h => T[i].ports \intersect T[h].ports = {})
    BY <2>1 DEF Books, Exclusive
  <2> QED
    BY <1>4, <1>5, <2>2
<1>7. Accounted(T2, U)
  <2>1. CASE Starved(T)
    BY <1>2, <2>1 DEF Starved, Accounted
  <2>2. CASE \A x \in U : \E k \in HeldIn(T) : x \in T[k].ports
    BY <1>4, <2>2 DEF Accounted
  <2> QED
    BY <2>1, <2>2 DEF Books, Accounted
<1> QED
  BY <1>1, <1>2, <1>3, <1>6, <1>7 DEF Books

\* One take gives its ports back, and gives up its hold or holds none.
LEMMA BooksRelease ==
  ASSUME NEW T, NEW U, Books(T, U), NEW k \in DOMAIN T,
         Single(T[k]) => Held(T[k]), T[k].phase # "starved",
         NEW u, Shape(u), u.ports = {} \/ ~Held(u), Single(u) => Single(T[k])
  PROVE  Books([T EXCEPT ![k] = u], U \ T[k].ports)
<1>1. PICK T2 : T2 = [T EXCEPT ![k] = u]
  OBVIOUS
<1>2. /\ DOMAIN T2 = DOMAIN T /\ T2[k] = u
      /\ \A j \in DOMAIN T \ {k} : T2[j] = T[j]
  BY <1>1
<1>3. \A j \in HeldIn(T2) \ {k} : j \in HeldIn(T) /\ T2[j] = T[j]
  BY <1>2 DEF HeldIn
<1>4. \A j \in HeldIn(T) \ {k} : j \in HeldIn(T2) /\ T2[j] = T[j]
  BY <1>2 DEF HeldIn
<1>5. k \in HeldIn(T2) => T2[k].ports = {}
  BY <1>2 DEF HeldIn
<1>6. Exclusive(T2, U \ T[k].ports)
  <2> SUFFICES ASSUME \A j \in DOMAIN T2 : Single(T2[j]),
                      NEW i \in HeldIn(T2), NEW j \in HeldIn(T2)
               PROVE  T2[j].ports \subseteq U \ T[k].ports
                        /\ (i # j => T2[i].ports \intersect T2[j].ports = {})
    BY DEF Exclusive
  <2>1. \A h \in DOMAIN T : Single(T[h])
    BY <1>2
  <2>2. k \in HeldIn(T)
    BY <2>1 DEF HeldIn
  <2>3. \A g, h \in HeldIn(T) :
            T[h].ports \subseteq U /\ (g # h => T[g].ports \intersect T[h].ports = {})
    BY <2>1 DEF Books, Exclusive
  <2>4. T2[j].ports \subseteq U \ T[k].ports
    BY <1>3, <1>5, <2>2, <2>3
  <2>5. i # j => T2[i].ports \intersect T2[j].ports = {}
    BY <1>3, <1>5, <2>3
  <2> QED
    BY <2>4, <2>5
<1>7. Accounted(T2, U \ T[k].ports)
  <2>1. CASE Starved(T)
    BY <1>2, <2>1 DEF Starved, Accounted
  <2>2. CASE \A x \in U : \E j \in HeldIn(T) : x \in T[j].ports
    BY <1>4, <2>2 DEF Accounted
  <2> QED
    BY <2>1, <2>2 DEF Books, Accounted
<1> QED
  BY <1>1, <1>2, <1>6, <1>7 DEF Books

\* One take gets ports that are not in use.
LEMMA BooksAllocate ==
  ASSUME NEW T, NEW U, Books(T, U), NEW k \in DOMAIN T, T[k].phase = "transport",
         NEW P, P \subseteq PortMin..PortMax, P \intersect U = {},
         NEW u, Shape(u), u.ports = P, Held(u), Single(u) => Single(T[k])
  PROVE  Books([T EXCEPT ![k] = u], U \union P)
<1>1. PICK T2 : T2 = [T EXCEPT ![k] = u]
  OBVIOUS
<1>2. /\ DOMAIN T2 = DOMAIN T /\ T2[k] = u
      /\ \A j \in DOMAIN T \ {k} : T2[j] = T[j]
  BY <1>1
<1>3. T[k].ports = {} /\ Held(T[k])
  BY DEF Books, Shape, Held
<1>4. \A j \in HeldIn(T2) \ {k} : j \in HeldIn(T) /\ T2[j] = T[j]
  BY <1>2 DEF HeldIn
<1>5. \A j \in HeldIn(T) \ {k} : j \in HeldIn(T2) /\ T2[j] = T[j]
  BY <1>2 DEF HeldIn
<1>6. k \in HeldIn(T2)
  BY <1>2 DEF HeldIn
<1>7. Exclusive(T2, U \union P)
  <2> SUFFICES ASSUME \A j \in DOMAIN T2 : Single(T2[j]),
                      NEW i \in HeldIn(T2), NEW j \in HeldIn(T2)
               PROVE  T2[j].ports \subseteq U \union P
                        /\ (i # j => T2[i].ports \intersect T2[j].ports = {})
    BY DEF Exclusive
  <2>1. \A h \in DOMAIN T : Single(T[h])
    BY <1>2
  <2>2. \A g, h \in HeldIn(T) :
            T[h].ports \subseteq U /\ (g # h => T[g].ports \intersect T[h].ports = {})
    BY <2>1 DEF Books, Exclusive
  <2>3. \A h \in HeldIn(T2) \ {k} : T2[h].ports \subseteq U
    BY <1>4, <2>2
  <2>4. T2[j].ports \subseteq U \union P
    BY <1>2, <2>3
  <2>5. i # j => T2[i].ports \intersect T2[j].ports = {}
    BY <1>2, <1>4, <2>2, <2>3
  <2> QED
    BY <2>4, <2>5
<1>8. Accounted(T2, U \union P)
  <2>1. CASE Starved(T)
    BY <1>2, <2>1 DEF Starved, Accounted
  <2>2. CASE \A x \in U : \E j \in HeldIn(T) : x \in T[j].ports
    BY <1>2, <1>3, <1>5, <1>6, <2>2 DEF Accounted
  <2> QED
    BY <2>1, <2>2 DEF Books, Accounted
<1> QED
  BY <1>1, <1>2, <1>7, <1>8 DEF Books

\* A combined take that runs out of ports may keep one; a solo one finds none.
LEMMA BooksStarve ==
  ASSUME NEW T, NEW U, Books(T, U), NEW k \in DOMAIN T, T[k].phase = "transport",
         NEW P, P \subseteq PortMin..PortMax, IsCombined(k) \/ P = {},
         NEW u, u = [T[k] EXCEPT !.phase = "starved"]
  PROVE  Books([T EXCEPT ![k] = u], U \union P)
<1>1. PICK T2 : T2 = [T EXCEPT ![k] = u]
  OBVIOUS
<1>2. /\ DOMAIN T2 = DOMAIN T /\ T2[k] = u
      /\ \A j \in DOMAIN T \ {k} : T2[j] = T[j]
  BY <1>1
<1>3. Shape(T[k]) /\ T[k] \in Take
  BY DEF Books, Shape
<1>4. /\ u \in Take /\ u.phase = "starved" /\ u.ports = T[k].ports
      /\ u.ffmpeg = T[k].ffmpeg /\ u.row = T[k].row /\ u.fin = T[k].fin
  BY <1>3 DEF Take, TakePhase
<1>5. T[k].ports = {} /\ T[k].ffmpeg # "running" /\ T[k].row = "open"
      /\ \A c \in Cause : T[k].fin[c] = "none"
  BY <1>3 DEF Shape
<1>6. Shape(u) /\ Held(u) /\ Held(T[k]) /\ Single(T[k])
  BY <1>4, <1>5 DEF Shape, Held, Single
<1>7. Books(T2, U)
  <2>1. \A j \in DOMAIN T :
            /\ Shape(T2[j])
            /\ T2[j].ports = T[j].ports
            /\ T[j].phase = "starved" => T2[j].phase = "starved"
            /\ Single(T2[j]) => Single(T[j])
            /\ Held(T2[j]) <=> Held(T[j])
    BY <1>2, <1>4, <1>6 DEF Books
  <2> QED
    BY <1>2, <2>1, BooksKept
<1>8. CASE P = {}
  BY <1>1, <1>7, <1>8
<1>9. CASE IsCombined(k)
  <2>1. Accounted(T2, U \union P)
    BY <1>2, <1>4, <1>9 DEF Accounted, Starved
  <2>2. Exclusive(T2, U \union P)
    BY <1>7 DEF Books, Exclusive
  <2> QED
    BY <1>1, <1>7, <2>1, <2>2 DEF Books
<1> QED
  BY <1>8, <1>9

PastExit(T, K) == UNION {T[k].ports : k \in {j \in K : T[j].ffmpeg # "running"}}

\* Finalizing registered takes for a cause none of them was finalized for.
LEMMA BooksBegin ==
  ASSUME NEW T, NEW U, Books(T, U), NEW K, K \subseteq DOMAIN T, NEW c \in Cause,
         \A k \in K : T[k].phase = "registered" /\ T[k].fin[c] = "none"
  PROVE  Books(BeginFinalize(T, K, c), U \ PastExit(T, K))
<1>1. PICK T2 : T2 = BeginFinalize(T, K, c)
  OBVIOUS
<1>2. /\ DOMAIN T2 = DOMAIN T
      /\ \A k \in K : T2[k] = Begin(T[k], c)
      /\ \A k \in DOMAIN T \ K : T2[k] = T[k]
  BY <1>1 DEF BeginFinalize, Begin
<1>3. \A k \in K : /\ Shape(T2[k])
                   /\ T2[k].phase = T[k].phase /\ T2[k].ports = T[k].ports
                   /\ Held(T2[k]) <=> Held(T[k])
                   /\ Single(T2[k]) => T[k].ffmpeg = "running" /\ Single(T[k])
  BY <1>2, BeginShape DEF Books
<1>4. \A k \in DOMAIN T : /\ Shape(T2[k])
                          /\ T2[k].ports = T[k].ports
                          /\ T[k].phase = "starved" => T2[k].phase = "starved"
                          /\ Single(T2[k]) => Single(T[k])
                          /\ Held(T2[k]) <=> Held(T[k])
  BY <1>2, <1>3 DEF Books
<1>5. Books(T2, U)
  BY <1>2, <1>4, BooksKept
<1>6. Exclusive(T2, U \ PastExit(T, K))
  <2>1. SUFFICES ASSUME \A k \in DOMAIN T2 : Single(T2[k])
                 PROVE  Exclusive(T2, U \ PastExit(T, K))
    BY DEF Exclusive
  <2>2. \A k \in K : T[k].ffmpeg = "running"
    BY <1>2, <1>3, <2>1
  <2>3. PastExit(T, K) = {}
    BY <2>2 DEF PastExit
  <2> QED
    BY <1>5, <2>3 DEF Books
<1>7. Accounted(T2, U \ PastExit(T, K))
  BY <1>5 DEF Books, Accounted
<1> QED
  BY <1>1, <1>5, <1>6, <1>7 DEF Books

\* A take that is not registered yet moves on: nothing has been finalized.
LEMMA MoveShape ==
  ASSUME NEW t, Shape(t), t.phase # "registered",
         NEW u \in Take, u.fin = t.fin, u.row = t.row,
         u.phase \in {"transport", "failed", "starved"} => u.ports = {},
         u.phase \in {"transport", "launching", "failed", "starved"} => u.ffmpeg # "running",
         u.phase \in {"verifying", "persisting", "registered"} => u.ffmpeg = "running",
         u.phase \in {"persisting", "registered"} => u.temp
  PROVE  Shape(u) /\ Held(u) /\ Held(t) /\ Single(u) /\ Single(t)
<1>1. /\ \A c \in Cause : t.fin[c] = "none" /\ u.fin[c] = "none"
      /\ u.row = "open"
  BY DEF Shape
<1>2. Held(u) /\ Held(t) /\ Single(u) /\ Single(t)
  BY <1>1 DEF Held, Single
<1> QED
  BY <1>1, <1>2 DEF Shape

\* Which webcam a camera session records has no bearing on the rest.
LEMMA VideoShape ==
  ASSUME NEW t, Shape(t), NEW v \in Producer \union {None},
         NEW u, u = [t EXCEPT !.video = v]
  PROVE  /\ Shape(u)
         /\ u.phase = t.phase /\ u.ports = t.ports /\ u.fin = t.fin
         /\ u.ffmpeg = t.ffmpeg
         /\ Held(u) <=> Held(t)
         /\ Single(u) <=> Single(t)
<1>1. /\ u \in Take /\ u.phase = t.phase /\ u.ports = t.ports /\ u.fin = t.fin
      /\ u.ffmpeg = t.ffmpeg /\ u.row = t.row /\ (u.temp <=> t.temp)
  BY DEF Shape, Take
<1>2. (Held(u) <=> Held(t)) /\ (Single(u) <=> Single(t))
  BY <1>1 DEF Held, Single
<1>3. Shape(u)
  BY <1>1, <1>2 DEF Shape
<1> QED
  BY <1>1, <1>2, <1>3

-----------------------------------------------------------------------------
(* A take and the calls it belongs to *)

\* A take of the same start(), launched for an announced producer, that takes
\* k's key in the session maps.
Replaced(k, D) ==
    \E j \in D : j.start = k.start /\ j.via = "notify" /\ SameKey(j, k)

\* What ties take k, in state t, to the sessions S of its state, to its start()
\* in a, its stop() in z and the takes D there are.
Linked(k, t, S, a, z, D) ==
    /\ k \in S => t.phase = "registered" /\ t.fin["closing"] = "none"
    /\ a \notin {"idle", "preparing"}
    /\ t.fin["stop"] # "none" => z \in {"stopping", "stopped"}
    /\ t.fin["abort"] # "none" => a \in {"aborting", "failed"}
    /\ t.fin["closing"] # "none" => t.fin["stop"] = "none" /\ t.fin["abort"] = "none"
    /\ z = "stopped" =>
        t.fin["closing"] \notin Finalizing /\ t.fin["stop"] \notin Finalizing
    /\ a = "failed" =>
        t.fin["closing"] \notin Finalizing /\ t.fin["abort"] \notin Finalizing
    /\ k.via = "snapshot" /\ t.phase = "registered" =>
        k \in S \/ t.fin["closing"] # "none" \/ Replaced(k, D)
    /\ k.via = "snapshot" /\ a \in {"aborting", "failed"} =>
        /\ t.phase \in {"registered", "failed", "starved"}
        /\ t.phase = "registered" =>
            t.fin["abort"] # "none" \/ t.fin["closing"] # "none" \/ Replaced(k, D)

LEMMA LinkedMove ==
  ASSUME NEW k, NEW t, NEW u, NEW S, NEW a, NEW z, NEW D, Linked(k, t, S, a, z, D),
         t.phase \notin {"registered", "failed", "starved"},
         u.phase # "registered", u.fin = t.fin
  PROVE  Linked(k, u, S, a, z, D)
BY DEF Linked

LEMMA LinkedFin ==
  ASSUME NEW k, NEW t, NEW u, NEW S, NEW a, NEW z, NEW D, Linked(k, t, S, a, z, D),
         u.phase = t.phase,
         \A c \in Cause : /\ t.fin[c] = "none" <=> u.fin[c] = "none"
                          /\ u.fin[c] \in Finalizing => t.fin[c] \in Finalizing
  PROVE  Linked(k, u, S, a, z, D)
<1>1. /\ "closing" \in Cause /\ "stop" \in Cause /\ "abort" \in Cause
  BY DEF Cause
<1> QED
  BY <1>1 DEF Linked

LEMMA LinkedMore ==
  ASSUME NEW k, NEW t, NEW S, NEW a, NEW z, NEW D, NEW D2, D \subseteq D2,
         Linked(k, t, S, a, z, D)
  PROVE  Linked(k, t, S, a, z, D2)
<1>1. Replaced(k, D) => Replaced(k, D2)
  BY DEF Replaced
<1> QED
  BY <1>1 DEF Linked

LEMMA LinkedNew ==
  ASSUME NEW k \in TakeId, NEW S, NEW a, NEW z, NEW D, k \notin S,
         a \notin {"idle", "preparing"},
         k.via = "snapshot" => a \notin {"aborting", "failed"}
  PROVE  Linked(k, NewTake(k), S, a, z, D)
<1>1. PICK t : t = NewTake(k)
  OBVIOUS
<1>2. t.phase = "transport" /\ \A c \in Cause : t.fin[c] = "none"
  BY <1>1, NewShape
<1>3. t.fin["closing"] = "none" /\ t.fin["stop"] = "none" /\ t.fin["abort"] = "none"
  BY <1>2 DEF Cause
<1>4. "none" \notin Finalizing
  BY DEF Finalizing
<1> QED
  BY <1>1, <1>2, <1>3, <1>4 DEF Linked

\* A session that a closing producer ends leaves the map as it is finalized.
LEMMA LinkedClosing ==
  ASSUME NEW k, NEW t, NEW S, NEW a, NEW z, NEW D, Linked(k, t, S, a, z, D), Shape(t),
         k \in S, z = "none", a \in {"launching", "started"},
         NEW S2, k \notin S2
  PROVE  Linked(k, Begin(t, "closing"), S2, a, z, D)
<1>1. "closing" \in Cause /\ "stop" \in Cause /\ "abort" \in Cause
  BY DEF Cause
<1>2. t.phase = "registered" /\ t.fin["closing"] = "none"
  BY DEF Linked
<1>3. PICK u : u = Begin(t, "closing")
  OBVIOUS
<1>4. /\ u.phase = t.phase /\ u.fin["closing"] \in Finalizing
      /\ u.fin["stop"] = t.fin["stop"] /\ u.fin["abort"] = t.fin["abort"]
  BY <1>1, <1>2, <1>3, BeginShape
<1>5. "none" \notin Finalizing
  BY DEF Finalizing
<1>6. t.fin["stop"] = "none" /\ t.fin["abort"] = "none"
  BY DEF Linked
<1> QED
  BY <1>2, <1>3, <1>4, <1>5, <1>6 DEF Linked

LEMMA LinkedStop ==
  ASSUME NEW k, NEW t, NEW S, NEW a, NEW z, NEW D, Linked(k, t, S, a, z, D), Shape(t),
         k \in S, z \in {"none", "renaming"}
  PROVE  Linked(k, Begin(t, "stop"), S, a, "stopping", D) /\ t.fin["stop"] = "none"
<1>1. "closing" \in Cause /\ "stop" \in Cause /\ "abort" \in Cause
  BY DEF Cause
<1>2. t.phase = "registered" /\ t.fin["closing"] = "none" /\ t.fin["stop"] = "none"
  BY DEF Linked
<1>3. PICK u : u = Begin(t, "stop")
  OBVIOUS
<1>4. /\ u.phase = t.phase /\ u.fin["stop"] \in Finalizing
      /\ u.fin["closing"] = t.fin["closing"] /\ u.fin["abort"] = t.fin["abort"]
  BY <1>1, <1>2, <1>3, BeginShape
<1> QED
  BY <1>2, <1>3, <1>4 DEF Linked

LEMMA LinkedAbort ==
  ASSUME NEW k, NEW t, NEW S, NEW a, NEW z, NEW D, Linked(k, t, S, a, z, D), Shape(t),
         k \in S, a = "launching"
  PROVE  Linked(k, Begin(t, "abort"), S, "aborting", z, D) /\ t.fin["abort"] = "none"
<1>1. "closing" \in Cause /\ "stop" \in Cause /\ "abort" \in Cause
  BY DEF Cause
<1>2. t.phase = "registered" /\ t.fin["closing"] = "none" /\ t.fin["abort"] = "none"
  BY DEF Linked
<1>3. PICK u : u = Begin(t, "abort")
  OBVIOUS
<1>4. /\ u.phase = t.phase /\ u.fin["abort"] \in Finalizing
      /\ u.fin["closing"] = t.fin["closing"] /\ u.fin["stop"] = t.fin["stop"]
  BY <1>1, <1>2, <1>3, BeginShape
<1>5. "none" \notin Finalizing
  BY DEF Finalizing
<1> QED
  BY <1>2, <1>3, <1>4, <1>5 DEF Linked

-----------------------------------------------------------------------------
(* The invariant *)

\* The state the room records in has a running start() and no stop(); sessions
\* are of the state they are registered in; a producer is recorded on its own
\* account once, when it is announced.
Calls ==
    /\ active # None => /\ active \in Start /\ stops[active] = "none"
                        /\ starts[active] \in {"launching", "started"}
    /\ \A st \in Start : starts[st] \in {"idle", "preparing"} => stops[st] = "none"
    /\ \A st \in Start : \A k \in sessions[st] : k.start = st
    /\ \A k \in DOMAIN takes : k.via = "notify" => announced[k.main] = "yes"

Links ==
    \A k \in DOMAIN takes :
        Linked(k, takes[k], sessions[k.start], starts[k.start], stops[k.start],
               DOMAIN takes)

\* No two takes that a start() launches for its snapshot share a key.
Apart(D) ==
    \A j, k \in D :
        j.via = "snapshot" /\ k.via = "snapshot" /\ j.start = k.start /\ SameKey(j, k)
            => j = k

IInv == TypeOK /\ Books(takes, usedPorts) /\ Calls /\ Links /\ Apart(DOMAIN takes)

\* A service that has recorded nothing satisfies it.
THEOREM InitialState == Init => IInv
<1> SUFFICES ASSUME Init PROVE IInv
  OBVIOUS
<1>1. DOMAIN takes = {} /\ usedPorts = {} /\ attaching = {} /\ active = None
  BY DEF Init
<1>2. TypeOK
  BY <1>1 DEF Init, TypeOK
<1>3. Books(takes, usedPorts)
  BY <1>1 DEF Books, Exclusive, Accounted, HeldIn
<1>4. Calls
  BY <1>1 DEF Init, Calls
<1> QED
  BY <1>1, <1>2, <1>3, <1>4 DEF IInv, Links, Apart

\* A step of one take that registers nothing.
LEMMA TakeMoves ==
  ASSUME IInv, NEW k \in DOMAIN takes, NEW u,
         takes' = [takes EXCEPT ![k] = u],
         Books(takes', usedPorts'),
         UNCHANGED <<callVars, producerVars, sessions>>, attaching' \subseteq attaching,
         Linked(k, u, sessions[k.start], starts[k.start], stops[k.start], DOMAIN takes)
  PROVE  IInv'
<1>1. /\ DOMAIN takes' = DOMAIN takes /\ takes'[k] = u
      /\ \A j \in DOMAIN takes \ {k} : takes'[j] = takes[j]
  OBVIOUS
<1>2. UNCHANGED <<active, starts, stops, snapshot, live, announced, sessions>>
  BY DEF callVars, producerVars
<1>3. \A j \in DOMAIN takes' : takes'[j] \in Take
  BY DEF Books, Shape
<1>4. usedPorts' \subseteq PortMin..PortMax
  BY DEF Books
<1>5. TypeOK'
  BY <1>1, <1>2, <1>3, <1>4 DEF IInv, TypeOK
<1>6. Calls'
  BY <1>1, <1>2 DEF IInv, Calls
<1>7. Links'
  BY <1>1, <1>2 DEF IInv, Links
<1> QED
  BY <1>1, <1>5, <1>6, <1>7 DEF IInv

LEMMA TransportCreatedKeeps ==
  ASSUME IInv, NEW k \in TakeId, TransportCreated(k)
  PROVE  IInv'
<1>1. /\ k \in DOMAIN takes /\ takes[k].phase = "transport"
      /\ UNCHANGED <<callVars, producerVars, sessions>> /\ attaching' = attaching
  BY DEF TransportCreated, At
<1>2. PICK t : t = takes[k]
  OBVIOUS
<1>3. Shape(t) /\ t \in Take /\ t.phase = "transport" /\ Books(takes, usedPorts)
  BY <1>1, <1>2 DEF IInv, Books, Shape
<1>4. Linked(k, t, sessions[k.start], starts[k.start], stops[k.start], DOMAIN takes)
  BY <1>1, <1>2 DEF IInv, Links
<1>5. t.ffmpeg # "running" /\ t.ports = {}
  BY <1>3 DEF Shape
<1>6. FreePorts \subseteq PortMin..PortMax /\ FreePorts \intersect usedPorts = {}
  BY DEF FreePorts
<1>7. CASE Cardinality(FreePorts) >= PortsNeeded(k)
  <2>1. PICK P : P = Lowest(PortsNeeded(k), FreePorts)
    OBVIOUS
  <2>2. P \subseteq FreePorts
    BY <2>1 DEF Lowest
  <2>3. PICK u : u = [t EXCEPT !.phase = "launching", !.ports = P]
    OBVIOUS
  <2>4. takes' = [takes EXCEPT ![k] = u] /\ usedPorts' = usedPorts \union P
    BY <1>2, <1>7, <2>1, <2>3 DEF TransportCreated, SetTake
  <2>5. /\ u \in Take /\ u.phase = "launching" /\ u.ports = P
        /\ u.fin = t.fin /\ u.row = t.row /\ u.ffmpeg = t.ffmpeg
    BY <1>3, <1>6, <2>2, <2>3 DEF Take, TakePhase
  <2>6. Shape(u) /\ Held(u) /\ Single(t) /\ Single(u)
    BY <1>3, <1>5, <2>5, MoveShape
  <2>7. Books(takes', usedPorts')
    BY <1>1, <1>2, <1>3, <1>6, <2>2, <2>4, <2>5, <2>6, BooksAllocate
  <2>8. Linked(k, u, sessions[k.start], starts[k.start], stops[k.start], DOMAIN takes)
    BY <1>3, <1>4, <2>5, LinkedMove
  <2> QED
    BY <1>1, <2>4, <2>7, <2>8, TakeMoves
<1>8. CASE ~(Cardinality(FreePorts) >= PortsNeeded(k))
  <2>1. PICK u : u = [t EXCEPT !.phase = "starved"]
    OBVIOUS
  <2>2. takes' = [takes EXCEPT ![k] = u] /\ usedPorts' = usedPorts \union FreePorts
    BY <1>2, <1>8, <2>1 DEF TransportCreated, SetTake
  <2>3. IsCombined(k) \/ FreePorts = {}
    <3>1. IsFiniteSet(PortMin..PortMax)
      BY BoundAssumption, FS_Interval
    <3>2. IsFiniteSet(FreePorts)
      BY <1>6, <3>1, FS_Subset
    <3>3. Cardinality(FreePorts) \in Nat
      BY <3>2, FS_CardinalityType
    <3>4. IsCombined(k) \/ Cardinality(FreePorts) = 0
      BY <1>8, <3>3 DEF PortsNeeded
    <3> QED
      BY <3>2, <3>4, FS_EmptySet
  <2>4. Books(takes', usedPorts')
    BY <1>1, <1>2, <1>3, <1>6, <2>1, <2>2, <2>3, BooksStarve
  <2>5. u.phase = "starved" /\ u.fin = t.fin
    BY <1>3, <2>1 DEF Take
  <2>6. Linked(k, u, sessions[k.start], starts[k.start], stops[k.start], DOMAIN takes)
    BY <1>3, <1>4, <2>5, LinkedMove
  <2> QED
    BY <1>1, <2>2, <2>4, <2>6, TakeMoves
<1> QED
  BY <1>7, <1>8

\* The steps that neither allocate nor release, before the take is registered.
LEMMA TakeAdvances ==
  ASSUME IInv, NEW k \in DOMAIN takes, NEW t, t = takes[k],
         t.phase \notin {"registered", "failed", "starved"},
         NEW u \in Take, u.ports = t.ports, u.fin = t.fin, u.row = t.row,
         u.phase \in {"verifying", "persisting", "failed"},
         IF u.phase = "failed" THEN u.ports = {} /\ u.ffmpeg # "running"
                               ELSE u.ffmpeg = "running",
         u.phase = "persisting" => u.temp,
         takes' = [takes EXCEPT ![k] = u],
         UNCHANGED <<callVars, producerVars, sessions, attaching, usedPorts>>
  PROVE  IInv'
<1>1. Shape(t) /\ Books(takes, usedPorts)
  BY DEF IInv, Books
<1>2. Shape(u) /\ Held(u) /\ Held(t) /\ Single(u) /\ Single(t)
  BY <1>1, MoveShape
<1>3. PICK T : T = takes'
  OBVIOUS
<1>4. /\ DOMAIN T = DOMAIN takes /\ T[k] = u
      /\ \A j \in DOMAIN takes \ {k} : T[j] = takes[j]
  BY <1>3
<1>5. \A j \in DOMAIN takes :
        /\ Shape(T[j])
        /\ T[j].ports = takes[j].ports
        /\ takes[j].phase = "starved" => T[j].phase = "starved"
        /\ Single(T[j]) => Single(takes[j])
        /\ Held(T[j]) <=> Held(takes[j])
  BY <1>1, <1>2, <1>4 DEF Books
<1>6. Books(T, usedPorts)
  BY <1>1, <1>4, <1>5, BooksKept
<1>7. Linked(k, t, sessions[k.start], starts[k.start], stops[k.start], DOMAIN takes)
  BY DEF IInv, Links
<1>8. Linked(k, u, sessions[k.start], starts[k.start], stops[k.start], DOMAIN takes)
  BY <1>7, LinkedMove
<1> QED
  BY <1>3, <1>6, <1>8, TakeMoves

LEMMA TransportFailedKeeps ==
  ASSUME IInv, NEW k \in TakeId, TransportFailed(k)
  PROVE  IInv'
<1>1. k \in DOMAIN takes /\ takes[k].phase = "transport"
  BY DEF TransportFailed, At
<1>2. PICK t : t = takes[k]
  OBVIOUS
<1>3. PICK u : u = [t EXCEPT !.phase = "failed"]
  OBVIOUS
<1>4. t \in Take /\ t.phase = "transport" /\ t.ports = {} /\ t.ffmpeg # "running"
  BY <1>1, <1>2 DEF IInv, Books, Shape
<1>5. /\ u \in Take /\ u.phase = "failed" /\ u.ports = t.ports /\ u.fin = t.fin
      /\ u.row = t.row /\ u.ffmpeg = t.ffmpeg
  BY <1>3, <1>4 DEF Take, TakePhase
<1>6. /\ takes' = [takes EXCEPT ![k] = u]
      /\ UNCHANGED <<callVars, producerVars, sessions, attaching, usedPorts>>
  BY <1>2, <1>3 DEF TransportFailed, SetTake
<1> QED
  BY <1>1, <1>2, <1>4, <1>5, <1>6, TakeAdvances

LEMMA LaunchedKeeps ==
  ASSUME IInv, NEW k \in TakeId, Launched(k)
  PROVE  IInv'
<1>1. k \in DOMAIN takes /\ takes[k].phase = "launching"
  BY DEF Launched, At
<1>2. PICK t : t = takes[k]
  OBVIOUS
<1>3. PICK u : u = [t EXCEPT !.phase = "verifying", !.ffmpeg = "running"]
  OBVIOUS
<1>4. t \in Take /\ t.phase = "launching"
  BY <1>1, <1>2 DEF IInv, Books, Shape
<1>5. /\ u \in Take /\ u.phase = "verifying" /\ u.ports = t.ports /\ u.fin = t.fin
      /\ u.row = t.row /\ u.ffmpeg = "running"
  BY <1>3, <1>4 DEF Take, TakePhase
<1>6. /\ takes' = [takes EXCEPT ![k] = u]
      /\ UNCHANGED <<callVars, producerVars, sessions, attaching, usedPorts>>
  BY <1>2, <1>3 DEF Launched, SetTake
<1> QED
  BY <1>1, <1>2, <1>4, <1>5, <1>6, TakeAdvances

LEMMA VerifiedKeeps ==
  ASSUME IInv, NEW k \in TakeId, Verified(k)
  PROVE  IInv'
<1>1. k \in DOMAIN takes /\ takes[k].phase = "verifying"
  BY DEF Verified, At
<1>2. PICK t : t = takes[k]
  OBVIOUS
<1>3. PICK u : u = [t EXCEPT !.phase = "persisting", !.temp = TRUE]
  OBVIOUS
<1>4. t \in Take /\ t.phase = "verifying" /\ t.ffmpeg = "running"
  BY <1>1, <1>2 DEF IInv, Books, Shape
<1>5. /\ u \in Take /\ u.phase = "persisting" /\ u.ports = t.ports /\ u.fin = t.fin
      /\ u.row = t.row /\ u.ffmpeg = t.ffmpeg /\ u.temp
  BY <1>3, <1>4 DEF Take, TakePhase
<1>6. /\ takes' = [takes EXCEPT ![k] = u]
      /\ UNCHANGED <<callVars, producerVars, sessions, attaching, usedPorts>>
  BY <1>2, <1>3 DEF Verified, SetTake
<1> QED
  BY <1>1, <1>2, <1>4, <1>5, <1>6, TakeAdvances

\* The catch of a take: its ports are free again, its process is dead.
LEMMA TakeReleases ==
  ASSUME IInv, NEW k \in DOMAIN takes, NEW t, t = takes[k],
         t.phase \in {"launching", "verifying"},
         NEW u \in Take, u.ports = {}, u.fin = t.fin, u.row = t.row,
         u.phase \in {"transport", "failed"}, u.ffmpeg = "none",
         takes' = [takes EXCEPT ![k] = u],
         usedPorts' = usedPorts \ t.ports,
         UNCHANGED <<callVars, producerVars, sessions, attaching>>
  PROVE  IInv'
<1>1. Shape(t) /\ Books(takes, usedPorts)
  BY DEF IInv, Books
<1>2. Shape(u) /\ Held(t) /\ Single(u) /\ Single(t)
  BY <1>1, MoveShape
<1>3. Books([takes EXCEPT ![k] = u], usedPorts \ takes[k].ports)
  BY <1>1, <1>2, BooksRelease
<1>4. Books(takes', usedPorts')
  BY <1>3
<1>5. Linked(k, t, sessions[k.start], starts[k.start], stops[k.start], DOMAIN takes)
  BY DEF IInv, Links
<1>6. Linked(k, u, sessions[k.start], starts[k.start], stops[k.start], DOMAIN takes)
  BY <1>5, LinkedMove
<1> QED
  BY <1>4, <1>6, TakeMoves

LEMMA ReleasedFields ==
  ASSUME NEW t \in Take, NEW phase \in {"transport", "failed"},
         NEW u, u = Released(t, phase)
  PROVE  /\ u \in Take /\ u.phase = phase /\ u.ports = {} /\ u.ffmpeg = "none"
         /\ u.fin = t.fin /\ u.row = t.row /\ u.attempt = t.attempt
BY DEF Released, Take, TakePhase

LEMMA AttemptFailedKeeps ==
  ASSUME IInv, NEW k \in TakeId, AttemptFailed(k)
  PROVE  IInv'
<1>1. /\ k \in DOMAIN takes /\ takes[k].phase \in {"launching", "verifying"}
      /\ UNCHANGED <<callVars, producerVars, sessions, attaching>>
  BY DEF AttemptFailed, At
<1>2. PICK t : t = takes[k]
  OBVIOUS
<1>3. t \in Take /\ t.attempt \in 1..MaxAttempts
  BY <1>1, <1>2, TakeFields DEF IInv, Books, Shape
<1>4. usedPorts' = usedPorts \ t.ports
  BY <1>2 DEF AttemptFailed
<1>5. CASE t.attempt < MaxAttempts
  <2>1. PICK v : v = Released(t, "transport")
    OBVIOUS
  <2>2. PICK u : u = [v EXCEPT !.attempt = @ + 1]
    OBVIOUS
  <2>3. /\ v \in Take /\ v.phase = "transport" /\ v.ports = {} /\ v.ffmpeg = "none"
        /\ v.fin = t.fin /\ v.row = t.row /\ v.attempt = t.attempt
    BY <1>3, <2>1, ReleasedFields
  <2>4. v.attempt + 1 \in 1..MaxAttempts
    BY <1>3, <1>5, <2>3, BoundAssumption
  <2>5. /\ u \in Take /\ u.phase = "transport" /\ u.ports = {} /\ u.ffmpeg = "none"
        /\ u.fin = t.fin /\ u.row = t.row
    BY <2>2, <2>3, <2>4 DEF Take
  <2>6. takes' = [takes EXCEPT ![k] = u]
    BY <1>2, <1>5, <2>1, <2>2 DEF AttemptFailed, SetTake
  <2> QED
    BY <1>1, <1>2, <1>4, <2>5, <2>6, TakeReleases
<1>6. CASE ~(t.attempt < MaxAttempts)
  <2>1. PICK u : u = Released(t, "failed")
    OBVIOUS
  <2>2. /\ u \in Take /\ u.phase = "failed" /\ u.ports = {} /\ u.ffmpeg = "none"
        /\ u.fin = t.fin /\ u.row = t.row
    BY <1>3, <2>1, ReleasedFields
  <2>3. takes' = [takes EXCEPT ![k] = u]
    BY <1>2, <1>6, <2>1 DEF AttemptFailed, SetTake
  <2> QED
    BY <1>1, <1>2, <1>4, <2>2, <2>3, TakeReleases
<1> QED
  BY <1>5, <1>6

LEMMA ProducerGoneKeeps ==
  ASSUME IInv, NEW k \in TakeId, ProducerGone(k)
  PROVE  IInv'
<1>1. /\ k \in DOMAIN takes /\ takes[k].phase \in {"launching", "verifying"}
      /\ UNCHANGED <<callVars, producerVars, sessions, attaching>>
  BY DEF ProducerGone, At
<1>2. PICK t : t = takes[k]
  OBVIOUS
<1>3. t \in Take
  BY <1>1, <1>2 DEF IInv, Books, Shape
<1>4. PICK u : u = Released(t, "failed")
  OBVIOUS
<1>5. /\ u \in Take /\ u.phase = "failed" /\ u.ports = {} /\ u.ffmpeg = "none"
      /\ u.fin = t.fin /\ u.row = t.row
  BY <1>3, <1>4, ReleasedFields
<1>6. takes' = [takes EXCEPT ![k] = u] /\ usedPorts' = usedPorts \ t.ports
  BY <1>2, <1>4 DEF ProducerGone, SetTake
<1> QED
  BY <1>1, <1>2, <1>5, <1>6, TakeReleases

\* Links when one session is registered: it replaces the one under its key.
LEMMA PersistedKeeps ==
  ASSUME IInv, NEW k \in TakeId, Persisted(k)
  PROVE  IInv'
<1>1. /\ k \in DOMAIN takes /\ takes[k].phase = "persisting"
      /\ UNCHANGED <<active, starts, stops, snapshot, live, announced, attaching, usedPorts>>
  BY DEF Persisted, At, callVars, producerVars
<1>2. PICK t : t = takes[k]
  OBVIOUS
<1>3. PICK u : u = [t EXCEPT !.phase = "registered"]
  OBVIOUS
<1>4. PICK T : T = takes'
  OBVIOUS
<1>5. T = [takes EXCEPT ![k] = u]
  BY <1>2, <1>3, <1>4 DEF Persisted, SetTake
<1>6. /\ DOMAIN T = DOMAIN takes /\ T[k] = u
      /\ \A j \in DOMAIN takes \ {k} : T[j] = takes[j]
  BY <1>1, <1>5
<1>7. /\ Books(takes, usedPorts) /\ Shape(t) /\ t \in Take /\ t.phase = "persisting"
  BY <1>1, <1>2 DEF IInv, Books, Shape
<1>8. t.ffmpeg = "running" /\ t.temp /\ \A c \in Cause : t.fin[c] = "none"
  BY <1>7 DEF Shape
<1>9. /\ u \in Take /\ u.phase = "registered" /\ u.ports = t.ports /\ u.fin = t.fin
      /\ u.row = t.row /\ u.ffmpeg = t.ffmpeg /\ (u.temp <=> t.temp)
  BY <1>3, <1>7 DEF Take, TakePhase
<1>10. Shape(u) /\ Held(u) /\ Held(t) /\ Single(u) /\ Single(t)
  BY <1>7, <1>8, <1>9, MoveShape
<1>11. Books(T, usedPorts)
  <2>1. \A j \in DOMAIN takes :
          /\ Shape(T[j])
          /\ T[j].ports = takes[j].ports
          /\ takes[j].phase = "starved" => T[j].phase = "starved"
          /\ Single(T[j]) => Single(takes[j])
          /\ Held(T[j]) <=> Held(takes[j])
    BY <1>2, <1>6, <1>7, <1>9, <1>10 DEF Books
  <2> QED
    BY <1>6, <1>7, <2>1, BooksKept
<1>12. k.start \in Start
  BY DEF TakeId
<1>13. PICK S : S = {j \in sessions[k.start] : ~SameKey(j, k)} \union {k}
  OBVIOUS
<1>14. sessions' = [sessions EXCEPT ![k.start] = S]
  BY <1>13 DEF Persisted
<1>15. /\ sessions \in [Start -> SUBSET DOMAIN takes] /\ S \subseteq DOMAIN takes
  BY <1>1, <1>12, <1>13 DEF IInv, TypeOK
<1>16. /\ sessions' \in [Start -> SUBSET DOMAIN takes] /\ sessions'[k.start] = S
       /\ \A st \in Start \ {k.start} : sessions'[st] = sessions[st]
  BY <1>12, <1>14, <1>15
<1>17. TypeOK'
  <2>1. \A j \in DOMAIN takes' : takes'[j] \in Take
    BY <1>4, <1>11 DEF Books, Shape
  <2> QED
    BY <1>1, <1>4, <1>6, <1>16, <2>1 DEF IInv, TypeOK
<1>18. Calls'
  <2>1. \A st \in Start : \A j \in sessions'[st] : j.start = st
    BY <1>12, <1>13, <1>16 DEF IInv, Calls
  <2> QED
    BY <1>1, <1>4, <1>6, <2>1 DEF IInv, Calls
<1>19. Links'
  <2>1. SUFFICES ASSUME NEW j \in DOMAIN takes
                 PROVE  Linked(j, T[j], sessions'[j.start], starts[j.start],
                               stops[j.start], DOMAIN takes)
    BY <1>1, <1>4, <1>6 DEF Links
  <2>2. Linked(j, takes[j], sessions[j.start], starts[j.start], stops[j.start],
               DOMAIN takes)
    BY DEF IInv, Links
  <2>3. j.start \in Start
    BY DEF IInv, TypeOK, TakeId
  <2>4. CASE j = k
    <3>1. /\ t.fin["closing"] = "none" /\ t.fin["stop"] = "none"
          /\ t.fin["abort"] = "none" /\ "none" \notin Finalizing
      BY <1>8 DEF Cause, Finalizing
    <3>2. k.via = "snapshot" => starts[k.start] \notin {"aborting", "failed"}
      BY <1>2, <1>7, <2>2, <2>4 DEF Linked
    <3>3. k \in S
      BY <1>13
    <3> QED
      BY <1>2, <1>6, <1>9, <1>16, <2>2, <2>4, <3>1, <3>2, <3>3 DEF Linked
  <2>5. CASE j # k /\ j.start # k.start
    BY <1>6, <1>16, <2>2, <2>3, <2>5
  <2>6. CASE j # k /\ j.start = k.start
    <3>1. j \in S => j \in sessions[j.start]
      BY <1>13, <2>6
    <3>2. /\ j.via = "snapshot" /\ j \in sessions[j.start]
          => j \in S \/ Replaced(j, DOMAIN takes)
      <4>1. SUFFICES ASSUME j.via = "snapshot", j \in sessions[j.start], SameKey(j, k)
                     PROVE  Replaced(j, DOMAIN takes)
        BY <1>13, <2>6
      <4>2. k.via = "notify"
        BY <1>1, <2>6, <4>1 DEF IInv, Apart, TakeId
      <4> QED
        BY <1>1, <2>6, <4>1, <4>2 DEF Replaced, SameKey
    <3> QED
      BY <1>6, <1>16, <2>2, <2>6, <3>1, <3>2 DEF Linked
  <2> QED
    BY <2>4, <2>5, <2>6
<1> QED
  BY <1>1, <1>4, <1>6, <1>11, <1>17, <1>18, <1>19 DEF IInv

\* A step of a finalization, or of the webcam of a camera session.
LEMMA TakeSettles ==
  ASSUME IInv, NEW k \in DOMAIN takes, NEW t, t = takes[k],
         NEW u, Shape(u), u.ports = t.ports, u.phase = t.phase,
         Single(u) => Single(t), Held(u) <=> Held(t),
         \A c \in Cause : /\ t.fin[c] = "none" <=> u.fin[c] = "none"
                          /\ u.fin[c] \in Finalizing => t.fin[c] \in Finalizing,
         takes' = [takes EXCEPT ![k] = u],
         UNCHANGED <<callVars, producerVars, sessions, usedPorts>>,
         attaching' \subseteq attaching
  PROVE  IInv'
<1>1. PICK T : T = takes'
  OBVIOUS
<1>2. /\ DOMAIN T = DOMAIN takes /\ T[k] = u
      /\ \A j \in DOMAIN takes \ {k} : T[j] = takes[j]
  BY <1>1
<1>3. Books(takes, usedPorts)
  BY DEF IInv
<1>4. \A j \in DOMAIN takes :
        /\ Shape(T[j])
        /\ T[j].ports = takes[j].ports
        /\ takes[j].phase = "starved" => T[j].phase = "starved"
        /\ Single(T[j]) => Single(takes[j])
        /\ Held(T[j]) <=> Held(takes[j])
  BY <1>2, <1>3 DEF Books
<1>5. Books(T, usedPorts)
  BY <1>2, <1>3, <1>4, BooksKept
<1>6. Linked(k, t, sessions[k.start], starts[k.start], stops[k.start], DOMAIN takes)
  BY DEF IInv, Links
<1>7. Linked(k, u, sessions[k.start], starts[k.start], stops[k.start], DOMAIN takes)
  BY <1>6, LinkedFin
<1> QED
  BY <1>1, <1>5, <1>7, TakeMoves

LEMMA WebcamAttachedKeeps ==
  ASSUME IInv, NEW k \in TakeId, NEW p \in Producer, WebcamAttached(k, p)
  PROVE  IInv'
<1>1. /\ <<k, p>> \in attaching /\ attaching' \subseteq attaching
      /\ UNCHANGED <<callVars, producerVars, sessions, usedPorts>>
  BY DEF WebcamAttached
<1>2. k \in DOMAIN takes
  BY <1>1 DEF IInv, TypeOK
<1>3. PICK t : t = takes[k]
  OBVIOUS
<1>4. PICK u : u = [t EXCEPT !.video = p]
  OBVIOUS
<1>5. Shape(t)
  BY <1>2, <1>3 DEF IInv, Books
<1>6. /\ Shape(u)
      /\ u.phase = t.phase /\ u.ports = t.ports /\ u.fin = t.fin
      /\ Held(u) <=> Held(t)
      /\ Single(u) <=> Single(t)
  BY <1>4, <1>5, VideoShape
<1>7. takes' = [takes EXCEPT ![k] = u]
  BY <1>3, <1>4 DEF WebcamAttached, SetTake
<1> QED
  BY <1>1, <1>2, <1>3, <1>6, <1>7, TakeSettles

LEMMA WebcamNotAttachedKeeps ==
  ASSUME IInv, NEW k \in TakeId, NEW p \in Producer, WebcamNotAttached(k, p)
  PROVE  IInv'
<1>1. /\ attaching' \subseteq attaching
      /\ UNCHANGED <<active, starts, stops, snapshot, live, announced, takes, sessions,
                     usedPorts>>
  BY DEF WebcamNotAttached, callVars, producerVars
<1>2. TypeOK' /\ Calls' /\ Links'
  BY <1>1 DEF IInv, TypeOK, Calls, Links
<1> QED
  BY <1>1, <1>2 DEF IInv

LEMMA FinalizeKeeps ==
  ASSUME IInv, NEW k \in TakeId, NEW c \in Cause, FinalizeStep(k, c)
  PROVE  IInv'
<1>1. k \in DOMAIN takes
  BY DEF FinalizeStep, RemuxSucceeds, RemuxFails, NothingToRemux, AtFin
<1>2. PICK t : t = takes[k]
  OBVIOUS
<1>3. Shape(t) /\ t \in Take /\ t.temp \in BOOLEAN
  BY <1>1, <1>2, TakeFields DEF IInv, Books, Shape
<1>4. PICK row \in {"kept", "empty"}, temp \in BOOLEAN :
        /\ Store(k, c, row, temp) /\ t.fin[c] \in {"remuxing", "empty"}
        /\ row = "kept" => ~temp
        /\ row = "empty" => (temp <=> t.temp)
  <2>1. CASE RemuxSucceeds(k, c)
    BY <1>2, <2>1 DEF RemuxSucceeds, AtFin
  <2>2. CASE RemuxFails(k, c)
    BY <1>2, <1>3, <2>2 DEF RemuxFails, AtFin
  <2>3. CASE NothingToRemux(k, c)
    BY <1>2, <1>3, <2>3 DEF NothingToRemux, AtFin
  <2> QED
    BY <2>1, <2>2, <2>3 DEF FinalizeStep
<1>5. PICK u : u = Stored(t, c, row, temp)
  OBVIOUS
<1>6. /\ Shape(u) /\ u.phase = t.phase /\ u.ports = t.ports
      /\ u.fin[c] = "done" /\ \A d \in Cause \ {c} : u.fin[d] = t.fin[d]
      /\ ~Held(u) /\ ~Held(t)
  BY <1>3, <1>4, <1>5, StoreShape
<1>7. Single(u) => Single(t)
  BY <1>4, <1>6 DEF Single
<1>8. \A d \in Cause : /\ t.fin[d] = "none" <=> u.fin[d] = "none"
                       /\ u.fin[d] \in Finalizing => t.fin[d] \in Finalizing
  BY <1>4, <1>6 DEF Finalizing
<1>9. /\ takes' = [takes EXCEPT ![k] = u]
      /\ UNCHANGED <<callVars, producerVars, sessions, attaching, usedPorts>>
  BY <1>2, <1>4, <1>5 DEF Store, SetTake, Stored
<1> QED
  BY <1>1, <1>2, <1>6, <1>7, <1>8, <1>9, TakeSettles

LEMMA FfmpegExitsKeeps ==
  ASSUME IInv, NEW k \in TakeId, FfmpegExits(k)
  PROVE  IInv'
<1>1. PICK b \in Cause : AtFin(k, b, "quitting")
  BY DEF FfmpegExits
<1>2. PICK t : t = takes[k]
  OBVIOUS
<1>3. k \in DOMAIN takes /\ t.fin[b] = "quitting"
  BY <1>1, <1>2 DEF AtFin
<1>4. Shape(t) /\ Books(takes, usedPorts)
  BY <1>2, <1>3 DEF IInv, Books
<1>5. PICK u : u = Exited(t)
  OBVIOUS
<1>6. /\ Shape(u) /\ u.phase = t.phase /\ u.ports = t.ports
      /\ \A c \in Cause :
            /\ t.fin[c] # "quitting" => u.fin[c] = t.fin[c]
            /\ t.fin[c] = "quitting" => u.fin[c] \in {"remuxing", "empty"}
      /\ ~Held(u)
  BY <1>3, <1>4, <1>5, ExitShape
<1>7. Single(u) => Single(t)
  BY <1>6 DEF Single
<1>8. Single(t) => Held(t)
  BY <1>2, <1>3 DEF Single, Held
<1>9. t.phase # "starved"
  BY <1>2, <1>3, <1>4 DEF Shape
<1>10. Books([takes EXCEPT ![k] = u], usedPorts \ takes[k].ports)
  BY <1>2, <1>3, <1>4, <1>6, <1>7, <1>8, <1>9, BooksRelease
<1>11. \A c \in Cause : /\ t.fin[c] = "none" <=> u.fin[c] = "none"
                        /\ u.fin[c] \in Finalizing => t.fin[c] \in Finalizing
  BY <1>6 DEF Finalizing
<1>12. Linked(k, t, sessions[k.start], starts[k.start], stops[k.start], DOMAIN takes)
  BY <1>2, <1>3 DEF IInv, Links
<1>13. Linked(k, u, sessions[k.start], starts[k.start], stops[k.start], DOMAIN takes)
  BY <1>6, <1>11, <1>12, LinkedFin
<1>14. /\ takes' = [takes EXCEPT ![k] = u] /\ usedPorts' = usedPorts \ takes[k].ports
       /\ UNCHANGED <<callVars, producerVars, sessions, attaching>>
  BY <1>2, <1>5 DEF FfmpegExits, SetTake, Exited
<1>15. Books(takes', usedPorts')
  BY <1>10, <1>14
<1> QED
  BY <1>2, <1>3, <1>13, <1>14, <1>15, TakeMoves

\* A step of start() or stop() that touches no take.
LEMMA CallMoves ==
  ASSUME IInv,
         UNCHANGED <<live, announced, takes, sessions, attaching, usedPorts>>,
         active' \in Start \union {None},
         starts' \in [Start -> {"idle", "preparing", "launching", "started",
                                "aborting", "failed"}],
         stops' \in [Start -> {"none", "renaming", "stopping", "stopped"}],
         snapshot' \in [Start -> SUBSET Producer],
         active' # None => stops'[active'] = "none"
                           /\ starts'[active'] \in {"launching", "started"},
         \A st \in Start : starts'[st] \in {"idle", "preparing"} => stops'[st] = "none",
         \A k \in DOMAIN takes :
            Linked(k, takes[k], sessions[k.start], starts'[k.start], stops'[k.start],
                   DOMAIN takes)
  PROVE  IInv'
<1>1. TypeOK'
  BY DEF IInv, TypeOK
<1>2. Calls'
  <2>1. active' # None => active' \in Start
    OBVIOUS
  <2>2. \A st \in Start : \A k \in sessions'[st] : k.start = st
    BY DEF IInv, Calls
  <2>3. \A k \in DOMAIN takes' : k.via = "notify" => announced'[k.main] = "yes"
    BY DEF IInv, Calls
  <2> QED
    BY <2>1, <2>2, <2>3 DEF Calls
<1>3. Links'
  BY DEF Links
<1> QED
  BY <1>1, <1>2, <1>3 DEF IInv

LEMMA StartRequestedKeeps ==
  ASSUME IInv, NEW st \in Start, StartRequested(st)
  PROVE  IInv'
<1>1. /\ starts[st] = "idle" /\ active = None
      /\ starts' = [starts EXCEPT ![st] = "preparing"]
      /\ snapshot' = [snapshot EXCEPT ![st] = live]
      /\ UNCHANGED <<active, stops, live, announced, takes, sessions, attaching, usedPorts>>
  BY DEF StartRequested, producerVars
<1>2. TypeOK /\ Calls /\ Links
  BY DEF IInv
<1>3. \A k \in DOMAIN takes :
        /\ k.start \in Start
        /\ Linked(k, takes[k], sessions[k.start], starts[k.start], stops[k.start],
                  DOMAIN takes)
  BY <1>2 DEF TypeOK, TakeId, Links
<1>4. \A k \in DOMAIN takes : k.start # st
  BY <1>1, <1>3 DEF Linked
<1>5. \A k \in DOMAIN takes :
        Linked(k, takes[k], sessions[k.start], starts'[k.start], stops'[k.start],
               DOMAIN takes)
  BY <1>1, <1>2, <1>3, <1>4 DEF TypeOK
<1>6. \A s \in Start : starts'[s] \in {"idle", "preparing"} => stops'[s] = "none"
  BY <1>1, <1>2 DEF TypeOK, Calls
<1>7. /\ starts' \in [Start -> {"idle", "preparing", "launching", "started",
                                "aborting", "failed"}]
      /\ snapshot' \in [Start -> SUBSET Producer]
      /\ stops' \in [Start -> {"none", "renaming", "stopping", "stopped"}]
      /\ active' = None
  BY <1>1, <1>2 DEF TypeOK
<1> QED
  BY <1>1, <1>5, <1>6, <1>7, CallMoves

LEMMA SessionNotCreatedKeeps ==
  ASSUME IInv, NEW st \in Start, SessionNotCreated(st)
  PROVE  IInv'
<1>1. /\ starts[st] = "preparing"
      /\ starts' = [starts EXCEPT ![st] = "failed"]
      /\ UNCHANGED <<active, stops, snapshot, live, announced, takes, sessions, attaching,
                     usedPorts>>
  BY DEF SessionNotCreated, producerVars
<1>2. TypeOK /\ Calls /\ Links
  BY DEF IInv
<1>3. \A k \in DOMAIN takes :
        /\ k.start \in Start
        /\ Linked(k, takes[k], sessions[k.start], starts[k.start], stops[k.start],
                  DOMAIN takes)
  BY <1>2 DEF TypeOK, TakeId, Links
<1>4. \A k \in DOMAIN takes : k.start # st
  BY <1>1, <1>3 DEF Linked
<1>5. \A k \in DOMAIN takes :
        Linked(k, takes[k], sessions[k.start], starts'[k.start], stops'[k.start],
               DOMAIN takes)
  BY <1>1, <1>2, <1>3, <1>4 DEF TypeOK
<1>6. \A s \in Start : starts'[s] \in {"idle", "preparing"} => stops'[s] = "none"
  BY <1>1, <1>2 DEF TypeOK, Calls
<1>7. active' # None => stops'[active'] = "none"
                        /\ starts'[active'] \in {"launching", "started"}
  BY <1>1, <1>2 DEF TypeOK, Calls
<1>8. /\ starts' \in [Start -> {"idle", "preparing", "launching", "started",
                                "aborting", "failed"}]
      /\ snapshot' \in [Start -> SUBSET Producer]
      /\ stops' \in [Start -> {"none", "renaming", "stopping", "stopped"}]
      /\ active' \in Start \union {None}
  BY <1>1, <1>2 DEF TypeOK
<1> QED
  BY <1>1, <1>5, <1>6, <1>7, <1>8, CallMoves

\* start() has every task behind it, or its teardown.
LEMMA StartReturns ==
  ASSUME IInv, NEW st \in Start, StartSucceeds(st) \/ StartFails(st)
  PROVE  IInv'
<1>1. PICK a \in {"started", "failed"} :
        /\ starts' = [starts EXCEPT ![st] = a]
        /\ UNCHANGED <<active, stops, snapshot, live, announced, takes, sessions, attaching,
                       usedPorts>>
        /\ a = "started" => starts[st] = "launching"
        /\ a = "failed" => starts[st] = "aborting" /\ TornDown(st, "abort")
  BY DEF StartSucceeds, StartFails, producerVars
<1>2. TypeOK /\ Calls /\ Links
  BY DEF IInv
<1>3. \A k \in DOMAIN takes :
        /\ k.start \in Start
        /\ Linked(k, takes[k], sessions[k.start], starts[k.start], stops[k.start],
                  DOMAIN takes)
  BY <1>2 DEF TypeOK, TakeId, Links
<1>4. starts'[st] = a /\ \A s \in Start \ {st} : starts'[s] = starts[s]
  BY <1>1, <1>2 DEF TypeOK
<1>5. ASSUME NEW k \in DOMAIN takes
      PROVE  Linked(k, takes[k], sessions[k.start], starts'[k.start], stops'[k.start],
                    DOMAIN takes)
  <2>1. CASE k.start # st
    BY <1>1, <1>3, <1>4, <2>1
  <2>2. CASE k.start = st /\ a = "started"
    BY <1>1, <1>3, <1>4, <2>2 DEF Linked
  <2>3. CASE k.start = st /\ a = "failed"
    <3>1. takes[k].fin["abort"] \notin Finalizing /\ takes[k].fin["closing"] \notin Finalizing
      BY <1>1, <2>3 DEF TornDown, TakesOf
    <3> QED
      BY <1>1, <1>3, <1>4, <2>3, <3>1 DEF Linked
  <2> QED
    BY <1>1, <2>1, <2>2, <2>3
<1>6. \A s \in Start : starts'[s] \in {"idle", "preparing"} => stops'[s] = "none"
  BY <1>1, <1>2, <1>4 DEF TypeOK, Calls
<1>7. active' # None => stops'[active'] = "none"
                        /\ starts'[active'] \in {"launching", "started"}
  BY <1>1, <1>2, <1>4 DEF TypeOK, Calls
<1>8. /\ starts' \in [Start -> {"idle", "preparing", "launching", "started",
                                "aborting", "failed"}]
      /\ snapshot' \in [Start -> SUBSET Producer]
      /\ stops' \in [Start -> {"none", "renaming", "stopping", "stopped"}]
      /\ active' \in Start \union {None}
  BY <1>1, <1>2 DEF TypeOK
<1> QED
  BY <1>1, <1>5, <1>6, <1>7, <1>8, CallMoves

LEMMA StopFinishesKeeps ==
  ASSUME IInv, NEW st \in Start, StopFinishes(st)
  PROVE  IInv'
<1>1. /\ stops[st] = "stopping" /\ TornDown(st, "stop")
      /\ stops' = [stops EXCEPT ![st] = "stopped"]
      /\ UNCHANGED <<active, starts, snapshot, live, announced, takes, sessions, attaching,
                     usedPorts>>
  BY DEF StopFinishes, producerVars
<1>2. TypeOK /\ Calls /\ Links
  BY DEF IInv
<1>3. \A k \in DOMAIN takes :
        /\ k.start \in Start
        /\ Linked(k, takes[k], sessions[k.start], starts[k.start], stops[k.start],
                  DOMAIN takes)
  BY <1>2 DEF TypeOK, TakeId, Links
<1>4. stops'[st] = "stopped" /\ \A s \in Start \ {st} : stops'[s] = stops[s]
  BY <1>1, <1>2 DEF TypeOK
<1>5. ASSUME NEW k \in DOMAIN takes
      PROVE  Linked(k, takes[k], sessions[k.start], starts'[k.start], stops'[k.start],
                    DOMAIN takes)
  <2>1. CASE k.start # st
    BY <1>1, <1>3, <1>4, <2>1
  <2>2. CASE k.start = st
    <3>1. takes[k].fin["stop"] \notin Finalizing /\ takes[k].fin["closing"] \notin Finalizing
      BY <1>1, <2>2 DEF TornDown, TakesOf
    <3> QED
      BY <1>1, <1>3, <1>4, <2>2, <3>1 DEF Linked
  <2> QED
    BY <2>1, <2>2
<1>6. \A s \in Start : starts'[s] \in {"idle", "preparing"} => stops'[s] = "none"
  BY <1>1, <1>2, <1>4 DEF TypeOK, Calls
<1>7. active' # None => stops'[active'] = "none"
                        /\ starts'[active'] \in {"launching", "started"}
  BY <1>1, <1>2, <1>4 DEF TypeOK, Calls
<1>8. /\ starts' \in [Start -> {"idle", "preparing", "launching", "started",
                                "aborting", "failed"}]
      /\ snapshot' \in [Start -> SUBSET Producer]
      /\ stops' \in [Start -> {"none", "renaming", "stopping", "stopped"}]
      /\ active' \in Start \union {None}
  BY <1>1, <1>2 DEF TypeOK
<1> QED
  BY <1>1, <1>5, <1>6, <1>7, <1>8, CallMoves

\* A teardown: every session of st is finalized for cause c.
LEMMA TeardownKeeps ==
  ASSUME IInv, NEW st \in Start, NEW c \in Cause, FinalizeAll(sessions[st], c),
         UNCHANGED <<snapshot, live, announced, sessions, attaching>>,
         active' \in {None, active}, active' # st,
         starts' \in [Start -> {"idle", "preparing", "launching", "started",
                                "aborting", "failed"}],
         stops' \in [Start -> {"none", "renaming", "stopping", "stopped"}],
         \A s \in Start \ {st} : starts'[s] = starts[s] /\ stops'[s] = stops[s],
         starts'[st] \notin {"idle", "preparing"},
         \A k \in DOMAIN takes : k.start = st =>
            IF k \in sessions[st]
            THEN /\ takes[k].fin[c] = "none"
                 /\ Linked(k, Begin(takes[k], c), sessions[st], starts'[st], stops'[st],
                           DOMAIN takes)
            ELSE Linked(k, takes[k], sessions[st], starts'[st], stops'[st], DOMAIN takes)
  PROVE  IInv'
<1>1. TypeOK /\ Calls /\ Links /\ Books(takes, usedPorts) /\ Apart(DOMAIN takes)
  BY DEF IInv
<1>2. PICK K : K = sessions[st]
  OBVIOUS
<1>3. \A k \in K : k \in DOMAIN takes /\ k.start = st
  BY <1>1, <1>2 DEF TypeOK, Calls
<1>4. PICK T : T = takes'
  OBVIOUS
<1>5. T = BeginFinalize(takes, K, c) /\ usedPorts' = usedPorts \ PastExit(takes, K)
  BY <1>2, <1>4 DEF FinalizeAll, PortsPastExit, PastExit
<1>6. /\ DOMAIN T = DOMAIN takes
      /\ \A k \in K : T[k] = Begin(takes[k], c)
      /\ \A k \in DOMAIN takes \ K : T[k] = takes[k]
  BY <1>3, <1>5 DEF BeginFinalize, Begin
<1>7. Books(T, usedPorts')
  <2>1. \A k \in K : takes[k].phase = "registered" /\ takes[k].fin[c] = "none"
    BY <1>1, <1>2, <1>3 DEF Links, Linked
  <2>2. K \subseteq DOMAIN takes
    BY <1>3
  <2> QED
    BY <1>1, <1>5, <2>1, <2>2, BooksBegin
<1>8. TypeOK'
  <2>1. usedPorts' \subseteq PortMin..PortMax /\ \A k \in DOMAIN T : T[k] \in Take
    BY <1>7 DEF Books, Shape
  <2>2. active' \in Start \union {None}
    BY <1>1 DEF TypeOK
  <2> QED
    BY <1>1, <1>4, <1>6, <2>1, <2>2 DEF TypeOK
<1>9. Calls'
  <2>1. \A s \in Start : starts'[s] \in {"idle", "preparing"} => stops'[s] = "none"
    BY <1>1 DEF Calls
  <2>2. active' # None => /\ active' \in Start /\ stops'[active'] = "none"
                          /\ starts'[active'] \in {"launching", "started"}
    BY <1>1 DEF Calls
  <2> QED
    BY <1>1, <1>4, <1>6, <2>1, <2>2 DEF Calls
<1>10. Links'
  <2>1. SUFFICES ASSUME NEW k \in DOMAIN takes
                 PROVE  Linked(k, T[k], sessions[k.start], starts'[k.start],
                               stops'[k.start], DOMAIN takes)
    BY <1>4, <1>6 DEF Links
  <2>2. k.start \in Start
    BY <1>1 DEF TypeOK, TakeId
  <2>3. CASE k.start # st
    <3>1. k \notin K
      BY <1>3, <2>3
    <3> QED
      BY <1>1, <1>6, <2>2, <2>3, <3>1 DEF Links
  <2>4. CASE k.start = st
    BY <1>2, <1>6, <2>4
  <2> QED
    BY <2>3, <2>4
<1> QED
  BY <1>1, <1>4, <1>6, <1>7, <1>8, <1>9, <1>10 DEF IInv

LEMMA LinkedStopping ==
  ASSUME NEW k, NEW t, NEW S, NEW a, NEW z, NEW D, Linked(k, t, S, a, z, D),
         z \in {"none", "renaming"}, NEW y \in {"renaming", "stopping"}
  PROVE  Linked(k, t, S, a, y, D)
BY DEF Linked

LEMMA StopBegins ==
  ASSUME IInv, NEW st \in Start, stops[st] \in {"none", "renaming"},
         starts[st] \notin {"idle", "preparing"},
         stops' = [stops EXCEPT ![st] = "stopping"],
         FinalizeAll(sessions[st], "stop"),
         active' \in {None, active}, active' # st,
         UNCHANGED <<starts, snapshot, live, announced, sessions, attaching>>
  PROVE  IInv'
<1>1. TypeOK /\ Links /\ Books(takes, usedPorts) /\ "stop" \in Cause
  BY DEF IInv, Cause
<1>2. stops'[st] = "stopping" /\ \A s \in Start \ {st} : stops'[s] = stops[s]
  BY <1>1 DEF TypeOK
<1>3. /\ starts' \in [Start -> {"idle", "preparing", "launching", "started",
                                "aborting", "failed"}]
      /\ stops' \in [Start -> {"none", "renaming", "stopping", "stopped"}]
  BY <1>1 DEF TypeOK
<1>4. ASSUME NEW k \in DOMAIN takes, k.start = st
      PROVE  IF k \in sessions[st]
             THEN /\ takes[k].fin["stop"] = "none"
                  /\ Linked(k, Begin(takes[k], "stop"), sessions[st], starts'[st],
                            stops'[st], DOMAIN takes)
             ELSE Linked(k, takes[k], sessions[st], starts'[st], stops'[st], DOMAIN takes)
  <2>1. Linked(k, takes[k], sessions[st], starts[st], stops[st], DOMAIN takes)
    BY <1>1, <1>4 DEF Links
  <2>2. Shape(takes[k])
    BY <1>1 DEF Books
  <2>3. CASE k \in sessions[st]
    BY <1>2, <2>1, <2>2, <2>3, LinkedStop
  <2>4. CASE k \notin sessions[st]
    <3>1. Linked(k, takes[k], sessions[st], starts[st], "stopping", DOMAIN takes)
      BY <2>1, LinkedStopping
    <3> QED
      BY <1>2, <2>4, <3>1
  <2> QED
    BY <2>3, <2>4
<1> QED
  BY <1>1, <1>2, <1>3, <1>4, TeardownKeeps

LEMMA StopRequestedKeeps ==
  ASSUME IInv, NEW named \in BOOLEAN, StopRequested(named)
  PROVE  IInv'
<1>1. TypeOK /\ Calls /\ Links
  BY DEF IInv
<1>2. PICK st : st = active
  OBVIOUS
<1>3. /\ st \in Start /\ stops[st] = "none" /\ starts[st] \in {"launching", "started"}
      /\ active' = None /\ None # st
      /\ UNCHANGED <<starts, snapshot, live, announced, sessions, attaching>>
  BY <1>1, <1>2, NoneAssumption DEF StopRequested, Calls, producerVars
<1>4. CASE named
  <2>1. stops' = [stops EXCEPT ![st] = "renaming"] /\ UNCHANGED <<takes, usedPorts>>
    BY <1>2, <1>4 DEF StopRequested
  <2>2. stops'[st] = "renaming" /\ \A s \in Start \ {st} : stops'[s] = stops[s]
    BY <1>1, <1>3, <2>1 DEF TypeOK
  <2>3. ASSUME NEW k \in DOMAIN takes
        PROVE  Linked(k, takes[k], sessions[k.start], starts'[k.start], stops'[k.start],
                      DOMAIN takes)
    <3>1. /\ k.start \in Start
          /\ Linked(k, takes[k], sessions[k.start], starts[k.start], stops[k.start],
                    DOMAIN takes)
      BY <1>1 DEF TypeOK, TakeId, Links
    <3>2. CASE k.start # st
      BY <1>3, <2>2, <3>1, <3>2
    <3>3. CASE k.start = st
      <4>1. Linked(k, takes[k], sessions[st], starts[st], "renaming", DOMAIN takes)
        BY <1>3, <3>1, <3>3, LinkedStopping
      <4> QED
        BY <1>3, <2>2, <3>3, <4>1
    <3> QED
      BY <3>2, <3>3
  <2>4. \A s \in Start : starts'[s] \in {"idle", "preparing"} => stops'[s] = "none"
    BY <1>1, <1>3, <2>2 DEF Calls
  <2>5. /\ starts' \in [Start -> {"idle", "preparing", "launching", "started",
                                  "aborting", "failed"}]
        /\ stops' \in [Start -> {"none", "renaming", "stopping", "stopped"}]
        /\ snapshot' \in [Start -> SUBSET Producer]
    BY <1>1, <1>3, <2>1 DEF TypeOK
  <2> QED
    BY <1>3, <2>1, <2>3, <2>4, <2>5, CallMoves
<1>5. CASE ~named
  <2>1. stops' = [stops EXCEPT ![st] = "stopping"] /\ FinalizeAll(sessions[st], "stop")
    BY <1>2, <1>5 DEF StopRequested
  <2> QED
    BY <1>3, <2>1, StopBegins
<1> QED
  BY <1>4, <1>5

LEMMA RenamedKeeps ==
  ASSUME IInv, NEW st \in Start, Renamed(st)
  PROVE  IInv'
<1>1. /\ stops[st] = "renaming" /\ stops' = [stops EXCEPT ![st] = "stopping"]
      /\ FinalizeAll(sessions[st], "stop")
      /\ UNCHANGED <<active, starts, snapshot, live, announced, sessions, attaching>>
  BY DEF Renamed, producerVars
<1>2. active # st /\ starts[st] \notin {"idle", "preparing"}
  <2>1. Calls /\ None # st
    BY NoneAssumption DEF IInv
  <2> QED
    BY <1>1, <2>1 DEF Calls
<1> QED
  BY <1>1, <1>2, StopBegins

LEMMA LinkedAborting ==
  ASSUME NEW k, NEW t, NEW S, NEW a, NEW z, NEW D, Linked(k, t, S, a, z, D),
         k \notin S, a = "launching",
         k.via = "snapshot" => t.phase \in {"registered", "failed", "starved"}
  PROVE  Linked(k, t, S, "aborting", z, D)
BY DEF Linked

LEMMA StartAbortsKeeps ==
  ASSUME IInv, NEW st \in Start, StartAborts(st)
  PROVE  IInv'
<1>1. /\ starts[st] = "launching" /\ starts' = [starts EXCEPT ![st] = "aborting"]
      /\ \A k \in Tasks(st) : Settled(k)
      /\ FinalizeAll(sessions[st], "abort")
      /\ active' = None /\ None # st
      /\ UNCHANGED <<stops, snapshot, live, announced, sessions, attaching>>
  BY NoneAssumption DEF StartAborts, producerVars
<1>2. TypeOK /\ Links /\ Books(takes, usedPorts) /\ "abort" \in Cause
  BY DEF IInv, Cause
<1>3. starts'[st] = "aborting" /\ \A s \in Start \ {st} : starts'[s] = starts[s]
  BY <1>1, <1>2 DEF TypeOK
<1>4. /\ starts' \in [Start -> {"idle", "preparing", "launching", "started",
                                "aborting", "failed"}]
      /\ stops' \in [Start -> {"none", "renaming", "stopping", "stopped"}]
  BY <1>1, <1>2 DEF TypeOK
<1>5. ASSUME NEW k \in DOMAIN takes, k.start = st
      PROVE  IF k \in sessions[st]
             THEN /\ takes[k].fin["abort"] = "none"
                  /\ Linked(k, Begin(takes[k], "abort"), sessions[st], starts'[st],
                            stops'[st], DOMAIN takes)
             ELSE Linked(k, takes[k], sessions[st], starts'[st], stops'[st], DOMAIN takes)
  <2>1. Linked(k, takes[k], sessions[st], starts[st], stops[st], DOMAIN takes)
    BY <1>2, <1>5 DEF Links
  <2>2. Shape(takes[k])
    BY <1>2 DEF Books
  <2>3. CASE k \in sessions[st]
    BY <1>1, <1>3, <2>1, <2>2, <2>3, LinkedAbort
  <2>4. CASE k \notin sessions[st]
    <3>1. k.via = "snapshot" => takes[k].phase \in {"registered", "failed", "starved"}
      BY <1>1, <1>5 DEF Tasks, TakesOf, Settled
    <3>2. Linked(k, takes[k], sessions[st], "aborting", stops[st], DOMAIN takes)
      BY <1>1, <2>1, <2>4, <3>1, LinkedAborting
    <3> QED
      BY <1>1, <1>3, <2>4, <3>2
  <2> QED
    BY <2>3, <2>4
<1> QED
  BY <1>1, <1>2, <1>3, <1>4, <1>5, TeardownKeeps

LEMMA InitialTakesApart ==
  ASSUME NEW st \in Start, NEW S, S \subseteq Producer
  PROVE  /\ InitialTakes(st, S) \subseteq TakeId
         /\ \A k \in InitialTakes(st, S) : k.start = st /\ k.via = "snapshot"
         /\ Apart(InitialTakes(st, S))
<1>1. \A o \in PairedPeers(S), source \in {"mic", "webcam"} :
        /\ FirstOf(S, o, source) \in S
        /\ Owner[FirstOf(S, o, source)] = o
        /\ Source[FirstOf(S, o, source)] = source
  BY DEF FirstOf, PairedPeers
<1>2. None \notin Producer
  BY NoneAssumption
<1>3. ASSUME NEW k \in InitialTakes(st, S)
      PROVE  /\ k \in TakeId /\ k.start = st /\ k.via = "snapshot"
             /\ IsCombined(k) =>
                    \E o \in PairedPeers(S) :
                        /\ Owner[k.main] = o
                        /\ k = [start |-> st, main |-> FirstOf(S, o, "mic"),
                                webcam |-> FirstOf(S, o, "webcam"), via |-> "snapshot"]
             /\ ~IsCombined(k) => k = [start |-> st, main |-> k.main, webcam |-> None,
                                       via |-> "snapshot"]
  <2>1. CASE \E o \in PairedPeers(S) :
                k = [start |-> st, main |-> FirstOf(S, o, "mic"),
                     webcam |-> FirstOf(S, o, "webcam"), via |-> "snapshot"]
    <3>1. PICK o \in PairedPeers(S) :
                k = [start |-> st, main |-> FirstOf(S, o, "mic"),
                     webcam |-> FirstOf(S, o, "webcam"), via |-> "snapshot"]
      BY <2>1
    <3>2. PICK m \in S, w \in S : m = FirstOf(S, o, "mic") /\ w = FirstOf(S, o, "webcam")
      BY <1>1
    <3>3. /\ m \in Producer /\ w \in Producer /\ w # None
          /\ Owner[m] = o /\ Owner[w] = o /\ Source[m] = "mic" /\ Source[w] = "webcam"
          /\ k = [start |-> st, main |-> m, webcam |-> w, via |-> "snapshot"]
      BY <1>1, <1>2, <3>1, <3>2
    <3> QED
      BY <3>1, <3>3 DEF TakeId, IsCombined
  <2>2. CASE \E p \in S : k = [start |-> st, main |-> p, webcam |-> None, via |-> "snapshot"]
    BY <2>2 DEF TakeId, IsCombined
  <2> QED
    BY <2>1, <2>2 DEF InitialTakes
<1>4. Apart(InitialTakes(st, S))
  <2> SUFFICES ASSUME NEW j \in InitialTakes(st, S), NEW k \in InitialTakes(st, S),
                      SameKey(j, k)
               PROVE  j = k
    BY DEF Apart
  <2>1. CASE IsCombined(j)
    <3>1. IsCombined(k) /\ Owner[j.main] = Owner[k.main]
      BY <2>1 DEF SameKey
    <3> QED
      BY <1>3, <2>1, <3>1
  <2>2. CASE ~IsCombined(j)
    BY <1>3, <2>2 DEF SameKey
  <2> QED
    BY <2>1, <2>2
<1> QED
  BY <1>3, <1>4

LEMMA SessionCreatedKeeps ==
  ASSUME IInv, NEW st \in Start, SessionCreated(st)
  PROVE  IInv'
<1>1. TypeOK /\ Calls /\ Links /\ Books(takes, usedPorts) /\ Apart(DOMAIN takes)
  BY DEF IInv
<1>2. PICK K : K = InitialTakes(st, snapshot[st])
  OBVIOUS
<1>3. /\ starts[st] = "preparing" /\ active' = st
      /\ starts' = [starts EXCEPT ![st] = "launching"]
      /\ takes' = Launch(takes, K)
      /\ UNCHANGED <<stops, snapshot, live, announced, sessions, attaching, usedPorts>>
  BY <1>2 DEF SessionCreated, producerVars
<1>4. /\ K \subseteq TakeId
      /\ \A k \in K : k.start = st /\ k.via = "snapshot"
      /\ Apart(K)
  BY <1>1, <1>2, InitialTakesApart DEF TypeOK
<1>5. \A k \in DOMAIN takes :
        /\ k.start \in Start /\ k.start # st
        /\ Linked(k, takes[k], sessions[k.start], starts[k.start], stops[k.start],
                  DOMAIN takes)
  <2>1. \A k \in DOMAIN takes :
          /\ k.start \in Start
          /\ Linked(k, takes[k], sessions[k.start], starts[k.start], stops[k.start],
                    DOMAIN takes)
    BY <1>1 DEF TypeOK, TakeId, Links
  <2> QED
    BY <1>3, <2>1 DEF Linked
<1>6. K \intersect DOMAIN takes = {}
  BY <1>4, <1>5
<1>7. PICK T : T = takes'
  OBVIOUS
<1>8. /\ DOMAIN T = DOMAIN takes \union K
      /\ \A k \in DOMAIN takes : T[k] = takes[k]
      /\ \A k \in K : T[k] = NewTake(k)
  BY <1>3, <1>6, <1>7 DEF Launch
<1>9. Books(T, usedPorts)
  BY <1>1, <1>3, <1>4, <1>6, <1>7, BooksLaunch
<1>10. starts'[st] = "launching" /\ \A s \in Start \ {st} : starts'[s] = starts[s]
  BY <1>1, <1>3 DEF TypeOK
<1>11. TypeOK'
  <2>1. DOMAIN T \subseteq TakeId /\ \A k \in DOMAIN T : T[k] \in Take
    BY <1>9 DEF Books, Shape
  <2>2. /\ sessions' \in [Start -> SUBSET DOMAIN T]
        /\ attaching' \subseteq (DOMAIN T) \X Producer
    BY <1>1, <1>3, <1>8 DEF TypeOK
  <2>3. starts' \in [Start -> {"idle", "preparing", "launching", "started",
                               "aborting", "failed"}]
    BY <1>1, <1>3 DEF TypeOK
  <2> QED
    BY <1>1, <1>3, <1>7, <2>1, <2>2, <2>3 DEF TypeOK
<1>12. Calls'
  <2>1. stops[st] = "none"
    BY <1>1, <1>3 DEF Calls
  <2>2. \A k \in DOMAIN T : k.via = "notify" => announced[k.main] = "yes"
    BY <1>1, <1>4, <1>8 DEF Calls
  <2>3. \A s \in Start : starts'[s] \in {"idle", "preparing"} => stops'[s] = "none"
    BY <1>1, <1>3, <1>10 DEF Calls
  <2> QED
    BY <1>1, <1>3, <1>7, <1>10, <2>1, <2>2, <2>3 DEF Calls
<1>13. Links'
  <2>1. SUFFICES ASSUME NEW k \in DOMAIN T
                 PROVE  Linked(k, T[k], sessions[k.start], starts'[k.start],
                               stops[k.start], DOMAIN T)
    BY <1>3, <1>7 DEF Links
  <2>2. CASE k \in DOMAIN takes
    <3>1. Linked(k, takes[k], sessions[k.start], starts[k.start], stops[k.start], DOMAIN T)
      BY <1>5, <1>8, <2>2, LinkedMore
    <3> QED
      BY <1>5, <1>8, <1>10, <2>2, <3>1
  <2>3. CASE k \in K
    <3>1. k \notin sessions[st]
      BY <1>1, <1>6, <2>3 DEF TypeOK
    <3>2. Linked(k, NewTake(k), sessions[st], "launching", stops[st], DOMAIN T)
      BY <1>4, <2>3, <3>1, LinkedNew
    <3> QED
      BY <1>4, <1>8, <1>10, <2>3, <3>2
  <2> QED
    BY <1>8, <2>2, <2>3
<1>14. Apart(DOMAIN T)
  <2> SUFFICES ASSUME NEW j \in DOMAIN T, NEW k \in DOMAIN T,
                      j.via = "snapshot", k.via = "snapshot", j.start = k.start, SameKey(j, k)
               PROVE  j = k
    BY DEF Apart
  <2>1. CASE j \in K /\ k \in K
    BY <1>4, <2>1 DEF Apart
  <2>2. CASE j \in DOMAIN takes /\ k \in DOMAIN takes
    BY <1>1, <2>2 DEF Apart
  <2> QED
    BY <1>4, <1>5, <1>8, <2>1, <2>2
<1> QED
  BY <1>3, <1>7, <1>9, <1>11, <1>12, <1>13, <1>14 DEF IInv

\* A take is launched for a producer that is announced, after the sessions it
\* supersedes have been taken care of (T).
LEMMA NotifiedLaunches ==
  ASSUME IInv, active \in Start, NEW p \in Producer, NEW w \in Producer \union {None},
         NEW nt, nt = NotifiedTake(p, w), nt \in TakeId,
         announced[p] # "yes", announced' = [announced EXCEPT ![p] = "yes"],
         live' \subseteq Producer,
         UNCHANGED <<active, starts, stops, snapshot, attaching>>,
         NEW T, DOMAIN T = DOMAIN takes, Books(T, usedPorts'),
         takes' = Launch(T, {nt}),
         sessions' \in [Start -> SUBSET DOMAIN takes],
         \A st \in Start : sessions'[st] \subseteq sessions[st],
         \A k \in DOMAIN takes :
            Linked(k, T[k], sessions'[k.start], starts[k.start], stops[k.start],
                   DOMAIN takes)
  PROVE  IInv'
<1>1. TypeOK /\ Calls /\ Apart(DOMAIN takes)
  BY DEF IInv
<1>2. nt.start = active /\ nt.main = p /\ nt.via = "notify"
  BY DEF NotifiedTake
<1>3. {nt} \intersect DOMAIN takes = {}
  BY <1>1, <1>2 DEF Calls
<1>4. PICK T2 : T2 = takes'
  OBVIOUS
<1>5. /\ DOMAIN T2 = DOMAIN takes \union {nt}
      /\ \A k \in DOMAIN takes : T2[k] = T[k]
      /\ T2[nt] = NewTake(nt)
  BY <1>3, <1>4 DEF Launch
<1>6. Books(T2, usedPorts')
  BY <1>3, <1>4, BooksLaunch
<1>7. announced'[p] = "yes" /\ \A q \in Producer \ {p} : announced'[q] = announced[q]
  BY <1>1 DEF TypeOK
<1>8. TypeOK'
  <2>1. /\ DOMAIN T2 \subseteq TakeId /\ \A k \in DOMAIN T2 : T2[k] \in Take
        /\ usedPorts' \subseteq PortMin..PortMax
    BY <1>6 DEF Books, Shape
  <2>2. /\ sessions' \in [Start -> SUBSET DOMAIN T2]
        /\ attaching' \subseteq (DOMAIN T2) \X Producer
    BY <1>1, <1>5 DEF TypeOK
  <2>3. announced' \in [Producer -> {"no", "pending", "yes", "rejected"}]
    BY <1>1 DEF TypeOK
  <2> QED
    BY <1>1, <1>4, <2>1, <2>2, <2>3 DEF TypeOK
<1>9. Calls'
  <2>1. \A k \in DOMAIN T2 : k.via = "notify" => announced'[k.main] = "yes"
    <3>1. \A k \in DOMAIN takes : k.main \in Producer
      BY <1>1 DEF TypeOK, TakeId
    <3> QED
      BY <1>1, <1>2, <1>5, <1>7, <3>1 DEF Calls
  <2>2. \A st \in Start : \A k \in sessions'[st] : k.start = st
    BY <1>1 DEF Calls
  <2> QED
    BY <1>1, <1>4, <2>1, <2>2 DEF Calls
<1>10. Links'
  <2>1. SUFFICES ASSUME NEW k \in DOMAIN T2
                 PROVE  Linked(k, T2[k], sessions'[k.start], starts[k.start],
                               stops[k.start], DOMAIN T2)
    BY <1>4 DEF Links
  <2>2. CASE k \in DOMAIN takes
    BY <1>5, <2>2, LinkedMore
  <2>3. CASE k = nt
    <3>1. nt \notin sessions'[active]
      BY <1>3
    <3>2. starts[active] \notin {"idle", "preparing"}
      BY <1>1, NoneAssumption DEF Calls
    <3>3. Linked(nt, NewTake(nt), sessions'[active], starts[active], stops[active],
                 DOMAIN T2)
      BY <1>2, <3>1, <3>2, LinkedNew
    <3> QED
      BY <1>2, <1>5, <2>3, <3>3
  <2> QED
    BY <1>5, <2>2, <2>3
<1>11. Apart(DOMAIN T2)
  BY <1>1, <1>2, <1>5 DEF Apart
<1> QED
  BY <1>4, <1>6, <1>8, <1>9, <1>10, <1>11 DEF IInv

LEMMA LinkedOther ==
  ASSUME NEW k, NEW t, NEW S, NEW a, NEW z, NEW D, Linked(k, t, S, a, z, D),
         NEW S2, k \in S2 <=> k \in S
  PROVE  Linked(k, t, S2, a, z, D)
BY DEF Linked

Without(K) == [sessions EXCEPT ![active] = @ \ K]

\* The sessions in K, which are the active state's, are finalized for a closing
\* producer and leave their map; T is the table they are finalized in.
LEMMA ClosingLinks ==
  ASSUME IInv, active \in Start, NEW K, K \subseteq sessions[active],
         NEW T, DOMAIN T = DOMAIN takes, \A k \in DOMAIN T : Shape(T[k]),
         \A k \in DOMAIN takes :
            Linked(k, T[k], sessions[k.start], starts[k.start], stops[k.start],
                   DOMAIN takes),
         NEW R, R = Without(K)
  PROVE  /\ R \in [Start -> SUBSET DOMAIN takes]
         /\ \A st \in Start : R[st] \subseteq sessions[st]
         /\ \A k \in K : T[k].phase = "registered" /\ T[k].fin["closing"] = "none"
         /\ \A k \in DOMAIN takes :
                Linked(k, BeginFinalize(T, K, "closing")[k], R[k.start],
                       starts[k.start], stops[k.start], DOMAIN takes)
<1>1. TypeOK /\ Calls
  BY DEF IInv
<1>2. /\ R \in [Start -> SUBSET DOMAIN takes]
      /\ R[active] = sessions[active] \ K
      /\ \A st \in Start \ {active} : R[st] = sessions[st]
  BY <1>1 DEF TypeOK, Without
<1>3. /\ stops[active] = "none" /\ starts[active] \in {"launching", "started"}
      /\ \A k \in K : k \in DOMAIN takes /\ k.start = active
  BY <1>1, NoneAssumption DEF TypeOK, Calls
<1>4. /\ \A k \in K : BeginFinalize(T, K, "closing")[k] = Begin(T[k], "closing")
      /\ \A k \in DOMAIN takes \ K : BeginFinalize(T, K, "closing")[k] = T[k]
  BY <1>3 DEF BeginFinalize, Begin
<1>5. \A k \in K : T[k].phase = "registered" /\ T[k].fin["closing"] = "none"
  BY <1>3 DEF Linked
<1>6. ASSUME NEW k \in DOMAIN takes
      PROVE  Linked(k, BeginFinalize(T, K, "closing")[k], R[k.start],
                    starts[k.start], stops[k.start], DOMAIN takes)
  <2>1. CASE k \in K
    <3>1. k \in sessions[active] /\ k \notin R[active] /\ Shape(T[k]) /\ k.start = active
      BY <1>2, <1>3, <2>1
    <3>2. Linked(k, T[k], sessions[active], starts[active], stops[active], DOMAIN takes)
      BY <3>1
    <3>3. Linked(k, Begin(T[k], "closing"), R[active], starts[active], stops[active],
                 DOMAIN takes)
      BY <1>3, <3>1, <3>2, LinkedClosing
    <3> QED
      BY <1>4, <2>1, <3>1, <3>3
  <2>2. CASE k \notin K
    <3>1. k.start \in Start
      BY <1>1 DEF TypeOK, TakeId
    <3>2. k \in R[k.start] <=> k \in sessions[k.start]
      BY <1>2, <2>2, <3>1
    <3>3. Linked(k, T[k], R[k.start], starts[k.start], stops[k.start], DOMAIN takes)
      BY <3>2, LinkedOther
    <3> QED
      BY <1>4, <2>2, <3>3
  <2> QED
    BY <2>1, <2>2
<1> QED
  BY <1>2, <1>5, <1>6

LEMMA NotifyKeeps ==
  ASSUME IInv, NEW p \in Producer, announced[p] # "yes",
         announced' = [announced EXCEPT ![p] = "yes"],
         live' \subseteq Producer,
         UNCHANGED <<active, starts, stops, snapshot>>,
         NotifyProducerCreated(p)
  PROVE  IInv'
<1>1. TypeOK /\ Calls /\ Links /\ Books(takes, usedPorts) /\ Apart(DOMAIN takes)
  BY DEF IInv
<1>2. \A q \in Producer : announced[q] = "yes" => announced'[q] = "yes"
  BY <1>1 DEF TypeOK
<1>3. ASSUME UNCHANGED <<takes, sessions, usedPorts>>,
             attaching' \subseteq (DOMAIN takes) \X Producer
      PROVE  IInv'
  <2>1. TypeOK'
    BY <1>1, <1>3 DEF TypeOK
  <2>2. Calls'
    <3>1. \A k \in DOMAIN takes : k.main \in Producer
      BY <1>1 DEF TypeOK, TakeId
    <3> QED
      BY <1>1, <1>2, <1>3, <3>1 DEF Calls
  <2>3. Links'
    BY <1>1, <1>3 DEF Links
  <2> QED
    BY <1>1, <1>3, <2>1, <2>2, <2>3 DEF IInv
<1>4. CASE active = None
  <2>1. UNCHANGED <<takes, sessions, attaching, usedPorts>>
    BY <1>4 DEF NotifyProducerCreated
  <2> QED
    BY <1>1, <1>3, <2>1 DEF TypeOK
<1>5. CASE active # None
  <2>1. /\ active \in Start /\ sessions[active] \subseteq DOMAIN takes
    BY <1>1, <1>5 DEF TypeOK
  <2>2. PeersSessions(p) \subseteq sessions[active]
    BY DEF PeersSessions
  <2>3. CASE Source[p] = "mic" /\ SoloWebcams(p) # {}
    <3>1. PICK solo : solo = CHOOSE k \in SoloWebcams(p) : TRUE
      OBVIOUS
    <3>2. solo \in SoloWebcams(p)
      BY <2>3, <3>1
    <3>3. /\ solo \in sessions[active] /\ solo \in TakeId
          /\ Owner[solo.main] = Owner[p] /\ Source[solo.main] = "webcam"
      BY <1>1, <2>1, <2>2, <3>2 DEF SoloWebcams, PeersSessions, TypeOK
    <3>4. PICK w : w = solo.main
      OBVIOUS
    <3>5. w \in Producer
      BY <3>3, <3>4 DEF TakeId
    <3>6. PICK nt : nt = NotifiedTake(p, w)
      OBVIOUS
    <3>7. nt \in TakeId
      BY <2>1, <2>3, <3>3, <3>4, <3>5, <3>6 DEF NotifiedTake, TakeId
    <3>8. PICK T : T = BeginFinalize(takes, {solo}, "closing")
      OBVIOUS
    <3>9. /\ takes' = Launch(T, {nt})
          /\ usedPorts' = usedPorts \ PastExit(takes, {solo})
          /\ sessions' = [sessions EXCEPT ![active] = @ \ {solo}]
          /\ attaching' = attaching
      BY <1>5, <2>3, <3>1, <3>4, <3>6, <3>8
         DEF NotifyProducerCreated, UpgradeToCombined, PortsPastExit, PastExit
    <3>10. /\ \A k \in DOMAIN takes : Shape(takes[k])
           /\ \A k \in DOMAIN takes :
                Linked(k, takes[k], sessions[k.start], starts[k.start], stops[k.start],
                       DOMAIN takes)
      BY <1>1 DEF Books, Links
    <3>11. /\ sessions' \in [Start -> SUBSET DOMAIN takes]
           /\ \A st \in Start : sessions'[st] \subseteq sessions[st]
           /\ takes[solo].phase = "registered" /\ takes[solo].fin["closing"] = "none"
           /\ \A k \in DOMAIN takes :
                Linked(k, T[k], sessions'[k.start], starts[k.start], stops[k.start],
                       DOMAIN takes)
      <4>1. PICK T0 : T0 = takes
        OBVIOUS
      <4>2. PICK R : R = sessions'
        OBVIOUS
      <4>3. PICK K : K = {solo}
        OBVIOUS
      <4>4. /\ DOMAIN T0 = DOMAIN takes
            /\ \A k \in DOMAIN T0 : Shape(T0[k])
            /\ \A k \in DOMAIN takes :
                 Linked(k, T0[k], sessions[k.start], starts[k.start], stops[k.start],
                        DOMAIN takes)
        BY <3>10, <4>1
      <4>5. R = Without(K) /\ K \subseteq sessions[active]
        BY <3>3, <3>9, <4>2, <4>3 DEF Without
      <4>6. /\ R \in [Start -> SUBSET DOMAIN takes]
            /\ \A st \in Start : R[st] \subseteq sessions[st]
            /\ \A k \in K : T0[k].phase = "registered" /\ T0[k].fin["closing"] = "none"
            /\ \A k \in DOMAIN takes :
                 Linked(k, BeginFinalize(T0, K, "closing")[k], R[k.start],
                        starts[k.start], stops[k.start], DOMAIN takes)
        BY <2>1, <4>4, <4>5, ClosingLinks
      <4> QED
        BY <3>8, <4>1, <4>2, <4>3, <4>6
    <3>12. "closing" \in Cause /\ {solo} \subseteq DOMAIN takes
      BY <2>1, <3>3 DEF Cause
    <3>13. Books(T, usedPorts')
      BY <1>1, <3>8, <3>9, <3>11, <3>12, BooksBegin
    <3>14. DOMAIN T = DOMAIN takes
      BY <3>8 DEF BeginFinalize
    <3> QED
      BY <2>1, <3>5, <3>6, <3>7, <3>9, <3>11, <3>13, <3>14, NotifiedLaunches
  <2>4. CASE /\ ~(Source[p] = "mic" /\ SoloWebcams(p) # {})
             /\ Source[p] = "webcam" /\ DetachedCameras(p) # {}
    <3>1. AttachWebcam(p)
      BY <1>5, <2>4 DEF NotifyProducerCreated
    <3>2. DetachedCameras(p) \subseteq DOMAIN takes
      BY <2>1, <2>2 DEF DetachedCameras
    <3>3. /\ UNCHANGED <<takes, sessions, usedPorts>>
          /\ attaching' \subseteq (DOMAIN takes) \X Producer
      BY <1>1, <3>1, <3>2 DEF AttachWebcam, TypeOK
    <3> QED
      BY <1>3, <3>3
  <2>5. CASE /\ ~(Source[p] = "mic" /\ SoloWebcams(p) # {})
             /\ ~(Source[p] = "webcam" /\ DetachedCameras(p) # {})
    <3>1. PICK nt : nt = NotifiedTake(p, None)
      OBVIOUS
    <3>2. /\ takes' = Launch(takes, {nt})
          /\ UNCHANGED <<sessions, attaching, usedPorts>>
      BY <1>5, <2>5, <3>1 DEF NotifyProducerCreated
    <3>3. nt \in TakeId
      BY <2>1, <3>1 DEF NotifiedTake, TakeId
    <3>4. /\ sessions' \in [Start -> SUBSET DOMAIN takes]
          /\ \A st \in Start : sessions'[st] \subseteq sessions[st]
          /\ \A k \in DOMAIN takes :
                Linked(k, takes[k], sessions'[k.start], starts[k.start], stops[k.start],
                       DOMAIN takes)
      BY <1>1, <3>2 DEF TypeOK, Links
    <3>5. PICK T : T = takes
      OBVIOUS
    <3> QED
      BY <1>1, <2>1, <3>1, <3>2, <3>3, <3>4, <3>5, NotifiedLaunches
  <2> QED
    BY <2>3, <2>4, <2>5
<1> QED
  BY <1>4, <1>5

\* What a finalization of t releases, and when.
Hold(t) == <<t.ports, t.ffmpeg>>

\* The table in which the sessions that closing producers end are finalized.
ClosedTable(S) == BeginFinalize(Detach(takes, S), EndedBy(S), "closing")

\* The producers in S close: the sessions they end are finalized and leave their
\* map.  All other takes keep their ports and their process.
LEMMA ClosingTable ==
  ASSUME IInv, active \in Start, NEW S \in SUBSET Producer
  PROVE  /\ EndedBy(S) \subseteq sessions[active]
         /\ DOMAIN ClosedTable(S) = DOMAIN takes
         /\ Books(ClosedTable(S), usedPorts \ PastExit(takes, EndedBy(S)))
         /\ Without(EndedBy(S)) \in [Start -> SUBSET DOMAIN takes]
         /\ \A st \in Start : Without(EndedBy(S))[st] \subseteq sessions[st]
         /\ \A k \in DOMAIN takes :
                Linked(k, ClosedTable(S)[k], Without(EndedBy(S))[k.start],
                       starts[k.start], stops[k.start], DOMAIN takes)
         /\ \A k \in DOMAIN takes \ EndedBy(S) :
                Hold(ClosedTable(S)[k]) = Hold(takes[k])
<1>1. PICK K : K = EndedBy(S)
  OBVIOUS
<1>2. PICK T : T = BeginFinalize(Detach(takes, S), K, "closing")
  OBVIOUS
<1>3. PICK R : R = Without(K)
  OBVIOUS
<1>4. TypeOK /\ Calls /\ Links /\ Books(takes, usedPorts)
  BY DEF IInv
<1>5. K \subseteq sessions[active] /\ sessions[active] \subseteq DOMAIN takes
  BY <1>1, <1>4 DEF EndedBy, TypeOK
<1>6. PICK T0 : T0 = Detach(takes, S)
  OBVIOUS
<1>7. DOMAIN T0 = DOMAIN takes /\ DOMAIN T = DOMAIN takes
  BY <1>2, <1>6 DEF Detach, BeginFinalize
<1>8. \A k \in DOMAIN takes :
        /\ Shape(T0[k])
        /\ T0[k].phase = takes[k].phase /\ T0[k].ports = takes[k].ports
        /\ T0[k].fin = takes[k].fin /\ T0[k].ffmpeg = takes[k].ffmpeg
        /\ Held(T0[k]) <=> Held(takes[k])
        /\ Single(T0[k]) <=> Single(takes[k])
  <2> SUFFICES ASSUME NEW k \in DOMAIN takes
               PROVE  /\ Shape(T0[k])
                      /\ T0[k].phase = takes[k].phase /\ T0[k].ports = takes[k].ports
                      /\ T0[k].fin = takes[k].fin /\ T0[k].ffmpeg = takes[k].ffmpeg
                      /\ Held(T0[k]) <=> Held(takes[k])
                      /\ Single(T0[k]) <=> Single(takes[k])
    OBVIOUS
  <2>1. Shape(takes[k])
    BY <1>4 DEF Books
  <2>2. T0[k] = takes[k] \/ T0[k] = [takes[k] EXCEPT !.video = None]
    BY <1>6 DEF Detach
  <2> QED
    BY <2>1, <2>2, VideoShape
<1>9. Books(T0, usedPorts)
  BY <1>4, <1>7, <1>8, BooksKept
<1>10. ASSUME NEW k \in DOMAIN takes
       PROVE  Linked(k, T0[k], sessions[k.start], starts[k.start], stops[k.start],
                     DOMAIN takes)
  <2>1. Linked(k, takes[k], sessions[k.start], starts[k.start], stops[k.start],
               DOMAIN takes)
    BY <1>4 DEF Links
  <2> QED
    BY <1>8, <2>1, LinkedFin
<1>11. /\ R \in [Start -> SUBSET DOMAIN takes]
       /\ \A st \in Start : R[st] \subseteq sessions[st]
       /\ \A k \in K : T0[k].phase = "registered" /\ T0[k].fin["closing"] = "none"
       /\ \A k \in DOMAIN takes :
            Linked(k, T[k], R[k.start], starts[k.start], stops[k.start], DOMAIN takes)
  <2>1. \A k \in DOMAIN T0 : Shape(T0[k])
    BY <1>7, <1>8
  <2>2. T = BeginFinalize(T0, K, "closing")
    BY <1>2, <1>6
  <2> QED
    BY <1>5, <1>7, <1>10, <1>3, <2>1, <2>2, ClosingLinks
<1>12. Books(T, usedPorts \ PastExit(takes, K))
  <2>1. PastExit(T0, K) = PastExit(takes, K)
    <3>1. \A k \in K : T0[k].ports = takes[k].ports /\ T0[k].ffmpeg = takes[k].ffmpeg
      BY <1>5, <1>8
    <3> QED
      BY <3>1 DEF PastExit
  <2>2. "closing" \in Cause /\ K \subseteq DOMAIN T0
    BY <1>5, <1>7 DEF Cause
  <2> QED
    BY <1>2, <1>6, <1>9, <1>11, <2>1, <2>2, BooksBegin
<1>13. \A k \in DOMAIN takes \ K : T[k] = T0[k]
  BY <1>2, <1>6, <1>7 DEF BeginFinalize
<1>14. \A k \in DOMAIN takes \ K : Hold(T[k]) = Hold(takes[k])
  BY <1>8, <1>13 DEF Hold
<1>15. ClosedTable(S) = T
  BY <1>1, <1>2 DEF ClosedTable
<1> QED
  BY <1>1, <1>3, <1>5, <1>7, <1>11, <1>12, <1>14, <1>15

LEMMA ClosingKeeps ==
  ASSUME IInv, NEW S \in SUBSET Producer, CloseProducers(S)
  PROVE  IInv'
<1>1. TypeOK /\ Calls /\ Links /\ Books(takes, usedPorts) /\ Apart(DOMAIN takes)
  BY DEF IInv
<1>2. /\ UNCHANGED <<active, starts, stops, snapshot, announced, attaching>>
      /\ live' \subseteq Producer /\ NotifyProducersClosing(S)
  BY <1>1 DEF CloseProducers, callVars, TypeOK
<1>3. CASE active = None
  <2>1. UNCHANGED <<takes, sessions, usedPorts>>
    BY <1>2, <1>3 DEF NotifyProducersClosing
  <2>2. TypeOK' /\ Calls' /\ Links'
    BY <1>1, <1>2, <2>1 DEF TypeOK, Calls, Links
  <2> QED
    BY <1>1, <2>1, <2>2 DEF IInv
<1>4. CASE active # None
  <2>1. active \in Start
    BY <1>1, <1>4 DEF TypeOK
  <2>2. PICK K : K = EndedBy(S)
    OBVIOUS
  <2>3. PICK T : T = takes'
    OBVIOUS
  <2>4. PICK R : R = sessions'
    OBVIOUS
  <2>5. /\ T = ClosedTable(S) /\ R = Without(K)
        /\ usedPorts' = usedPorts \ PastExit(takes, K)
    BY <1>2, <1>4, <2>2, <2>3, <2>4
       DEF NotifyProducersClosing, PortsPastExit, PastExit, Without, ClosedTable
  <2>6. /\ DOMAIN T = DOMAIN takes /\ Books(T, usedPorts')
        /\ R \in [Start -> SUBSET DOMAIN takes]
        /\ \A st \in Start : R[st] \subseteq sessions[st]
        /\ \A k \in DOMAIN takes :
              Linked(k, T[k], R[k.start], starts[k.start], stops[k.start], DOMAIN takes)
    BY <2>1, <2>2, <2>5, ClosingTable
  <2>7. TypeOK'
    <3>1. /\ DOMAIN T \subseteq TakeId /\ \A k \in DOMAIN T : T[k] \in Take
          /\ usedPorts' \subseteq PortMin..PortMax
      BY <2>6 DEF Books, Shape
    <3> QED
      BY <1>1, <1>2, <2>3, <2>4, <2>6, <3>1 DEF TypeOK
  <2>8. Calls'
    <3>1. \A st \in Start : \A k \in sessions'[st] : k.start = st
      BY <1>1, <2>4, <2>6 DEF Calls
    <3> QED
      BY <1>1, <1>2, <2>3, <2>6, <3>1 DEF Calls
  <2>9. Links'
    BY <1>2, <2>3, <2>4, <2>6 DEF Links
  <2> QED
    BY <1>1, <2>3, <2>6, <2>7, <2>8, <2>9 DEF IInv
<1> QED
  BY <1>3, <1>4

\* The last peer leaves: closing producers first, then stop() on what is left.
LEMMA CloseLastPeerKeeps ==
  ASSUME IInv, NEW S \in SUBSET Producer, CloseLastPeer(S)
  PROVE  IInv'
<1>1. TypeOK /\ Calls /\ Links /\ Books(takes, usedPorts) /\ Apart(DOMAIN takes)
  BY DEF IInv
<1>2. CASE active = None
  BY <1>2, ClosingKeeps DEF CloseLastPeer
<1>3. CASE active # None
  <2>1. PICK st : st = active
    OBVIOUS
  <2>2. PICK K : K = EndedBy(S)
    OBVIOUS
  <2>3. PICK T : T = ClosedTable(S)
    OBVIOUS
  <2>4. PICK R : R = Without(K)
    OBVIOUS
  <2>5. PICK U : U = usedPorts \ PastExit(takes, K)
    OBVIOUS
  <2>6. PICK T2 : T2 = BeginFinalize(T, R[st], "stop")
    OBVIOUS
  <2>7. /\ st \in Start /\ stops[st] = "none" /\ starts[st] \in {"launching", "started"}
    BY <1>1, <1>3, <2>1 DEF Calls
  <2>8. /\ K \subseteq sessions[st] /\ DOMAIN T = DOMAIN takes /\ Books(T, U)
        /\ R \in [Start -> SUBSET DOMAIN takes]
        /\ \A s \in Start : R[s] \subseteq sessions[s]
        /\ \A k \in DOMAIN takes :
              Linked(k, T[k], R[k.start], starts[k.start], stops[k.start], DOMAIN takes)
        /\ \A k \in DOMAIN takes \ K : Hold(T[k]) = Hold(takes[k])
    <3>1. active \in Start
      BY <2>1, <2>7
    <3> QED
      BY <2>1, <2>2, <2>3, <2>4, <2>5, <3>1, ClosingTable
  <2>9. R[st] = sessions[st] \ K
    BY <1>1, <2>1, <2>4, <2>7 DEF Without, TypeOK
  <2>10. /\ active' = None /\ stops' = [stops EXCEPT ![st] = "stopping"]
         /\ live' \subseteq Producer
         /\ takes' = T2 /\ sessions' = R
         /\ usedPorts' = usedPorts \ PastExit(takes, sessions[st])
         /\ UNCHANGED <<starts, snapshot, announced, attaching>>
    <3>1. live' \subseteq Producer
      BY <1>1, <1>3 DEF CloseLastPeer, TypeOK
    <3>2. usedPorts' = usedPorts \ PastExit(takes, sessions[st])
      BY <1>3, <2>1 DEF CloseLastPeer, PortsPastExit, PastExit
    <3>3. sessions' = R /\ takes' = T2
      BY <1>3, <2>1, <2>2, <2>3, <2>4, <2>6, <2>9 DEF CloseLastPeer, Without, ClosedTable
    <3> QED
      BY <1>3, <2>1, <3>1, <3>2, <3>3 DEF CloseLastPeer
  <2>11. \A k \in R[st] :
           /\ k \in DOMAIN takes /\ k \notin K /\ k.start = st
           /\ T[k].phase = "registered" /\ T[k].fin["stop"] = "none"
    <3> SUFFICES ASSUME NEW k \in R[st]
                 PROVE  /\ k \in DOMAIN takes /\ k \notin K /\ k.start = st
                        /\ T[k].phase = "registered" /\ T[k].fin["stop"] = "none"
      OBVIOUS
    <3>1. k \in DOMAIN takes /\ k \notin K /\ k.start = st
      BY <1>1, <2>7, <2>8, <2>9 DEF Calls
    <3>2. Linked(k, T[k], R[st], starts[st], stops[st], DOMAIN takes)
      BY <2>8, <3>1
    <3> QED
      BY <2>7, <3>1, <3>2 DEF Linked
  <2>12. usedPorts' = U \ PastExit(T, R[st])
    <3>1. \A k \in R[st] : T[k].ports = takes[k].ports /\ T[k].ffmpeg = takes[k].ffmpeg
      BY <2>8, <2>11 DEF Hold
    <3>2. PastExit(takes, sessions[st]) = PastExit(takes, K) \union PastExit(T, R[st])
      BY <2>8, <2>9, <3>1 DEF PastExit
    <3> QED
      BY <2>5, <2>10, <3>2
  <2>13. Books(T2, usedPorts') /\ DOMAIN T2 = DOMAIN takes
    <3>1. "stop" \in Cause /\ R[st] \subseteq DOMAIN T
      BY <2>8, <2>11 DEF Cause
    <3> QED
      BY <2>6, <2>8, <2>11, <2>12, <3>1, BooksBegin DEF BeginFinalize
  <2>14. TypeOK'
    <3>1. /\ DOMAIN T2 \subseteq TakeId /\ \A k \in DOMAIN T2 : T2[k] \in Take
          /\ usedPorts' \subseteq PortMin..PortMax
      BY <1>1, <2>13 DEF Books, Shape, TypeOK
    <3> QED
      BY <1>1, <2>8, <2>10, <2>13, <3>1 DEF TypeOK
  <2>15. stops'[st] = "stopping" /\ \A s \in Start \ {st} : stops'[s] = stops[s]
    BY <1>1, <2>7, <2>10 DEF TypeOK
  <2>16. Calls'
    <3>1. \A s \in Start : starts'[s] \in {"idle", "preparing"} => stops'[s] = "none"
      BY <1>1, <2>7, <2>10, <2>15 DEF Calls
    <3>2. \A s \in Start : \A k \in sessions'[s] : k.start = s
      BY <1>1, <2>8, <2>10 DEF Calls
    <3> QED
      BY <1>1, <2>10, <2>13, <3>1, <3>2 DEF Calls
  <2>17. Links'
    <3> SUFFICES ASSUME NEW k \in DOMAIN takes
                 PROVE  Linked(k, T2[k], R[k.start], starts[k.start], stops'[k.start],
                               DOMAIN takes)
      BY <2>10, <2>13 DEF Links
    <3>1. Linked(k, T[k], R[k.start], starts[k.start], stops[k.start], DOMAIN takes)
      BY <2>8
    <3>2. k.start \in Start
      BY <1>1 DEF TypeOK, TakeId
    <3>3. CASE k \in R[st]
      <4>1. k.start = st /\ Shape(T[k]) /\ T2[k] = Begin(T[k], "stop")
        BY <2>6, <2>8, <2>11, <3>3 DEF Books, BeginFinalize, Begin
      <4>2. Linked(k, Begin(T[k], "stop"), R[st], starts[st], "stopping", DOMAIN takes)
        BY <2>7, <3>1, <3>3, <4>1, LinkedStop
      <4> QED
        BY <2>15, <4>1, <4>2
    <3>4. CASE k \notin R[st]
      <4>1. T2[k] = T[k]
        BY <2>6, <2>8, <3>4 DEF BeginFinalize
      <4>2. CASE k.start = st
        <5>1. Linked(k, T[k], R[st], starts[st], "stopping", DOMAIN takes)
          BY <2>7, <3>1, <4>2, LinkedStopping
        <5> QED
          BY <2>15, <4>1, <4>2, <5>1
      <4>3. CASE k.start # st
        BY <2>15, <3>1, <3>2, <4>1, <4>3
      <4> QED
        BY <4>2, <4>3
    <3> QED
      BY <3>3, <3>4
  <2> QED
    BY <1>1, <2>10, <2>13, <2>14, <2>16, <2>17 DEF IInv
<1> QED
  BY <1>2, <1>3

LEMMA ProduceKeeps ==
  ASSUME IInv, NEW p \in Producer, Produce(p) \/ MicObserved(p) \/ MicNotObserved(p)
  PROVE  IInv'
<1>1. TypeOK /\ Calls /\ Links /\ Books(takes, usedPorts) /\ Apart(DOMAIN takes)
  BY DEF IInv
<1>2. ASSUME NEW x \in {"pending", "rejected"}, announced[p] # "yes",
             announced' = [announced EXCEPT ![p] = x], live' \subseteq Producer,
             UNCHANGED <<active, starts, stops, snapshot, takes, sessions, attaching,
                         usedPorts>>
      PROVE  IInv'
  <2>1. \A q \in Producer : announced[q] = "yes" => announced'[q] = "yes"
    BY <1>1, <1>2 DEF TypeOK
  <2>2. TypeOK'
    BY <1>1, <1>2 DEF TypeOK
  <2>3. Calls'
    <3>1. \A k \in DOMAIN takes : k.main \in Producer
      BY <1>1 DEF TypeOK, TakeId
    <3> QED
      BY <1>1, <1>2, <2>1, <3>1 DEF Calls
  <2>4. Links'
    BY <1>1, <1>2 DEF Links
  <2> QED
    BY <1>1, <1>2, <2>2, <2>3, <2>4 DEF IInv
<1>3. live \subseteq Producer
  BY <1>1 DEF TypeOK
<1>4. CASE Produce(p)
  <2>1. /\ announced[p] = "no" /\ live' \subseteq Producer
        /\ UNCHANGED <<active, starts, stops, snapshot>>
    BY <1>3, <1>4 DEF Produce, callVars
  <2>2. CASE Source[p] = "mic"
    <3>1. /\ announced' = [announced EXCEPT ![p] = "pending"]
          /\ UNCHANGED <<takes, sessions, attaching, usedPorts>>
      BY <1>4, <2>2 DEF Produce
    <3> QED
      BY <1>2, <2>1, <3>1
  <2>3. CASE Source[p] # "mic"
    <3>1. announced' = [announced EXCEPT ![p] = "yes"] /\ NotifyProducerCreated(p)
      BY <1>4, <2>3 DEF Produce
    <3> QED
      BY <2>1, <3>1, NotifyKeeps
  <2> QED
    BY <2>2, <2>3
<1>5. CASE MicObserved(p)
  <2>1. /\ announced[p] # "yes" /\ announced' = [announced EXCEPT ![p] = "yes"]
        /\ live' \subseteq Producer /\ NotifyProducerCreated(p)
        /\ UNCHANGED <<active, starts, stops, snapshot>>
    BY <1>3, <1>5 DEF MicObserved, callVars
  <2> QED
    BY <2>1, NotifyKeeps
<1>6. CASE MicNotObserved(p)
  BY <1>2, <1>3, <1>6 DEF MicNotObserved, callVars
<1> QED
  BY <1>4, <1>5, <1>6

\* No step of start(), stop(), a take, a finalization or a producer breaks it.
THEOREM StepKeepsInvariant == IInv /\ [Next]_vars => IInv'
<1> SUFFICES ASSUME IInv, [Next]_vars PROVE IInv'
  OBVIOUS
<1>1. CASE UNCHANGED vars
  <2>1. /\ UNCHANGED <<active, starts, stops, snapshot, live, announced, takes, sessions,
                       attaching, usedPorts>>
    BY <1>1 DEF vars
  <2>2. TypeOK' /\ Calls' /\ Links'
    BY <2>1 DEF IInv, TypeOK, Calls, Links
  <2> QED
    BY <2>1, <2>2 DEF IInv
<1>2. ASSUME NEW st \in Start, StartRequested(st) \/ StartStep(st) \/ StopStep(st)
      PROVE  IInv'
  BY <1>2, StartRequestedKeeps, SessionNotCreatedKeeps, SessionCreatedKeeps, StartReturns,
     StartAbortsKeeps, RenamedKeeps, StopFinishesKeeps DEF StartStep, StopStep
<1>3. ASSUME NEW named \in BOOLEAN, StopRequested(named) PROVE IInv'
  BY <1>3, StopRequestedKeeps
<1>4. ASSUME NEW p \in Producer,
             Produce(p) \/ MicObserved(p) \/ MicNotObserved(p) \/ CloseProducer(p)
      PROVE  IInv'
  BY <1>4, ProduceKeeps, ClosingKeeps DEF CloseProducer
<1>5. ASSUME NEW o \in Peer, ClosePeer(o) PROVE IInv'
  <2>1. ProducersOf(o) \in SUBSET Producer
    BY DEF ProducersOf, IInv, TypeOK
  <2> QED
    BY <1>5, <2>1, ClosingKeeps DEF ClosePeer
<1>6. ASSUME LastPeerLeaves PROVE IInv'
  <2>1. live \in SUBSET Producer
    BY DEF IInv, TypeOK
  <2> QED
    BY <1>6, <2>1, CloseLastPeerKeeps DEF LastPeerLeaves
<1>7. ASSUME NEW k \in TakeId, NEW p \in Producer,
             WebcamAttached(k, p) \/ WebcamNotAttached(k, p)
      PROVE  IInv'
  BY <1>7, WebcamAttachedKeeps, WebcamNotAttachedKeeps
<1>8. ASSUME NEW k \in TakeId, TakeStep(k) \/ FfmpegExits(k) PROVE IInv'
  BY <1>8, TransportCreatedKeeps, TransportFailedKeeps, LaunchedKeeps, AttemptFailedKeeps,
     ProducerGoneKeeps, VerifiedKeeps, PersistedKeeps, FfmpegExitsKeeps DEF TakeStep
<1>9. ASSUME NEW k \in TakeId, NEW c \in Cause, FinalizeStep(k, c) PROVE IInv'
  BY <1>9, FinalizeKeeps
<1> QED
  BY <1>1, <1>2, <1>3, <1>4, <1>5, <1>6, <1>7, <1>8, <1>9 DEF Next

\* The strengthening holds throughout.
THEOREM Invariant == Spec => []IInv
BY InitialState, StepKeepsInvariant, PTL DEF Spec

-----------------------------------------------------------------------------
(* What the invariant is for *)

\* Every variable keeps to its type, ports and retries to their bounds.
THEOREM TypeCorrect == Spec => []TypeOK
<1>1. IInv => TypeOK
  BY DEF IInv
<1> QED
  BY <1>1, Invariant, PTL

LEMMA SingleIsOnce ==
  ASSUME NEW k \in DOMAIN takes
  PROVE  Single(takes[k]) <=> ~Refinalized(k)
BY DEF Single, Refinalized

\* allocatePort never hands out a port that the ffmpeg of another take still
\* reads, while no take is finalized twice.
THEOREM PortsBelongToOneTake == Spec => []PortsExclusive
<1>1. IInv => PortsExclusive
  <2> SUFFICES ASSUME IInv, \A k \in DOMAIN takes : ~Refinalized(k),
                      NEW j \in Holding, NEW k \in Holding
               PROVE  /\ takes[k].ports \subseteq usedPorts
                      /\ j # k => takes[j].ports \intersect takes[k].ports = {}
    BY DEF PortsExclusive
  <2>1. Holding = HeldIn(takes)
    BY DEF Holding, HeldIn, Held
  <2>2. \A i \in DOMAIN takes : Single(takes[i])
    BY SingleIsOnce
  <2> QED
    BY <2>1, <2>2 DEF IInv, Books, Exclusive
<1> QED
  BY <1>1, Invariant, PTL

\* Every error path and every finalization gives its take's ports back; only a
\* combined take that found a single free port keeps that one.
THEOREM PortsComeBack == Spec => []NoPortLeaks
<1>1. IInv => NoPortLeaks
  <2> SUFFICES ASSUME IInv PROVE NoPortLeaks
    OBVIOUS
  <2>1. Holding = HeldIn(takes)
    BY DEF Holding, HeldIn, Held
  <2>2. Accounted(takes, usedPorts)
    BY DEF IInv, Books
  <2>3. CASE Starved(takes)
    BY <2>3 DEF Starved, NoPortLeaks
  <2>4. CASE \A x \in usedPorts : \E k \in Holding : x \in takes[k].ports
    BY <2>4 DEF NoPortLeaks
  <2> QED
    BY <2>1, <2>2, <2>3, <2>4 DEF Accounted
<1> QED
  BY <1>1, Invariant, PTL

\* A row says hasContent exactly when the capture is where it says: nothing that
\* was verified is lost.
THEOREM RowsTellWhatIsThere == Spec => []RowsMatchFiles
<1>1. IInv => RowsMatchFiles
  <2> SUFFICES ASSUME IInv, NEW k \in DOMAIN takes, ~Refinalized(k)
               PROVE  /\ takes[k].row = "empty" => takes[k].temp
                      /\ takes[k].row = "kept" => ~takes[k].temp
    BY DEF RowsMatchFiles
  <2> QED
    BY SingleIsOnce DEF IInv, Books, Shape
<1> QED
  BY <1>1, Invariant, PTL

\* notifyProducerClosing, the upgrade to a combined take and stop() exclude each
\* other; only the catch of a start() that was stopped finalizes again.
THEOREM OneFinalization == Spec => []ClosedSessionsLeave
<1>1. IInv => ClosedSessionsLeave
  <2> SUFFICES ASSUME IInv, NEW k \in DOMAIN takes, Refinalized(k)
               PROVE  /\ takes[k].fin["closing"] = "none"
                      /\ stops[k.start] # "none"
                      /\ starts[k.start] \in {"aborting", "failed"}
    BY DEF ClosedSessionsLeave
  <2>1. Linked(k, takes[k], sessions[k.start], starts[k.start], stops[k.start],
               DOMAIN takes)
    BY DEF IInv, Links
  <2>2. PICK c \in Cause, d \in Cause :
            c # d /\ takes[k].fin[c] # "none" /\ takes[k].fin[d] # "none"
    BY DEF Refinalized
  <2>3. takes[k].fin["closing"] = "none"
    BY <2>1, <2>2 DEF Linked, Cause
  <2>4. takes[k].fin["stop"] # "none" /\ takes[k].fin["abort"] # "none"
    BY <2>2, <2>3 DEF Cause
  <2> QED
    BY <2>1, <2>3, <2>4 DEF Linked
<1> QED
  BY <1>1, Invariant, PTL

\* stop() returns to the caller with every file it was to finalize in place.
THEOREM StopWaits == Spec => []StoppedMeansStored
<1>1. IInv => StoppedMeansStored
  BY DEF IInv, Links, Linked, StoppedMeansStored
<1> QED
  BY <1>1, Invariant, PTL

\* start() throws only after every take it launched is settled and finalized.
THEOREM FailedStartCleansUp == Spec => []FailedStartLeavesNothing
<1>1. IInv => FailedStartLeavesNothing
  <2> SUFFICES ASSUME IInv, NEW k \in DOMAIN takes, starts[k.start] = "failed",
                      k.via = "snapshot", takes[k].ffmpeg = "running"
               PROVE  \E j \in TakesOf(k.start) : j.via = "notify" /\ SameKey(j, k)
    BY DEF FailedStartLeavesNothing
  <2>1. Linked(k, takes[k], sessions[k.start], starts[k.start], stops[k.start],
               DOMAIN takes)
    BY DEF IInv, Links
  <2>2. Shape(takes[k])
    BY DEF IInv, Books
  <2>3. takes[k].phase = "registered" /\ Held(takes[k])
    BY <2>1, <2>2 DEF Linked, Shape
  <2>4. takes[k].fin["closing"] = "none" /\ takes[k].fin["abort"] = "none"
    BY <2>1, <2>3 DEF Linked, Held, Cause, Finalizing
  <2>5. Replaced(k, DOMAIN takes)
    BY <2>1, <2>3, <2>4 DEF Linked
  <2> QED
    BY <2>5 DEF Replaced, TakesOf
<1> QED
  BY <1>1, Invariant, PTL

=============================================================================
