----------------------------- MODULE VMOPTypes -----------------------------
(***************************************************************************)
(* What the operations of a VM keep: the types, for any set of operations. *)
(* The first half describes what each action of VMOP does to the objects,  *)
(* the events and the reconciles in flight; the last part states the order *)
(* of the operations (SInv), the invariant VMOPProofs is about.            *)
(***************************************************************************)
EXTENDS VMOP, TLAPS
LOCAL INSTANCE WellFoundedInduction

-----------------------------------------------------------------------------
\* The types are inductive together with what is known of the vmops somebody
\* holds: they were created, each controller reconciles vmops of its own types,
\* and a reconcile that supersedes has older vmops left to supersede.

TypesOf(k) == IF k = "power" THEN PowerTypes ELSE MigrationTypes

WorkKnown(k) ==
  work[k] # None =>
    /\ spec[work[k].o] # None /\ spec[work[k].o].type \in TypesOf(k)
    /\ work[k].pc \in {"cleanup", "mark"} => work[k].todo # {}
    /\ work[k].pc \in {"cleanup", "mark"} =>
         \A b \in work[k].todo : b # work[k].o /\ spec[b] # None /\ IsOlder(b, work[k].o)

Known ==
  /\ \A o \in Ops : spec[o] = None => vmop[o] = None /\ cvmop[o] = None
  /\ \A i \in DOMAIN events : spec[events[i][1]] # None

TInv == TypeOK /\ Known /\ \A k \in Controllers : WorkKnown(k)


\* the phases an operation does not leave for one that is under way
Ended(x) == x.phase \in {"Failed", "Completed", "Superseded", "Terminating"}

-----------------------------------------------------------------------------
\* A set of numbers that is not empty has a least one.
LEMMA Least ==
    ASSUME NEW S, S \subseteq Nat, S # {}
    PROVE  \E x \in S : \A y \in S : x <= y
<1>1. PICK x \in S : \A y \in S : ~(<<y, x>> \in OpToRel(<, Nat))
  <2>1. IsWellFoundedOn(OpToRel(<, Nat), Nat)
    BY NatLessThanWellFounded, Zenon
  <2> HIDE DEF OpToRel
  <2> QED BY <2>1, WFMin, Zenon
<1>2. \A y \in S : ~(y < x)
  BY <1>1, Zenon DEF OpToRel
<1>3. x \in Nat /\ \A y \in S : y \in Nat
  OBVIOUS
<1> QED BY <1>2, <1>3

\* The order of age is total: of the vmops to supersede one is the oldest.
LEMMA OldestIn ==
    ASSUME TypeOK, NEW S, S \subseteq Ops, S # {}, \A b \in S : spec[b] # None
    PROVE  Oldest(S) \in S
<1>1. \A b \in S : b \in Nat /\ spec[b].at \in Nat
  BY ConstantsAssumption DEF TypeOK, Request
<1> DEFINE A == {spec[b].at : b \in S}
<1>2. PICK m \in A : \A n \in A : m <= n
  <2>1. A \subseteq Nat /\ A # {}
    BY <1>1
  <2> HIDE DEF A
  <2> QED BY <2>1, Least, Zenon
<1> DEFINE B == {b \in S : spec[b].at = m}
<1>3. PICK b \in B : \A c \in B : b <= c
  <2>1. B \subseteq Nat /\ B # {}
    BY <1>1, <1>2
  <2> HIDE DEF B
  <2> QED BY <2>1, Least, Zenon
<1>4. \A c \in S \ {b} : IsOlder(b, c)
  <2> TAKE c \in S \ {b}
  <2>1. b \in S /\ spec[b].at = m /\ m <= spec[c].at /\ m \in Nat
    BY <1>1, <1>2, <1>3
  <2>2. CASE spec[c].at = m
    BY <1>1, <1>3, <2>1, <2>2 DEF IsOlder
  <2>3. CASE spec[c].at # m
    BY <1>1, <2>1, <2>3 DEF IsOlder
  <2> QED BY <2>2, <2>3
<1> QED BY <1>3, <1>4 DEF Oldest

-----------------------------------------------------------------------------
\* The fields of the objects and of a reconcile have their types.
LEMMA ObjectFields ==
    ASSUME NEW x \in Object
    PROVE  x.phase \in Phases /\ x.sent \in BOOLEAN /\ x.fin \in BOOLEAN /\ x.del \in BOOLEAN
BY DEF Object

\* The fields of a reconcile in flight.
LEMMA WorkFields ==
    ASSUME NEW w \in Work
    PROVE  /\ w.pc \in {"abort", "cleanup", "mark", "exec", "status", "patch"}
           /\ w.o \in Ops /\ w.ok \in BOOLEAN /\ w.was \in Object /\ w.now \in Object
           /\ w.todo \subseteq Ops /\ w.fits \in BOOLEAN /\ w.age \in Ages
BY DEF Work

\* What two reconciles have in common that differ in their progress only.
Like(v, w) == v.o = w.o /\ v.ok = w.ok /\ v.was = w.was

\* A reconcile that moves on to another step stays what it is otherwise.
LEMMA PcStep ==
    ASSUME NEW w \in Work,
           NEW p \in {"abort", "cleanup", "mark", "exec", "status", "patch"}
    PROVE  LET v == [w EXCEPT !.pc = p]
           IN v \in Work /\ Like(v, w) /\ v.pc = p /\ v.now = w.now /\ v.todo = w.todo
BY DEF Work, Like

\* Saves sets the phase and keeps whether the signal was sent.
LEMMA SavesStep ==
    ASSUME NEW w \in Work, NEW phase \in Phases
    PROVE  LET v == Saves(w, phase)
           IN /\ v \in Work /\ Like(v, w) /\ v.pc = "status" /\ v.todo = w.todo
              /\ v.now.phase = phase /\ v.now.sent = w.now.sent /\ v.now.fin = w.now.fin
<1> DEFINE u == [w EXCEPT !.pc = "status"]
           x == [w.now EXCEPT !.phase = phase]
<1>1. u \in Work /\ Like(u, w) /\ u.pc = "status" /\ u.todo = w.todo /\ u.now = w.now
  BY PcStep, Zenon
<1>2. Saves(w, phase) = [u EXCEPT !.now = x]
  BY DEF Saves, Work
<1>3. x \in Object /\ x.phase = phase /\ x.sent = w.now.sent /\ x.fin = w.now.fin
  BY DEF Object, Work
<1> HIDE DEF u, x
<1> QED BY <1>1, <1>2, <1>3 DEF Work, Like

\* Sends sets the phase and records the signal.
LEMMA SendsStep ==
    ASSUME NEW w \in Work, NEW phase \in Phases
    PROVE  LET v == Sends(w, phase)
           IN /\ v \in Work /\ Like(v, w) /\ v.pc = "status" /\ v.todo = w.todo
              /\ v.now.phase = phase /\ v.now.sent = TRUE /\ v.now.fin = w.now.fin
<1> DEFINE u == Saves(w, phase)
           x == [u.now EXCEPT !.sent = TRUE]
<1>1. /\ u \in Work /\ Like(u, w) /\ u.pc = "status" /\ u.todo = w.todo
      /\ u.now.phase = phase /\ u.now.fin = w.now.fin
  BY SavesStep
<1> HIDE DEF u
<1>2. Sends(w, phase) = [u EXCEPT !.now = x]
  BY <1>1 DEF Sends, Work, u
<1>3. x \in Object /\ x.phase = phase /\ x.sent = TRUE /\ x.fin = u.now.fin
  BY <1>1, Zenon DEF Object, Work
<1> HIDE DEF x
<1> QED BY <1>1, <1>2, <1>3 DEF Work, Like

-----------------------------------------------------------------------------
\* What the handlers make of the copy they read.

\* What the admission of a start or a restart leads to.
LEMMA Admitted ==
    ASSUME NEW w \in Work, NEW v \in Admit(w)
    PROVE  /\ v \in Work /\ Like(v, w) /\ v.pc \in {"status", "exec"}
           /\ v.now.sent = w.now.sent
<1>1. v \in {Saves(w, "Failed"), Saves(w, "Pending"), [w EXCEPT !.pc = "exec"]}
  BY DEF Admit
<1>2. "Failed" \in Phases /\ "Pending" \in Phases
  BY DEF Phases
<1>3. CASE v = [w EXCEPT !.pc = "exec"]
  BY <1>3, PcStep, Zenon
<1>4. CASE v # [w EXCEPT !.pc = "exec"]
  BY <1>1, <1>2, <1>4, SavesStep
<1> QED BY <1>3, <1>4

\* the reconcile w of o has read its copy, and changed no more than the phase of a new one
Base(w, o) ==
  /\ w \in Work /\ w.o = o /\ w.ok = Current(o) /\ w.was = cvmop[o] /\ w.pc = "status"
  /\ w.now.sent = cvmop[o].sent
  /\ Ended(cvmop[o]) => w.now.phase = cvmop[o].phase

\* what holds of every reconcile that may follow from reading o
Starts(w, o) ==
  /\ w \in Work /\ w.o = o /\ w.ok = Current(o) /\ w.was = cvmop[o] /\ w.pc # "patch"
  /\ Ended(w.was) => Ended(w.now) /\ w.pc \notin {"cleanup", "mark", "exec"}
  /\ w.now.sent => cvmop[o].sent \/ cmig[o] # "none"
  /\ w.pc = "exec" => OlderActive(o) = {}
  /\ w.pc \in {"cleanup", "mark"} => w.todo # {} /\ w.todo = OlderActive(o)

\* A reconcile starts from what the cache holds.
LEMMA ReadBase ==
    ASSUME TypeOK, NEW o \in Ops, cvmop[o] # None, spec[o] # None, NEW keeps \in BOOLEAN
    PROVE  Base(Read(o, keeps), o)
<1> DEFINE x == [cvmop[o] EXCEPT !.fin = keeps]
           fits == Applicable(spec[o], vm)
           ok == Current(o)
<1>1. cvmop[o] \in Object
  BY DEF TypeOK
<1>2. x \in Object /\ x.sent = cvmop[o].sent /\ x.phase = cvmop[o].phase
  BY <1>1 DEF Object
<1>3. fits \in BOOLEAN
  <2>1. /\ StartApplicable(vm) \in BOOLEAN /\ StopApplicable(vm, spec[o].force) \in BOOLEAN
        /\ RestartApplicable(vm, spec[o].force) \in BOOLEAN /\ MigrationApplicable(vm) \in BOOLEAN
    BY DEF StartApplicable, StopApplicable, RestartApplicable, MigrationApplicable
  <2> QED BY <2>1 DEF Applicable
<1>4. ok \in BOOLEAN
  BY DEF Current
<1> HIDE DEF x, fits, ok
<1>5. Read(o, keeps) = [pc |-> "status", o |-> o, ok |-> ok, was |-> cvmop[o],
                        now |-> x, todo |-> {}, fits |-> fits, age |-> "before"]
  BY DEF Read, x, fits, ok
<1>6. Read(o, keeps) \in Work
  BY <1>1, <1>2, <1>3, <1>4, <1>5 DEF Work, Ages
<1>7. ok = Current(o)
  BY DEF ok
<1> QED BY <1>2, <1>5, <1>6, <1>7 DEF Base

\* Setting the Pending phase and the finalizer keeps that basis.
LEMMA InitedBase ==
    ASSUME NEW o \in Ops, NEW w, Base(w, o)
    PROVE  Base(Inited(w), o)
<1>1. CASE w.was.phase = ""
  <2>1. Inited(w) = Saves(w, "Pending") /\ "Pending" \in Phases /\ w \in Work
    BY <1>1, Zenon DEF Inited, Phases, Base
  <2>2. ~Ended(cvmop[o])
    BY <1>1, Zenon DEF Base, Ended
  <2> QED BY <2>1, <2>2, SavesStep DEF Base, Like
<1>2. CASE w.was.phase # ""
  BY <1>2, Zenon DEF Inited
<1> QED BY <1>1, <1>2, Zenon

\* A reconcile that read o as over leaves it over, and one that only saves starts well.
LEMMA BaseStarts ==
    ASSUME NEW o \in Ops, NEW w, Base(w, o)
    PROVE  Starts(w, o)
BY DEF Base, Starts, Ended

\* A handler that ends with a phase of its own.
LEMMA SavesStarts ==
    ASSUME NEW o \in Ops, NEW w, Base(w, o), NEW phase \in Phases,
           Ended(cvmop[o]) => phase \in {"Failed", "Completed", "Superseded", "Terminating"}
    PROVE  Starts(Saves(w, phase), o)
<1>1. w \in Work
  BY DEF Base
<1> QED BY <1>1, SavesStep DEF Base, Starts, Like, Ended

\* The power handler, once its signal was sent.
LEMMA SyncPowerStarts ==
    ASSUME NEW o \in Ops, NEW w, Base(w, o), NEW v \in SyncPower(w)
    PROVE  Starts(v, o)
<1>1. v = Saves(w, "Completed") \/ v = w
  BY DEF SyncPower
<1> QED BY <1>1, BaseStarts, SavesStarts, Zenon DEF Phases

\* The migration handler, once its migration was created.
LEMMA SyncMigrationStarts ==
    ASSUME NEW o \in Ops, NEW w, Base(w, o), NEW v \in SyncMigration(w),
           ~Ended(cvmop[o]), cvmop[o].sent \/ cmig[o] # "none"
    PROVE  Starts(v, o)
<1>1. PICK phase \in {"Failed", "Completed", "InProgress", "Pending"} :
        v = Sends(w, phase) \/ v = [Sends(w, phase) EXCEPT !.pc = "abort"]
  BY DEF SyncMigration
<1>2. w \in Work /\ phase \in Phases
  BY Zenon DEF Base, Phases
<1> DEFINE u == Sends(w, phase)
<1>3. u \in Work /\ Like(u, w) /\ u.pc = "status"
  BY <1>2, SendsStep, Zenon
<1> HIDE DEF u
<1>4. v = u \/ v = [u EXCEPT !.pc = "abort"]
  BY <1>1 DEF u
<1>5. v \in Work /\ Like(v, w) /\ v.pc \in {"status", "abort"}
  <2>1. CASE v = u
    BY <1>3, <2>1
  <2>2. CASE v = [u EXCEPT !.pc = "abort"]
    <3>1. v \in Work /\ Like(v, u) /\ v.pc = "abort"
      BY <1>3, <2>2, PcStep, Zenon
    <3> QED BY <1>3, <3>1 DEF Like
  <2> QED BY <1>4, <2>1, <2>2
<1> QED BY <1>5 DEF Starts, Base, Like

\* The check whether a vmop may execute: it ends, waits or supersedes the older ones.
LEMMA ShouldExecuteStarts ==
    ASSUME NEW o \in Ops, NEW w, Base(w, o), NEW v \in ShouldExecute(w), ~Ended(cvmop[o])
    PROVE  Starts(v, o)
<1>1. w \in Work /\ w.o = o
  BY DEF Base
<1>2. CASE OlderActive(o) = {} /\ v \in Admit(w)
  BY <1>1, <1>2, Admitted DEF Base, Starts, Like
<1>3. CASE v = Saves(w, "Failed")
  BY <1>3, SavesStarts, Zenon DEF Phases
<1>4. CASE OlderActive(o) # {} /\ v = [w EXCEPT !.pc = "cleanup", !.todo = OlderActive(o)]
  <2> DEFINE S == OlderActive(o)
  <2>1. S \subseteq Ops /\ S # {}
    BY <1>4 DEF OlderActive
  <2>2. v = [w EXCEPT !.pc = "cleanup", !.todo = S]
    BY <1>4
  <2> HIDE DEF S
  <2>3. v \in Work /\ Like(v, w) /\ v.pc = "cleanup" /\ v.now = w.now /\ v.todo = S
    BY <1>1, <2>1, <2>2, Zenon DEF Work, Like
  <2>4. S = OlderActive(o)
    BY DEF S
  <2> QED BY <2>1, <2>3, <2>4 DEF Base, Starts, Like
<1> QED BY <1>1, <1>2, <1>3, <1>4 DEF ShouldExecute

\* Everything the handlers of both controllers may do with what they read.
LEMMA Handled ==
    ASSUME TypeOK, NEW o \in Ops, cvmop[o] # None, spec[o] # None,
           NEW v \in HandlePower(o) \cup HandleMigration(o)
    PROVE  Starts(v, o)
<1> DEFINE P == Read(o, PowerFinalizer(o))
           M == Read(o, MigrationFinalizer(o))
<1>1. PowerFinalizer(o) \in BOOLEAN /\ MigrationFinalizer(o) \in BOOLEAN
  BY DEF PowerFinalizer, MigrationFinalizer
<1>2. Base(P, o) /\ Base(M, o)
  BY <1>1, ReadBase
<1>3. Base(Inited(P), o) /\ Base(Inited(M), o)
  BY <1>2, InitedBase
<1>4. P.was = cvmop[o] /\ M.was = cvmop[o] /\ M \in Work
  BY <1>2 DEF Base
<1>5. IsTerminating(cvmop[o]) \/ IsFinished(cvmop[o]) \/ ~Ended(cvmop[o])
  BY DEF IsTerminating, IsFinished, Ended
<1>6. \A phase \in {"Terminating", "Failed"} :
        Starts(Saves(P, phase), o) /\ Starts(Saves(M, phase), o)
  BY <1>2, SavesStarts, Zenon DEF Phases
<1>7. CASE v \in HandlePower(o)
  <2>1. \/ v \in {Saves(P, "Terminating"), Saves(P, "Failed"), P}
        \/ ~Ended(cvmop[o]) /\ v \in SyncPower(Inited(P))
        \/ ~Ended(cvmop[o]) /\ v \in ShouldExecute(Inited(P))
    BY <1>4, <1>5, <1>7 DEF HandlePower
  <2> HIDE DEF P
  <2> QED BY <1>2, <1>3, <1>6, <2>1, BaseStarts, SyncPowerStarts, ShouldExecuteStarts
<1>8. CASE v \in HandleMigration(o)
  <2>1. \/ v \in {Saves(M, "Failed"), M, Inited(M)}
        \/ \E p \in {"abort", "status"} : v = [Saves(M, "Terminating") EXCEPT !.pc = p]
        \/ /\ ~Ended(cvmop[o]) /\ (cvmop[o].sent \/ cmig[o] # "none")
           /\ v \in SyncMigration(Inited(M))
        \/ ~Ended(cvmop[o]) /\ v \in ShouldExecute(Inited(M))
    <3>1. CASE IsTerminating(cvmop[o])
      <4>1. v = [Saves(M, "Terminating") EXCEPT
                   !.pc = IF cvmop[o].del /\ cmig[o] # "none" THEN "abort" ELSE "status"]
        BY <1>4, <1>8, <3>1 DEF HandleMigration
      <4> QED BY <4>1
    <3>2. CASE ~IsTerminating(cvmop[o])
      BY <1>4, <1>5, <1>8, <3>2 DEF HandleMigration
    <3> QED BY <3>1, <3>2
  <2> HIDE DEF M
  <2>2. ASSUME NEW p \in {"abort", "status"}, v = [Saves(M, "Terminating") EXCEPT !.pc = p]
        PROVE  Starts(v, o)
    <3> DEFINE u == Saves(M, "Terminating")
    <3>1. u \in Work /\ Starts(u, o) /\ u.pc = "status"
      BY <1>4, <1>6, SavesStep, Zenon DEF Phases
    <3> HIDE DEF u
    <3>2. v = [u EXCEPT !.pc = p]
      BY <2>2 DEF u
    <3>3. v \in Work /\ Like(v, u) /\ v.pc = p /\ v.now = u.now
      <4>1. p \in {"abort", "cleanup", "mark", "exec", "status", "patch"}
        OBVIOUS
      <4> QED BY <3>1, <3>2, <4>1, PcStep, Zenon
    <3> QED BY <3>1, <3>3 DEF Starts, Like
  <2> QED BY <1>2, <1>3, <1>6, <2>1, <2>2, BaseStarts, SyncMigrationStarts, ShouldExecuteStarts
<1> QED BY <1>7, <1>8

-----------------------------------------------------------------------------
\* What a write to a vmop and a step of a reconcile change.

\* A write to the API server: the object, and its event at the end of the log.
LEMMA Written ==
    ASSUME TInv, NEW o \in Ops, spec[o] # None, NEW x \in Object \cup {None}, Put(o, x)
    PROVE  /\ clock' = clock /\ spec' = spec /\ cvmop' = cvmop
           /\ vmop' \in [Ops -> Object \cup {None}] /\ vmop'[o] = x
           /\ \A b \in Ops \ {o} : vmop'[b] = vmop[b]
           /\ events' \in Seq(Ops \X (Object \cup {None}))
           /\ Len(events') = Len(events) + 1 /\ events'[Len(events) + 1] = <<o, x>>
           /\ \A i \in 1 .. Len(events) : events'[i] = events[i]
           /\ Known'
<1> DEFINE E == Ops \X (Object \cup {None})
           e == <<o, x>>
<1>1. events \in Seq(E) /\ e \in E
  BY DEF TInv, TypeOK
<1>2. events' = Append(events, e)
  BY DEF Put
<1> HIDE DEF E, e
<1>3. /\ events' \in Seq(E) /\ Len(events') = Len(events) + 1
      /\ \A i \in 1 .. Len(events) : events'[i] = events[i]
      /\ events'[Len(events) + 1] = e
  BY <1>1, <1>2
<1>4. vmop \in [Ops -> Object \cup {None}] /\ vmop' = [vmop EXCEPT ![o] = x]
  BY DEF TInv, TypeOK, Put
<1>5. clock' = clock /\ spec' = spec /\ cvmop' = cvmop
  BY DEF Put
<1>6. /\ vmop' \in [Ops -> Object \cup {None}] /\ vmop'[o] = x
      /\ \A b \in Ops \ {o} : vmop'[b] = vmop[b]
  BY <1>4
<1>7. \A i \in DOMAIN events' : spec[events'[i][1]] # None
  <2> TAKE i \in DOMAIN events'
  <2>1. Len(events) \in Nat /\ DOMAIN events = 1 .. Len(events) /\ i \in 1 .. Len(events) + 1
    BY <1>1, <1>3
  <2>2. CASE i = Len(events) + 1
    BY <1>3, <2>2 DEF e
  <2>3. CASE i \in 1 .. Len(events)
    BY <1>3, <2>1, <2>3 DEF TInv, Known
  <2> QED BY <2>1, <2>2, <2>3
<1>8. \A b \in Ops : spec[b] = None => vmop'[b] = None /\ cvmop[b] = None
  BY <1>6 DEF TInv, Known
<1> QED BY <1>3, <1>5, <1>6, <1>7, <1>8 DEF Known, E, e

\* An update of one controller leaves the other alone.
LEMMA Gone ==
    ASSUME TInv, NEW k \in Controllers, NEW w \in Work \cup {None}, work' = [work EXCEPT ![k] = w]
    PROVE  /\ work' \in [Controllers -> Work \cup {None}] /\ work'[k] = w
           /\ \A j \in Controllers \ {k} : work'[j] = work[j]
BY DEF TInv, TypeOK

\* A write outdates the reconciles of the object and changes nothing else in them.
LEMMA OutdateStep ==
    ASSUME NEW wk \in [Controllers -> Work \cup {None}], NEW o \in Ops, NEW k \in Controllers
    PROVE  /\ Outdate(wk, o) \in [Controllers -> Work \cup {None}]
           /\ wk[k] = None => Outdate(wk, o)[k] = None
           /\ wk[k] # None =>
                LET v == Outdate(wk, o)[k]
                IN /\ v # None /\ v.o = wk[k].o /\ v.was = wk[k].was /\ v.now = wk[k].now
                   /\ v.pc = wk[k].pc /\ v.todo = wk[k].todo
                   /\ v.o = o => v.ok = FALSE
                   /\ v.o # o => v.ok = wk[k].ok
<1>1. ASSUME NEW j \in Controllers, wk[j] # None
      PROVE  LET v == [wk[j] EXCEPT !.ok = FALSE]
             IN /\ v \in Work /\ v.o = wk[j].o /\ v.was = wk[j].was /\ v.now = wk[j].now
                /\ v.pc = wk[j].pc /\ v.todo = wk[j].todo /\ v.ok = FALSE
  <2>1. wk[j] \in Work
    BY <1>1
  <2> QED BY <2>1, Zenon DEF Work
<1>2. \A j \in Controllers : Outdate(wk, o)[j] =
        IF wk[j] # None /\ wk[j].o = o THEN [wk[j] EXCEPT !.ok = FALSE] ELSE wk[j]
  BY DEF Outdate
<1>3. Outdate(wk, o) \in [Controllers -> Work \cup {None}]
  <2>1. \A j \in Controllers :
          (IF wk[j] # None /\ wk[j].o = o THEN [wk[j] EXCEPT !.ok = FALSE] ELSE wk[j])
             \in Work \cup {None}
    BY <1>1
  <2> QED BY <2>1 DEF Outdate
<1>4. CASE wk[k] = None
  BY <1>2, <1>3, <1>4
<1>5. CASE wk[k] # None /\ wk[k].o = o
  <2>1. Outdate(wk, o)[k] = [wk[k] EXCEPT !.ok = FALSE]
    BY <1>2, <1>5
  <2> QED BY <1>1, <1>3, <1>5, <2>1, NoneAssumption, Zenon
<1>6. CASE wk[k] # None /\ wk[k].o # o
  BY <1>2, <1>3, <1>6
<1> QED BY <1>4, <1>5, <1>6, Zenon

\* The reconcile that goes on when a vmop is superseded.
LEMMA MarkNext ==
    ASSUME NEW u \in Work, NEW b,
           NEW v \in LET left == [u EXCEPT !.todo = @ \ {b}]
                     IN IF left.todo = {} THEN Admit(left) ELSE {[left EXCEPT !.pc = "cleanup"]}
    PROVE  /\ v \in Work /\ Like(v, u) /\ v.now.sent = u.now.sent
           /\ v.pc \in {"status", "exec", "cleanup"}
           /\ v.pc = "cleanup" => v.todo = u.todo \ {b} /\ v.todo # {}
           /\ v.pc = "exec" => u.todo \ {b} = {}
<1> DEFINE left == [u EXCEPT !.todo = @ \ {b}]
<1>1. left \in Work /\ Like(left, u) /\ left.now = u.now /\ left.todo = u.todo \ {b}
  BY DEF Work, Like
<1>2. v \in IF left.todo = {} THEN Admit(left) ELSE {[left EXCEPT !.pc = "cleanup"]}
  OBVIOUS
<1> HIDE DEF left
<1>3. CASE left.todo = {}
  <2>1. v \in Admit(left)
    BY <1>2, <1>3
  <2>2. v \in Work /\ Like(v, left) /\ v.pc \in {"status", "exec"} /\ v.now.sent = left.now.sent
    BY <1>1, <2>1, Admitted
  <2> QED BY <1>1, <1>3, <2>2 DEF Like
<1>4. CASE left.todo # {}
  <2>1. v = [left EXCEPT !.pc = "cleanup"]
    BY <1>2, <1>4
  <2>2. v \in Work /\ Like(v, left) /\ v.pc = "cleanup" /\ v.now = left.now /\ v.todo = left.todo
    BY <1>1, <2>1, PcStep, Zenon
  <2> QED BY <1>1, <1>4, <2>2 DEF Like
<1> QED BY <1>3, <1>4

\* What is known of a reconcile stays known while it goes on with the same vmop.
LEMMA WorkKnownStays ==
    ASSUME TInv, NEW k \in Controllers, spec' = spec, work[k] # None, work'[k].o = work[k].o,
           work'[k].pc \in {"cleanup", "mark"} =>
             /\ work[k].pc \in {"cleanup", "mark"}
             /\ work'[k].todo # {} /\ work'[k].todo \subseteq work[k].todo
    PROVE  WorkKnown(k)'
BY DEF TInv, WorkKnown, IsOlder

\* What Mark(k) does: it goes on, gives up, or supersedes the oldest of the vmops left.
LEMMA MarkStep ==
    ASSUME TInv, NEW k \in Controllers, Mark(k)
    PROVE  /\ work[k] \in Work /\ work[k].pc = "mark"
           /\ UNCHANGED <<migVars, vmVars>>
           /\ \E b \in work[k].todo, w \in Work :
                /\ b \in Ops /\ spec[b] # None /\ b # work[k].o
                /\ Like(w, work[k]) /\ w.now.sent = work[k].now.sent
                /\ w.pc \in {"status", "exec", "cleanup"}
                /\ w.pc = "cleanup" => w.todo = work[k].todo \ {b} /\ w.todo # {}
                /\ w.pc = "exec" => work[k].todo \ {b} = {}
                /\ \/ /\ cvmop[b] = None \/ IsFinished(cvmop[b])
                      /\ Go(k, w) /\ UNCHANGED opVars
                   \/ /\ w = [work[k] EXCEPT !.pc = "status"]
                      /\ Go(k, w) /\ UNCHANGED opVars
                   \/ /\ cvmop[b] # None /\ vmop[b] # None
                      /\ Put(b, [vmop[b] EXCEPT !.phase = "Superseded",
                                                !.sent = cvmop[b].sent])
                      /\ work' = Outdate([work EXCEPT ![k] = w], b)
<1> DEFINE u == work[k]
           b == Oldest(u.todo)
<1>1. u \in Work /\ u.pc = "mark" /\ u.todo \subseteq Ops
  BY WorkFields DEF Mark, TInv, TypeOK
<1>2. u.todo # {} /\ \A c \in u.todo : c # u.o /\ spec[c] # None
  BY <1>1, NoneAssumption DEF TInv, WorkKnown
<1>3. b \in u.todo /\ b \in Ops /\ spec[b] # None /\ b # u.o
  <2>1. b \in u.todo
    BY <1>1, <1>2, OldestIn DEF TInv
  <2> QED BY <1>1, <1>2, <2>1
<1> DEFINE left == [u EXCEPT !.todo = @ \ {b}]
           next == IF left.todo = {} THEN Admit(left) ELSE {[left EXCEPT !.pc = "cleanup"]}
           stop == [u EXCEPT !.pc = "status"]
<1>4. UNCHANGED <<migVars, vmVars>> /\
      CASE cvmop[b] = None \/ (cvmop[b] # None /\ IsFinished(cvmop[b])) ->
               /\ \E w \in next : Go(k, w)
               /\ UNCHANGED opVars
          [] cvmop[b] # None /\ ~IsFinished(cvmop[b]) /\ vmop[b] = None ->
               /\ Go(k, stop)
               /\ UNCHANGED opVars
          [] OTHER ->
               /\ Put(b, [vmop[b] EXCEPT !.phase = "Superseded", !.sent = cvmop[b].sent])
               /\ \E w \in next : work' = Outdate([work EXCEPT ![k] = w], b)
  BY Zenon DEF Mark
<1>5. \A w \in next : /\ w \in Work /\ Like(w, u) /\ w.now.sent = u.now.sent
                      /\ w.pc \in {"status", "exec", "cleanup"}
                      /\ w.pc = "cleanup" => w.todo = u.todo \ {b} /\ w.todo # {}
                      /\ w.pc = "exec" => u.todo \ {b} = {}
  BY <1>1, MarkNext, Zenon
<1>6. stop \in Work /\ Like(stop, u) /\ stop.now = u.now /\ stop.pc = "status"
  BY <1>1, PcStep, Zenon
<1> HIDE DEF u, b, next, stop, left
<1>7. \/ (cvmop[b] = None \/ IsFinished(cvmop[b])) /\ (\E w \in next : Go(k, w)) /\ UNCHANGED opVars
      \/ Go(k, stop) /\ UNCHANGED opVars
      \/ /\ cvmop[b] # None /\ vmop[b] # None
         /\ Put(b, [vmop[b] EXCEPT !.phase = "Superseded", !.sent = cvmop[b].sent])
         /\ \E w \in next : work' = Outdate([work EXCEPT ![k] = w], b)
  <2>1. CASE cvmop[b] = None \/ (cvmop[b] # None /\ IsFinished(cvmop[b]))
    BY <1>4, <2>1
  <2>2. CASE cvmop[b] # None /\ ~IsFinished(cvmop[b]) /\ vmop[b] = None
    BY <1>4, <2>2
  <2>3. CASE cvmop[b] # None /\ ~IsFinished(cvmop[b]) /\ vmop[b] # None
    BY <1>4, <2>3
  <2> QED BY <2>1, <2>2, <2>3
<1>8. UNCHANGED <<migVars, vmVars>>
  BY <1>4
<1> QED BY <1>1, <1>3, <1>5, <1>6, <1>7, <1>8, Zenon DEF u, stop

\* What Status(k), Patch(k) and the execution of an operation do.
LEMMA StatusStep ==
    ASSUME TInv, NEW k \in Controllers, Status(k)
    PROVE  /\ work[k] \in Work /\ work[k].pc = "status"
           /\ UNCHANGED <<migVars, ann, cann, vm, up>> /\ born' \in [Ops -> Ages]
           /\ \/ Drop(k) \/ Go(k, [work[k] EXCEPT !.pc = "patch"])
           /\ \/ UNCHANGED opVars
              \/ /\ work[k].ok /\ vmop[work[k].o] # None
                 /\ Put(work[k].o, [vmop[work[k].o] EXCEPT !.phase = work[k].now.phase,
                                                           !.sent = work[k].now.sent])
<1> DEFINE w == work[k]
<1>1. w \in Work /\ w.pc = "status" /\ w.o \in Ops
  BY WorkFields DEF Status, TInv, TypeOK
<1>2. born \in [Ops -> Ages] /\ Dated(w) \in [Ops -> Ages]
  BY <1>1, WorkFields DEF TInv, TypeOK, Dated
<1>3. Saved(k, w) => Drop(k) \/ Go(k, [w EXCEPT !.pc = "patch"])
  BY DEF Saved
<1>4. UNCHANGED <<migVars, ann, cann, vm, up>>
  BY DEF Status
<1> HIDE DEF w
<1>5. \/ Saved(k, w) /\ UNCHANGED <<opVars, born>>
      \/ Drop(k) /\ UNCHANGED <<opVars, born>>
      \/ /\ w.ok /\ vmop[w.o] # None
         /\ Put(w.o, [vmop[w.o] EXCEPT !.phase = w.now.phase, !.sent = w.now.sent])
         /\ born' = (IF w.now.sent /\ ~w.was.sent THEN Dated(w) ELSE born) /\ Saved(k, w)
  BY DEF Status, w
<1> QED BY <1>1, <1>2, <1>3, <1>4, <1>5 DEF w

\* The finalizer patch: nothing, the deletion of the object, or its finalizer.
LEMMA PatchStep ==
    ASSUME TInv, NEW k \in Controllers, Patch(k)
    PROVE  /\ work[k] \in Work /\ Drop(k) /\ UNCHANGED <<migVars, vmVars>>
           /\ \/ UNCHANGED opVars
              \/ vmop[work[k].o] # None /\ Put(work[k].o, None)
              \/ /\ vmop[work[k].o] # None
                 /\ Put(work[k].o, [vmop[work[k].o] EXCEPT !.fin = work[k].now.fin])
BY DEF Patch, TInv, TypeOK

\* The signal to the VM: the reconcile goes on to its status update.
LEMMA ExecStep ==
    ASSUME TInv, NEW failed \in BOOLEAN, ExecPower(failed) \/ ExecMigration(failed)
    PROVE  \E k \in Controllers, w \in Work :
             /\ work[k] \in Work /\ work[k].pc = "exec"
             /\ Go(k, w) /\ Like(w, work[k]) /\ w.pc = "status"
             /\ UNCHANGED <<opVars, cmig, cann, born>>
             /\ ann' \subseteq Annotations /\ vm' \in VMPhases /\ up' \in BOOLEAN
             /\ mig' \in [Ops -> MigStates]
             /\ \A b \in Ops : mig'[b] # mig[b] => b = work[k].o
<1>1. CASE ExecPower(failed)
  <2> DEFINE u == work["power"]
             v == Sends(u, SentPhase(failed))
             w == [v EXCEPT !.age = "before"]
  <2>1. u \in Work /\ u.pc = "exec" /\ spec[u.o] # None /\ spec[u.o].type \in PowerTypes
    BY <1>1, NoneAssumption DEF ExecPower, TInv, TypeOK, WorkKnown, TypesOf, Controllers
  <2>2. v \in Work /\ Like(v, u) /\ v.pc = "status"
    BY <2>1, SendsStep, Zenon DEF SentPhase, Phases
  <2>3. Go("power", w) /\ UNCHANGED <<opVars, migVars, cann, born>>
    BY <1>1 DEF ExecPower
  <2> HIDE DEF v
  <2>4. w \in Work /\ Like(w, v) /\ w.pc = "status"
    BY <2>2, Zenon DEF Work, Like, Ages
  <2>5. ann' \subseteq Annotations /\ vm' \in VMPhases /\ up' \in BOOLEAN
    <3>1. ann \subseteq Annotations /\ cann \subseteq Annotations /\ vm \in VMPhases /\ up \in BOOLEAN
      BY DEF TInv, TypeOK
    <3>2. CASE failed
      BY <1>1, <3>1, <3>2 DEF ExecPower
    <3>3. CASE ~failed
      <4>1. Signal(spec[u.o])
        BY <1>1, <3>3 DEF ExecPower
      <4>2. StartExecute \/ StopExecute \/ RestartExecute(spec[u.o].force)
        BY <2>1, <4>1, Zenon DEF Signal, PowerTypes
      <4>3. StartExecute => ann' \subseteq Annotations /\ vm' = vm /\ up' = up
        BY <3>1 DEF StartExecute, Annotate, Annotations
      <4>4. StopExecute => ann' = ann /\ vm' \in VMPhases /\ up' = up
        BY <3>1 DEF StopExecute, VMPhases
      <4>5. RestartExecute(spec[u.o].force) =>
              ann' \subseteq Annotations /\ vm' \in VMPhases /\ up' \in BOOLEAN
        BY <3>1, <4>3, Zenon DEF RestartExecute, ForcedRestart, Annotate, Annotations, VMPhases
      <4> QED BY <3>1, <4>2, <4>3, <4>4, <4>5
    <3> QED BY <3>2, <3>3
  <2>6. mig' = mig /\ cmig' = cmig /\ mig \in [Ops -> MigStates]
    BY <2>3 DEF TInv, TypeOK, migVars
  <2>7. Like(w, u)
    BY <2>2, <2>4 DEF Like
  <2> HIDE DEF w
  <2> QED BY <2>1, <2>3, <2>4, <2>5, <2>6, <2>7 DEF Controllers
<1>2. CASE ExecMigration(failed)
  <2> DEFINE u == work["migration"]
  <2>1. u \in Work /\ u.pc = "exec" /\ u.o \in Ops
    BY <1>2, WorkFields DEF ExecMigration, TInv, TypeOK, Controllers
  <2>2. \E w \in Work : Go("migration", w) /\ Like(w, u) /\ w.pc = "status"
    <3>1. CASE Go("migration", [u EXCEPT !.pc = "status"])
      BY <2>1, <3>1, PcStep, Zenon
    <3>2. CASE \E phase \in {"Pending", "InProgress"} : Go("migration", Sends(u, phase))
      <4>1. PICK phase \in {"Pending", "InProgress"} : Go("migration", Sends(u, phase))
        BY <3>2
      <4>2. phase \in Phases
        BY Zenon DEF Phases
      <4> QED BY <2>1, <4>1, <4>2, SendsStep, Zenon
    <3> QED BY <1>2, <3>1, <3>2 DEF ExecMigration
  <2>3. UNCHANGED <<opVars, cmig, vmVars>> /\ (mig' = mig \/ mig' = [mig EXCEPT ![u.o] = "active"])
    BY <1>2 DEF ExecMigration
  <2>4. mig \in [Ops -> MigStates] /\ ann \subseteq Annotations /\ vm \in VMPhases /\ up \in BOOLEAN
    BY DEF TInv, TypeOK
  <2>5. mig' \in [Ops -> MigStates] /\ \A b \in Ops : mig'[b] # mig[b] => b = u.o
    BY <2>1, <2>3, <2>4 DEF MigStates
  <2>6. UNCHANGED <<opVars, cmig, ann, cann, vm, up, born>>
    BY <2>3 DEF vmVars
  <2> HIDE DEF u
  <2> QED BY <2>1, <2>2, <2>4, <2>5, <2>6 DEF Controllers, u
<1> QED BY <1>1, <1>2

-----------------------------------------------------------------------------
\* Type correctness.

\* A status, a mark and a deletion write objects of the right type.
LEMMA NewObjects ==
    ASSUME NEW x \in Object, NEW phase \in Phases, NEW s \in BOOLEAN
    PROVE  /\ [x EXCEPT !.phase = phase, !.sent = s] \in Object
           /\ [x EXCEPT !.phase = phase, !.sent = s].phase = phase
           /\ [x EXCEPT !.phase = phase, !.sent = s].sent = s
           /\ [x EXCEPT !.fin = s] \in Object /\ [x EXCEPT !.fin = s].phase = x.phase
           /\ [x EXCEPT !.fin = s].sent = x.sent
           /\ [x EXCEPT !.del = TRUE] \in Object /\ [x EXCEPT !.del = TRUE].phase = x.phase
           /\ [x EXCEPT !.del = TRUE].sent = x.sent
BY Zenon DEF Object

\* Every step that leaves the vmops and the reconciles alone.
LEMMA RestTypes ==
    ASSUME TInv, UNCHANGED <<opVars, work>>,
           mig' \in [Ops -> MigStates], cmig' \in [Ops -> MigStates],
           ann' \subseteq Annotations, cann' \subseteq Annotations,
           vm' \in VMPhases, up' \in BOOLEAN, born' \in [Ops -> Ages]
    PROVE  TInv'
<1>1. /\ clock' = clock /\ spec' = spec /\ vmop' = vmop /\ cvmop' = cvmop /\ events' = events
      /\ work' = work
  BY DEF opVars
<1>2. TypeOK'
  BY <1>1 DEF TInv, TypeOK
<1>3. Known' /\ \A k \in Controllers : WorkKnown(k)'
  BY <1>1, SMTT(20), ZenonT(20), SMTT(40) DEF TInv, Known, WorkKnown, IsOlder
<1> QED BY <1>2, <1>3 DEF TInv

\* One step of one reconcile, which may write one vmop.
LEMMA WorkTypes ==
    ASSUME TInv, NEW k \in Controllers, NEW w \in Work \cup {None}, Go(k, w),
           work[k] # None, w # None => w.o = work[k].o,
           w # None /\ w.pc \in {"cleanup", "mark"} =>
             work[k].pc \in {"cleanup", "mark"} /\ w.todo # {} /\ w.todo \subseteq work[k].todo,
           \/ UNCHANGED opVars
           \/ \E x \in Object \cup {None} : Put(work[k].o, x),
           mig' \in [Ops -> MigStates], cmig' \in [Ops -> MigStates],
           ann' \subseteq Annotations, cann' \subseteq Annotations,
           vm' \in VMPhases, up' \in BOOLEAN, born' \in [Ops -> Ages]
    PROVE  TInv'
<1>1. /\ work' \in [Controllers -> Work \cup {None}] /\ work'[k] = w
      /\ \A j \in Controllers \ {k} : work'[j] = work[j]
  BY Gone, Zenon DEF Go
<1>2. work[k] \in Work /\ work[k].o \in Ops /\ spec[work[k].o] # None
  BY WorkFields DEF TInv, TypeOK, WorkKnown
<1>3. /\ clock' = clock /\ spec' = spec /\ cvmop' = cvmop
      /\ vmop' \in [Ops -> Object \cup {None}]
      /\ events' \in Seq(Ops \X (Object \cup {None})) /\ Known'
  <2>1. CASE UNCHANGED opVars
    BY <2>1, Zenon DEF TInv, TypeOK, Known, opVars
  <2>2. CASE \E x \in Object \cup {None} : Put(work[k].o, x)
    BY <1>2, <2>2, Written
  <2> QED BY <2>1, <2>2
<1>4. TypeOK'
  BY <1>1, <1>3, Zenon DEF TInv, TypeOK
<1>5. ASSUME NEW j \in Controllers
      PROVE  WorkKnown(j)'
  <2>1. CASE j # k
    <3>1. work'[j] = work[j] /\ spec' = spec
      BY <1>1, <1>3, <2>1, Zenon
    <3>2. WorkKnown(j)
      BY Zenon DEF TInv
    <3> QED BY <3>1, <3>2, Zenon DEF WorkKnown, IsOlder
  <2>2. CASE j = k /\ w = None
    BY <1>1, <2>2, Zenon DEF WorkKnown
  <2>3. CASE j = k /\ w # None
    BY <1>1, <1>3, <2>3, WorkKnownStays, Zenon
  <2> QED BY <2>1, <2>2, <2>3
<1> QED BY <1>3, <1>4, <1>5, Zenon DEF TInv

\* A reconcile begins.
LEMMA ReconcileTypes ==
    ASSUME TInv, NEW k \in Controllers, NEW o \in Ops, Reconcile(k, o)
    PROVE  TInv'
<1>1. cvmop[o] # None /\ spec[o] # None /\ spec[o].type \in TypesOf(k)
  BY DEF Reconcile, TInv, Known, TypesOf
<1>2. PICK w \in HandlePower(o) \cup HandleMigration(o) : work' = [work EXCEPT ![k] = w]
  BY Zenon DEF Reconcile
<1>3. Starts(w, o)
  BY <1>1, Handled DEF TInv
<1>4. w \in Work /\ w.o = o
  BY <1>3, Zenon DEF Starts
<1>5. /\ work' \in [Controllers -> Work \cup {None}] /\ work'[k] = w
      /\ \A j \in Controllers \ {k} : work'[j] = work[j]
  BY <1>2, <1>4, Gone, Zenon
<1>6. UNCHANGED <<opVars, migVars, vmVars>>
  BY DEF Reconcile
<1>7. TypeOK'
  BY <1>5, <1>6 DEF TInv, TypeOK, opVars, migVars, vmVars
<1>8. spec' = spec /\ Known'
  BY <1>6, Zenon DEF TInv, Known, opVars
<1>9. WorkKnown(k)'
  <2>1. \A b \in OlderActive(o) : b # o /\ spec[b] # None /\ IsOlder(b, o)
    BY Zenon DEF OlderActive, TInv, Known
  <2> QED BY <1>1, <1>3, <1>4, <1>5, <1>8, <2>1, Zenon DEF WorkKnown, Starts, IsOlder
<1>10. \A j \in Controllers \ {k} : WorkKnown(j)'
  BY <1>5, <1>8, SMTT(20), ZenonT(20), SMTT(40) DEF TInv, WorkKnown, IsOlder
<1> QED BY <1>7, <1>8, <1>9, <1>10 DEF TInv

\* An older vmop is marked as superseded.
LEMMA MarkTypes ==
    ASSUME TInv, NEW k \in Controllers, Mark(k)
    PROVE  TInv'
<1>1. work[k] \in Work /\ work[k].pc = "mark" /\ UNCHANGED <<migVars, vmVars>>
  BY MarkStep, Zenon
<1>2. /\ mig' \in [Ops -> MigStates] /\ cmig' \in [Ops -> MigStates]
      /\ ann' \subseteq Annotations /\ cann' \subseteq Annotations
      /\ vm' \in VMPhases /\ up' \in BOOLEAN /\ born' \in [Ops -> Ages]
  BY <1>1 DEF TInv, TypeOK, migVars, vmVars
<1>3. PICK b \in work[k].todo, w \in Work :
        /\ b \in Ops /\ spec[b] # None /\ b # work[k].o
        /\ Like(w, work[k])
        /\ w.pc \in {"status", "exec", "cleanup"}
        /\ w.pc = "cleanup" => w.todo = work[k].todo \ {b} /\ w.todo # {}
        /\ \/ Go(k, w) /\ UNCHANGED opVars
           \/ /\ cvmop[b] # None /\ vmop[b] # None
              /\ Put(b, [vmop[b] EXCEPT !.phase = "Superseded", !.sent = cvmop[b].sent])
              /\ work' = Outdate([work EXCEPT ![k] = w], b)
  BY MarkStep, ZenonT(20)
<1>4. /\ w.o = work[k].o /\ w # None /\ work[k] # None
      /\ w.pc \in {"cleanup", "mark"} =>
           work[k].pc \in {"cleanup", "mark"} /\ w.todo # {} /\ w.todo \subseteq work[k].todo
  BY <1>1, <1>3, NoneAssumption DEF Like
<1>5. CASE Go(k, w) /\ UNCHANGED opVars
  BY <1>2, <1>4, <1>5, WorkTypes, Zenon
<1>6. CASE /\ cvmop[b] # None /\ vmop[b] # None
           /\ Put(b, [vmop[b] EXCEPT !.phase = "Superseded", !.sent = cvmop[b].sent])
           /\ work' = Outdate([work EXCEPT ![k] = w], b)
  <2> DEFINE wk == [work EXCEPT ![k] = w]
             x == [vmop[b] EXCEPT !.phase = "Superseded", !.sent = cvmop[b].sent]
  <2>1. wk \in [Controllers -> Work \cup {None}] /\ wk[k] = w
        /\ \A j \in Controllers \ {k} : wk[j] = work[j]
    BY Zenon DEF TInv, TypeOK
  <2>2. x \in Object
    <3>1. vmop[b] \in Object /\ cvmop[b] \in Object
      BY <1>3, <1>6 DEF TInv, TypeOK
    <3>2. cvmop[b].sent \in BOOLEAN /\ "Superseded" \in Phases
      BY <3>1, ObjectFields, Zenon DEF Phases
    <3> QED BY <3>1, <3>2, NewObjects, Zenon
  <2>3. Put(b, x) /\ work' = Outdate(wk, b)
    BY <1>6
  <2> HIDE DEF wk, x
  <2>4. /\ clock' = clock /\ spec' = spec /\ cvmop' = cvmop
        /\ vmop' \in [Ops -> Object \cup {None}]
        /\ events' \in Seq(Ops \X (Object \cup {None})) /\ Known'
    BY <1>3, <2>2, <2>3, Written
  <2>5. work' \in [Controllers -> Work \cup {None}]
    BY <1>1, <1>3, <2>1, <2>3, OutdateStep, Zenon
  <2>6. TypeOK'
    BY <1>2, <2>4, <2>5, Zenon DEF TInv, TypeOK
  <2>7. ASSUME NEW j \in Controllers
        PROVE  WorkKnown(j)'
    <3>1. wk[j] = None => work'[j] = None
      BY <1>3, <2>1, <2>3, OutdateStep, Zenon
    <3>2. wk[j] # None => /\ work'[j].o = wk[j].o /\ work'[j].pc = wk[j].pc
                          /\ work'[j].todo = wk[j].todo
      <4> DEFINE v == Outdate(wk, b)[j]
      <4>1. wk[j] # None => v.o = wk[j].o /\ v.pc = wk[j].pc /\ v.todo = wk[j].todo
        <5>1. b \in Ops /\ wk \in [Controllers -> Work \cup {None}]
          BY <1>3, <2>1
        <5> QED BY <5>1, OutdateStep, Zenon
      <4>2. work'[j] = v
        BY <2>3, Zenon
      <4> HIDE DEF v
      <4> QED BY <4>1, <4>2
    <3>3. CASE wk[j] = None
      BY <3>1, <3>3, Zenon DEF WorkKnown
    <3>4. CASE wk[j] # None /\ j # k
      BY <2>1, <2>4, <3>2, <3>4, WorkKnownStays, Zenon DEF TInv, WorkKnown
    <3>5. CASE j = k
      BY <1>4, <2>1, <2>4, <3>2, <3>5, WorkKnownStays, Zenon
    <3> QED BY <3>3, <3>4, <3>5
  <2> QED BY <2>4, <2>6, <2>7, Zenon DEF TInv
<1> QED BY <1>3, <1>5, <1>6

\* A reconcile in flight takes its next step.
LEMMA StepTypes ==
    ASSUME TInv, NEW k \in Controllers, Step(k)
    PROVE  TInv'
<1>1. /\ mig \in [Ops -> MigStates] /\ cmig \in [Ops -> MigStates]
      /\ ann \subseteq Annotations /\ cann \subseteq Annotations
      /\ vm \in VMPhases /\ up \in BOOLEAN /\ born \in [Ops -> Ages]
  BY DEF TInv, TypeOK
<1>2. \A o \in Ops : Aborted(o) => mig' \in [Ops -> MigStates]
  BY <1>1 DEF Aborted, MigStates
<1>3. CASE Abort(k)
  <2> DEFINE w == [work[k] EXCEPT !.pc = "status"]
  <2>1. work[k] \in Work /\ work[k] # None /\ work[k].o \in Ops
    BY <1>3, WorkFields DEF Abort, TInv, TypeOK
  <2>2. w \in Work /\ w.o = work[k].o /\ w.pc = "status"
    BY <2>1, PcStep, Zenon DEF Like
  <2>3. Go(k, w) /\ Aborted(work[k].o) /\ UNCHANGED <<opVars, cmig, vmVars>>
    BY <1>3 DEF Abort
  <2> HIDE DEF w
  <2>4. mig' \in [Ops -> MigStates] /\ UNCHANGED <<opVars, cmig, ann, cann, vm, up, born>>
    BY <1>2, <2>1, <2>3 DEF vmVars
  <2> QED BY <1>1, <2>1, <2>2, <2>3, <2>4, WorkTypes, Zenon
<1>4. CASE Cleanup(k)
  <2> DEFINE u == work[k]
             b == Oldest(u.todo)
  <2>1. u \in Work /\ u # None /\ u.pc = "cleanup" /\ u.todo \subseteq Ops
    BY <1>4, WorkFields DEF Cleanup, TInv, TypeOK
  <2>2. u.todo # {} /\ \A c \in u.todo : spec[c] # None
    BY <2>1, Zenon DEF TInv, WorkKnown
  <2>3. b \in Ops
    BY <2>1, <2>2, OldestIn, Zenon DEF TInv
  <2>4. /\ \/ ann' = ann \ Withdrawn(b) /\ Go(k, [u EXCEPT !.pc = "mark"])
           \/ ann' = ann /\ Go(k, [u EXCEPT !.pc = "status"])
        /\ Aborted(b) \/ mig' = mig
        /\ UNCHANGED <<opVars, cmig, cann, vm, up, born>>
    BY <1>4 DEF Cleanup
  <2> HIDE DEF b, u
  <2>5. PICK p \in {"mark", "status"} : Go(k, [u EXCEPT !.pc = p])
    BY <2>4
  <2> DEFINE w == [u EXCEPT !.pc = p]
  <2>6. w \in Work /\ w.o = u.o /\ w.todo = u.todo
    <3>1. p \in {"abort", "cleanup", "mark", "exec", "status", "patch"}
      OBVIOUS
    <3> QED BY <2>1, <3>1, PcStep, ZenonT(20) DEF Like
  <2>7. ann' \subseteq Annotations /\ mig' \in [Ops -> MigStates]
    BY <1>1, <1>2, <2>3, <2>4
  <2>8. Go(k, w)
    BY <2>5
  <2> HIDE DEF w
  <2> QED BY <1>1, <2>1, <2>2, <2>4, <2>6, <2>7, <2>8, WorkTypes DEF u
<1>5. CASE Mark(k)
  BY <1>5, MarkTypes
<1>6. CASE Status(k)
  <2> DEFINE u == work[k]
             w == [u EXCEPT !.pc = "patch"]
             x == [vmop[u.o] EXCEPT !.phase = u.now.phase, !.sent = u.now.sent]
  <2>1. /\ u \in Work /\ UNCHANGED <<migVars, ann, cann, vm, up>> /\ born' \in [Ops -> Ages]
        /\ Drop(k) \/ Go(k, w)
        /\ UNCHANGED opVars \/ (vmop[u.o] # None /\ Put(u.o, x))
    BY <1>6, StatusStep, Zenon
  <2>2. u # None /\ u.o \in Ops /\ u.now \in Object
    BY <1>6, <2>1, WorkFields DEF Status
  <2>3. vmop[u.o] # None => x \in Object
    <3>1. vmop[u.o] # None => vmop[u.o] \in Object
      BY <2>2 DEF TInv, TypeOK
    <3>2. u.now.phase \in Phases /\ u.now.sent \in BOOLEAN
      BY <2>2, ObjectFields
    <3> QED BY <3>1, <3>2, NewObjects, Zenon
  <2>4. w \in Work /\ w.o = u.o /\ w.pc = "patch"
    BY <2>1, PcStep, Zenon DEF Like
  <2> HIDE DEF u, w, x
  <2>5. UNCHANGED opVars \/ \E y \in Object \cup {None} : Put(u.o, y)
    BY <2>1, <2>3
  <2>6. mig' = mig /\ cmig' = cmig
    BY <2>1 DEF migVars
  <2>7. CASE Drop(k)
    BY <1>1, <2>1, <2>2, <2>5, <2>6, <2>7, WorkTypes, Zenon DEF Drop, Go, u
  <2>8. CASE Go(k, w)
    BY <1>1, <2>1, <2>2, <2>4, <2>5, <2>6, <2>8, WorkTypes, Zenon DEF u
  <2> QED BY <2>1, <2>7, <2>8
<1>7. CASE Patch(k)
  <2> DEFINE u == work[k]
             x == [vmop[u.o] EXCEPT !.fin = u.now.fin]
  <2>1. /\ u \in Work /\ Drop(k) /\ UNCHANGED <<migVars, vmVars>>
        /\ \/ UNCHANGED opVars \/ Put(u.o, None) \/ (vmop[u.o] # None /\ Put(u.o, x))
    BY <1>7, PatchStep
  <2>2. u # None /\ u.o \in Ops /\ u.now.fin \in BOOLEAN
    BY <1>7, <2>1, WorkFields, ObjectFields DEF Patch
  <2>3. vmop[u.o] # None => x \in Object
    <3>1. vmop[u.o] # None => vmop[u.o] \in Object
      BY <2>2, Zenon DEF TInv, TypeOK
    <3> QED BY <2>2, <3>1 DEF Object
  <2> HIDE DEF u, x
  <2>4. UNCHANGED opVars \/ \E y \in Object \cup {None} : Put(u.o, y)
    BY <2>1, <2>3
  <2>5. UNCHANGED <<mig, cmig, ann, cann, vm, up, born>>
    BY <2>1 DEF migVars, vmVars
  <2> QED BY <1>1, <2>1, <2>2, <2>4, <2>5, WorkTypes, Zenon DEF Drop, Go, u
<1> QED BY <1>3, <1>4, <1>5, <1>6, <1>7 DEF Step

\* The signal is sent, or the call fails.
LEMMA ExecTypes ==
    ASSUME TInv, NEW failed \in BOOLEAN, ExecPower(failed) \/ ExecMigration(failed)
    PROVE  TInv'
<1>1. PICK k \in Controllers, w \in Work :
        /\ work[k] \in Work /\ work[k].pc = "exec"
        /\ Go(k, w) /\ Like(w, work[k]) /\ w.pc = "status"
        /\ UNCHANGED <<opVars, cmig, cann, born>>
        /\ ann' \subseteq Annotations /\ vm' \in VMPhases /\ up' \in BOOLEAN
        /\ mig' \in [Ops -> MigStates]
  BY ExecStep, Zenon
<1>2. work[k] # None /\ w.o = work[k].o
  BY <1>1, NoneAssumption, Zenon DEF Like
<1>3. cmig \in [Ops -> MigStates] /\ cann \subseteq Annotations /\ born \in [Ops -> Ages]
  BY DEF TInv, TypeOK
<1> QED BY <1>1, <1>2, <1>3, WorkTypes, Zenon

\* The VM, its instance and its migrations move on by themselves.
LEMMA MachineTypes ==
    ASSUME TInv, Machine
    PROVE  TInv'
<1>1. /\ mig \in [Ops -> MigStates] /\ cmig \in [Ops -> MigStates]
      /\ ann \subseteq Annotations /\ cann \subseteq Annotations
      /\ vm \in VMPhases /\ up \in BOOLEAN /\ born \in [Ops -> Ages]
  BY DEF TInv, TypeOK
<1>2. CASE SyncPowerState
  BY <1>1, <1>2, RestTypes DEF SyncPowerState, StartRequested, RestartRequested, migVars, VMPhases
<1>3. CASE VMDown \/ VMRuns
  BY <1>1, <1>3, RestTypes DEF VMDown, VMRuns, migVars, VMPhases
<1>4. CASE VMUp
  <2> PICK late \in SUBSET {o \in Ops : Waiting(o)} :
        /\ born' = [o \in Ops |-> IF Active(vmop[o]) THEN Age(o, late) ELSE "before"]
        /\ work' = [k \in Controllers |->
                     IF work[k] = None THEN None
                     ELSE [work[k] EXCEPT !.age = Age(work[k].o, late)]]
    BY <1>4 DEF VMUp
  <2>0. \A o : Age(o, late) \in Ages
    BY DEF Age, Ages
  <2>1. ASSUME NEW k \in Controllers
        PROVE  /\ work[k] = None => work'[k] = None
               /\ work[k] # None => /\ work'[k] \in Work /\ work'[k].o = work[k].o
                                    /\ work'[k].pc = work[k].pc /\ work'[k].todo = work[k].todo
    <3> DEFINE age == Age(work[k].o, late)
    <3>1. work'[k] = IF work[k] = None THEN None ELSE [work[k] EXCEPT !.age = age]
      OBVIOUS
    <3>2. CASE work[k] = None
      BY <3>1, <3>2
    <3>3. CASE work[k] # None
      <4>1. work[k] \in Work /\ work'[k] = [work[k] EXCEPT !.age = age] /\ age \in Ages
        BY <2>0, <3>1, <3>3 DEF TInv, TypeOK
      <4> HIDE DEF age
      <4> QED BY <3>3, <4>1, Zenon DEF Work
    <3> QED BY <3>2, <3>3
  <2>2. work' \in [Controllers -> Work \cup {None}]
    <3>1. \A k \in Controllers : work'[k] \in Work \cup {None}
      BY <2>1
    <3> QED BY <3>1
  <2>3. /\ clock' = clock /\ spec' = spec /\ vmop' = vmop /\ cvmop' = cvmop /\ events' = events
        /\ mig' = mig /\ cmig' = cmig /\ ann' = ann /\ cann' = cann
        /\ vm' = "Starting" /\ up' = FALSE
    BY <1>4 DEF VMUp, opVars, migVars
  <2>7. born' \in [Ops -> Ages]
    <3>1. "before" \in Ages
      BY DEF Ages
    <3> QED BY <2>0, <3>1
  <2>4. TypeOK'
    BY <2>2, <2>3, <2>7, Zenon DEF TInv, TypeOK, VMPhases
  <2>5. Known'
    BY <2>3 DEF TInv, Known
  <2>6. ASSUME NEW k \in Controllers
        PROVE  WorkKnown(k)'
    <3>1. CASE work[k] = None
      BY <2>1, <3>1 DEF WorkKnown
    <3>2. CASE work[k] # None
      <4>1. work[k].pc \in {"cleanup", "mark"} => work[k].todo # {}
        BY <3>2, Zenon DEF TInv, WorkKnown
      <4>2. /\ work'[k].o = work[k].o /\ work'[k].pc = work[k].pc
            /\ work'[k].todo = work[k].todo /\ spec' = spec
        BY <2>1, <2>3, <3>2
      <4> QED BY <3>2, <4>1, <4>2, WorkKnownStays
    <3> QED BY <3>1, <3>2
  <2> QED BY <2>4, <2>5, <2>6 DEF TInv
<1>5. ASSUME NEW o \in Ops, MigStart(o) \/ MigEnd(o) \/ MigGone(o) \/ MigOrphaned(o)
      PROVE  TInv'
  <2>1. Settled => vm' \in VMPhases
    BY <1>1 DEF Settled, VMPhases
  <2>2. mig' \in [Ops -> MigStates]
    BY <1>1, <1>5 DEF MigStart, MigEnd, MigGone, MigOrphaned, Aborted, migVars, MigStates
  <2>3. vm' \in VMPhases
    BY <1>1, <1>5, <2>1 DEF MigStart, MigEnd, MigGone, MigOrphaned, vmVars, VMPhases
  <2>4. UNCHANGED <<opVars, work, cmig, ann, cann, up, born>>
    BY <1>5, Zenon DEF MigStart, MigEnd, MigGone, MigOrphaned, migVars, vmVars
  <2> QED BY <1>1, <2>2, <2>3, <2>4, RestTypes
<1> QED BY <1>2, <1>3, <1>4, <1>5 DEF Machine

\* The caches learn of a change.
LEMMA SyncTypes ==
    ASSUME TInv, Sync
    PROVE  TInv'
<1>1. /\ mig \in [Ops -> MigStates] /\ cmig \in [Ops -> MigStates]
      /\ ann \subseteq Annotations /\ cann \subseteq Annotations
      /\ vm \in VMPhases /\ up \in BOOLEAN /\ born \in [Ops -> Ages]
  BY DEF TInv, TypeOK
<1>2. CASE SyncVMOP
  <2> DEFINE E == Ops \X (Object \cup {None})
  <2>1. events \in Seq(E) /\ events # <<>>
    BY <1>2 DEF SyncVMOP, TInv, TypeOK
  <2>2. /\ Head(events) \in E /\ events' \in Seq(E) /\ Len(events') = Len(events) - 1
        /\ \A i \in 1 .. Len(events') : events'[i] = events[i + 1]
        /\ Head(events) = events[1] /\ Len(events) \in Nat /\ Len(events) >= 1
    <3> HIDE DEF E
    <3>1. Head(events) = events[1] /\ Len(events) \in Nat /\ Len(events) >= 1
      BY <2>1
    <3> QED BY <1>2, <2>1, <3>1 DEF SyncVMOP
  <2>3. /\ clock' = clock /\ spec' = spec /\ vmop' = vmop /\ work' = work
        /\ cvmop' = [cvmop EXCEPT ![events[1][1]] = events[1][2]]
        /\ UNCHANGED <<migVars, vmVars>>
    BY <1>2, <2>2 DEF SyncVMOP
  <2>4. events[1][1] \in Ops /\ events[1][2] \in Object \cup {None} /\ spec[events[1][1]] # None
    <3>1. 1 \in DOMAIN events
      BY <2>1, <2>2
    <3> QED BY <2>2, <3>1 DEF TInv, Known
  <2>5. cvmop' \in [Ops -> Object \cup {None}]
    BY <2>3, <2>4 DEF TInv, TypeOK
  <2>6. TypeOK'
    BY <1>1, <2>2, <2>3, <2>5, Zenon DEF TInv, TypeOK, migVars, vmVars
  <2>7. \A i \in DOMAIN events' : spec'[events'[i][1]] # None
    <3> TAKE i \in DOMAIN events'
    <3>1. DOMAIN events' = 1 .. Len(events') /\ DOMAIN events = 1 .. Len(events)
      BY <2>1, <2>2
    <3>2. i \in 1 .. Len(events') /\ i + 1 \in DOMAIN events
      BY <2>2, <3>1
    <3> QED BY <2>2, <2>3, <3>2 DEF TInv, Known
  <2>8. Known'
    BY <2>3, <2>4, <2>7, Zenon DEF TInv, TypeOK, Known
  <2>9. \A k \in Controllers : WorkKnown(k)'
    BY <2>3, Zenon DEF TInv, WorkKnown, IsOlder
  <2> QED BY <2>6, <2>8, <2>9 DEF TInv
<1>3. CASE SyncKVVM
  BY <1>1, <1>3, RestTypes DEF SyncKVVM, migVars
<1>4. ASSUME NEW o \in Ops, SyncMig(o)
      PROVE  TInv'
  BY <1>1, <1>4, RestTypes DEF SyncMig, vmVars
<1> QED BY <1>2, <1>3, <1>4 DEF Sync

\* The vmop a user creates.
New == [phase |-> "", sent |-> FALSE, fin |-> FALSE, del |-> FALSE]

\* A vmop is created: it is the youngest.
LEMMA CreateStep ==
    ASSUME TInv, NEW o \in Ops, NEW kind \in Kinds, Create(o, kind)
    PROVE  /\ spec[o] = None /\ clock' \in Nat /\ clock' >= clock
           /\ ~SameSecond => clock' = clock + 1
           /\ spec' \in [Ops -> Request \cup {None}] /\ spec'[o] # None /\ spec'[o].at = clock'
           /\ \A b \in Ops \ {o} : spec'[b] = spec[b] /\ vmop'[b] = vmop[b]
           /\ New \in Object /\ vmop' \in [Ops -> Object \cup {None}] /\ vmop'[o] = New
           /\ events' \in Seq(Ops \X (Object \cup {None})) /\ Len(events') = Len(events) + 1
           /\ events'[Len(events) + 1] = <<o, New>>
           /\ \A i \in 1 .. Len(events) : events'[i] = events[i]
           /\ UNCHANGED <<cvmop, work, migVars, vmVars>>
<1> DEFINE E == Ops \X (Object \cup {None})
           e == <<o, New>>
           r == [type |-> kind.type, force |-> kind.force, at |-> clock']
<1>1. New \in Object
  BY DEF New, Object, Phases
<1>2. events \in Seq(E) /\ e \in E /\ clock \in Nat /\ Len(events) \in Nat
  BY <1>1 DEF TInv, TypeOK
<1>3. /\ spec[o] = None /\ clock' \in {clock, clock + 1} /\ (~SameSecond => clock' = clock + 1)
      /\ spec' = [spec EXCEPT ![o] = r] /\ vmop' = [vmop EXCEPT ![o] = New]
      /\ events' = Append(events, e) /\ UNCHANGED <<cvmop, work, migVars, vmVars>>
  BY Zenon DEF Create, New
<1>4. clock' \in Nat /\ clock' >= clock
  BY <1>2, <1>3, SMTT(20), ZenonT(20), SMTT(40)
<1>5. r \in Request /\ r.at = clock'
  <2>1. kind \in Kind
    BY ConstantsAssumption, Zenon
  <2> QED BY <1>4, <2>1 DEF Kind, Request
<1> HIDE DEF E, e, r
<1>6. /\ events' \in Seq(E) /\ Len(events') = Len(events) + 1
      /\ \A i \in 1 .. Len(events) : events'[i] = events[i]
      /\ events'[Len(events) + 1] = e
  <2>1. events' = Append(events, e)
    BY <1>3
  <2>2. events' \in Seq(E) /\ Len(events') = Len(events) + 1
    BY <1>2, <2>1
  <2>3. events'[Len(events) + 1] = e
    BY <1>2, <2>1
  <2>4. \A i \in 1 .. Len(events) : events'[i] = events[i]
    BY <1>2, <2>1
  <2> QED BY <2>2, <2>3, <2>4
<1>7. spec \in [Ops -> Request \cup {None}] /\ vmop \in [Ops -> Object \cup {None}]
  BY DEF TInv, TypeOK
<1>8. /\ spec' \in [Ops -> Request \cup {None}] /\ spec'[o] = r /\ spec'[o] # None
      /\ \A b \in Ops \ {o} : spec'[b] = spec[b] /\ vmop'[b] = vmop[b]
      /\ vmop' \in [Ops -> Object \cup {None}] /\ vmop'[o] = New
  BY <1>1, <1>3, <1>5, <1>7, NoneAssumption
<1> QED BY <1>1, <1>3, <1>4, <1>5, <1>6, <1>8, Zenon DEF E, e

\* A vmop is created.
LEMMA CreateTypes ==
    ASSUME TInv, NEW o \in Ops, NEW kind \in Kinds, Create(o, kind)
    PROVE  TInv'
<1>1. /\ spec[o] = None /\ clock' \in Nat
      /\ spec' \in [Ops -> Request \cup {None}] /\ spec'[o] # None
      /\ \A b \in Ops \ {o} : spec'[b] = spec[b] /\ vmop'[b] = vmop[b]
      /\ vmop' \in [Ops -> Object \cup {None}]
      /\ events' \in Seq(Ops \X (Object \cup {None})) /\ Len(events') = Len(events) + 1
      /\ events'[Len(events) + 1] = <<o, New>>
      /\ \A i \in 1 .. Len(events) : events'[i] = events[i]
      /\ UNCHANGED <<cvmop, work, migVars, vmVars>>
  BY CreateStep, Zenon
<1>2. TypeOK'
  BY <1>1, Zenon DEF TInv, TypeOK, migVars, vmVars
<1>3. \A i \in DOMAIN events' : spec'[events'[i][1]] # None
  <2> TAKE i \in DOMAIN events'
  <2>1. events \in Seq(Ops \X (Object \cup {None}))
    BY DEF TInv, TypeOK
  <2>2. Len(events) \in Nat /\ DOMAIN events = 1 .. Len(events) /\ i \in 1 .. Len(events) + 1
    <3>1. /\ events' \in Seq(Ops \X (Object \cup {None}))
          /\ Len(events') = Len(events) + 1
      BY <1>1
    <3>2. Len(events) \in Nat /\ DOMAIN events = 1 .. Len(events)
      BY <2>1
    <3>3. DOMAIN events' = 1 .. Len(events')
      BY <3>1
    <3> QED BY <3>1, <3>2, <3>3
  <2>3. CASE i = Len(events) + 1
    BY <1>1, <2>3
  <2>4. CASE i \in 1 .. Len(events)
    <3>1. events'[i] = events[i] /\ spec[events[i][1]] # None /\ events[i][1] \in Ops
      BY <1>1, <2>1, <2>2, <2>4, SMTT(20), ZenonT(20), SMTT(40) DEF TInv, Known
    <3> QED BY <1>1, <3>1, Zenon
  <2> QED BY <2>2, <2>3, <2>4
<1>4. Known'
  BY <1>1, <1>3 DEF TInv, Known
<1>5. ASSUME NEW k \in Controllers, work'[k] # None
      PROVE  WorkKnown(k)'
  <2>1. work'[k] = work[k] /\ work[k] \in Work
    BY <1>1, <1>5, Zenon DEF TInv, TypeOK
  <2>2. work[k].o \in Ops /\ work[k].todo \subseteq Ops
    BY <2>1, WorkFields
  <2>3. \A b \in Ops : spec[b] # None => spec'[b] = spec[b]
    BY <1>1, Zenon
  <2>4. WorkKnown(k) /\ work[k] # None
    BY <1>5, <2>1, Zenon DEF TInv
  <2>5. PICK c \in Ops : c = work[k].o
    BY <2>2
  <2>6. spec'[c] # None /\ spec'[c] = spec[c]
    BY <2>3, <2>4, <2>5, Zenon DEF WorkKnown
  <2>7. ASSUME work[k].pc \in {"cleanup", "mark"}, NEW b \in work[k].todo
        PROVE  b # c /\ spec'[b] # None /\ IsOlder(b, c)'
    <3>1. b # c /\ spec[b] # None /\ IsOlder(b, c)
      BY <2>4, <2>5, <2>7, Zenon DEF WorkKnown
    <3>2. spec'[b] = spec[b]
      BY <2>2, <2>3, <3>1
    <3> QED BY <2>6, <3>1, <3>2, Zenon DEF IsOlder
  <2>8. work'[k].o = c /\ work'[k].pc = work[k].pc /\ work'[k].todo = work[k].todo
    BY <2>1, <2>5
  <2>9. spec'[c].type \in TypesOf(k) /\ (work[k].pc \in {"cleanup", "mark"} => work[k].todo # {})
    BY <2>4, <2>5, <2>6, Zenon DEF WorkKnown
  <2> QED BY <2>6, <2>7, <2>8, <2>9, Zenon DEF WorkKnown
<1> QED BY <1>2, <1>4, <1>5, Zenon DEF TInv, WorkKnown

\* A deletion marks the vmop, or removes it where no finalizer keeps it.
LEMMA DeleteStep ==
    ASSUME TInv, NEW o \in Ops, Delete(o)
    PROVE  \E x \in Object \cup {None} :
             /\ Put(o, x) /\ vmop[o] # None /\ spec[o] # None
             /\ x # None => x.phase = vmop[o].phase /\ x.sent = vmop[o].sent
             /\ work' = Outdate(work, o) /\ UNCHANGED <<migVars, vmVars>>
<1>1. vmop[o] # None /\ vmop[o] \in Object /\ spec[o] # None
  BY DEF Delete, TInv, TypeOK, Known
<1> DEFINE x == [vmop[o] EXCEPT !.del = TRUE]
<1>2. x \in Object /\ x.phase = vmop[o].phase /\ x.sent = vmop[o].sent
  BY <1>1, NewObjects, Zenon DEF Object
<1>3. /\ Put(o, x) \/ Put(o, None)
      /\ work' = Outdate(work, o) /\ UNCHANGED <<migVars, vmVars>>
  BY DEF Delete
<1> HIDE DEF x
<1> QED BY <1>1, <1>2, <1>3, Zenon

\* A vmop is deleted.
LEMMA DeleteTypes ==
    ASSUME TInv, NEW o \in Ops, Delete(o)
    PROVE  TInv'
<1>1. PICK x \in Object \cup {None} :
        /\ Put(o, x) /\ spec[o] # None
        /\ work' = Outdate(work, o) /\ UNCHANGED <<migVars, vmVars>>
  BY DeleteStep
<1>2. /\ clock' = clock /\ spec' = spec /\ cvmop' = cvmop
      /\ vmop' \in [Ops -> Object \cup {None}]
      /\ events' \in Seq(Ops \X (Object \cup {None})) /\ Known'
  BY <1>1, Written
<1>3. work \in [Controllers -> Work \cup {None}]
  BY DEF TInv, TypeOK
<1>4. work' \in [Controllers -> Work \cup {None}]
  <2>1. "power" \in Controllers
    BY DEF Controllers
  <2> QED BY <1>1, <1>3, <2>1, OutdateStep, Zenon
<1>5. TypeOK'
  BY <1>1, <1>2, <1>4 DEF TInv, TypeOK, migVars, vmVars
<1>6. ASSUME NEW k \in Controllers
      PROVE  WorkKnown(k)'
  <2>1. CASE work[k] = None
    <3>1. work'[k] = None
      BY <1>1, <1>3, <2>1, OutdateStep, Zenon
    <3> QED BY <3>1, Zenon DEF WorkKnown
  <2>2. CASE work[k] # None
    <3> DEFINE v == Outdate(work, o)[k]
    <3>1. v.o = work[k].o /\ v.pc = work[k].pc /\ v.todo = work[k].todo
      BY <1>3, <2>2, OutdateStep, Zenon
    <3>2. work'[k] = v
      BY <1>1
    <3> HIDE DEF v
    <3> QED BY <1>2, <2>2, <3>1, <3>2, WorkKnownStays, Zenon DEF TInv, WorkKnown
  <2> QED BY <2>1, <2>2
<1> QED BY <1>2, <1>5, <1>6 DEF TInv

\* The process restarts: no reconcile is in flight and the caches are current.
LEMMA RestartTypes ==
    ASSUME TInv, Restart
    PROVE  TInv'
<1>1. /\ work' = [k \in Controllers |-> None]
      /\ cvmop' = vmop /\ events' = <<>> /\ cmig' = mig /\ cann' = ann
      /\ UNCHANGED <<clock, spec, vmop, mig, ann, vm, up, born>>
  BY DEF Restart
<1>2. events' \in Seq(Ops \X (Object \cup {None})) /\ DOMAIN events' = {}
  BY <1>1
<1>3. TypeOK'
  BY <1>1, <1>2 DEF TInv, TypeOK
<1>4. Known' /\ \A k \in Controllers : WorkKnown(k)'
  BY <1>1, <1>2, Zenon DEF TInv, Known, WorkKnown
<1> QED BY <1>3, <1>4 DEF TInv

\* No vmop exists at first.
LEMMA InitTypes ==
    ASSUME Init
    PROVE  TInv
<1>1. events \in Seq(Ops \X (Object \cup {None})) /\ DOMAIN events = {}
  BY DEF Init
<1>2. TypeOK
  BY <1>1, Zenon DEF Init, TypeOK, MigStates, VMPhases, Ages
<1>3. Known /\ \A k \in Controllers : WorkKnown(k)
  BY <1>1, Zenon DEF Init, Known, WorkKnown
<1> QED BY <1>2, <1>3 DEF TInv

\* Every step preserves the types and what is known of the vmops.
LEMMA NextTypes ==
    ASSUME TInv, [Next]_vars
    PROVE  TInv'
<1>1. CASE \E k \in Controllers : Step(k) \/ \E o \in Ops : Reconcile(k, o)
  BY <1>1, StepTypes, ReconcileTypes
<1>2. CASE Exec \/ Fault
  BY <1>2, ExecTypes, Zenon DEF Exec, Fault
<1>3. CASE Sync
  BY <1>3, SyncTypes
<1>4. CASE Machine
  BY <1>4, MachineTypes
<1>5. CASE Restart
  BY <1>5, RestartTypes
<1>6. CASE Done \/ UNCHANGED vars
  <2>1. UNCHANGED <<opVars, work, migVars, vmVars>>
    BY <1>6 DEF Done, vars
  <2>2. UNCHANGED <<opVars, work>> /\ UNCHANGED <<mig, cmig, ann, cann, vm, up, born>>
    BY <2>1 DEF migVars, vmVars
  <2> QED BY <2>2, RestTypes, Zenon DEF TInv, TypeOK
<1>7. CASE \E o \in Ops : Delete(o) \/ \E kind \in Kinds : Create(o, kind)
  BY <1>7, DeleteTypes, CreateTypes
<1> QED BY <1>1, <1>2, <1>3, <1>4, <1>5, <1>6, <1>7 DEF Next

\* The strengthened type invariant holds in every reachable state.
THEOREM TypesKept == Spec => []TInv
<1>1. Init => TInv
  BY InitTypes
<1>2. TInv /\ [Next]_vars => TInv'
  BY NextTypes
<1> QED BY <1>1, <1>2, PTL DEF Spec

\* The objects of the API server, the caches, the watch events and the
\* reconciles in flight keep their types, whatever fails, restarts or lags:
\* in particular markSuperseded always has a vmop to supersede.
THEOREM TypeCorrect == Spec => []TypeOK
<1>1. TInv => TypeOK
  BY DEF TInv
<1> QED BY <1>1, TypesKept, PTL
-----------------------------------------------------------------------------
\* One operation at a time, where creation timestamps differ.

\* the operation is over: this never changes again
Past(x) == x = None \/ Ended(x)

\* every older operation is over: o may act on the VM, now and ever after
Cleared(o) ==
  /\ spec[o] # None
  /\ \A b \in Ops \ {o} : ~SameSecond /\ spec[b] # None /\ IsOlder(b, o) => Past(vmop[b])

\* the cache has yet to learn that o was created
Unseen(o) == cvmop[o] = None /\ ~Current(o)

Aged == \A o \in Ops : spec[o] # None => spec[o].at <= clock

LastOf(i) == \A j \in DOMAIN events : j > i => events[j][1] # events[i][1]

\* the events lead the cache to the API server, and none of them shows an
\* operation as over that is not
Log ==
  /\ \A o \in Ops : Current(o) => cvmop[o] = vmop[o]
  /\ \A i \in DOMAIN events : LastOf(i) => events[i][2] = vmop[events[i][1]]
  /\ \A i \in DOMAIN events : events[i][2] = None => LastOf(i)
  /\ \A i \in DOMAIN events : Past(events[i][2]) => Past(vmop[events[i][1]])
  /\ \A o \in Ops : cvmop[o] # None /\ Ended(cvmop[o]) => Past(vmop[o])

\* operations enter the cache in the order of their age
InOrder ==
  \A o, b \in Ops :
    ~SameSecond /\ b # o /\ spec[o] # None /\ spec[b] # None /\ IsOlder(b, o) /\ Unseen(b) =>
      /\ cvmop[o] = None
      /\ \A i \in DOMAIN events :
           events[i][1] = o => \E j \in DOMAIN events : j < i /\ events[j][1] = b

\* whatever shows that the signal was sent, or acts on the VM
Sent ==
  /\ \A o \in Ops : vmop[o] # None /\ vmop[o].sent => Cleared(o)
  /\ \A o \in Ops : cvmop[o] # None /\ cvmop[o].sent => Cleared(o)
  /\ \A i \in DOMAIN events : events[i][2] # None /\ events[i][2].sent => Cleared(events[i][1])
  /\ \A o \in Ops : mig[o] # "none" \/ cmig[o] # "none" => Cleared(o)

WorkSound(k) ==
  work[k] # None =>
    /\ work[k].ok /\ work[k].pc # "patch" => vmop[work[k].o] = work[k].was
    /\ Ended(work[k].was) =>
         Ended(work[k].now) /\ work[k].pc \notin {"cleanup", "mark", "exec"}
    /\ work[k].now.sent \/ work[k].pc = "exec" => Cleared(work[k].o)
    /\ work[k].pc \in {"cleanup", "mark"} =>
         /\ \A b \in work[k].todo : ~Unseen(b)
         /\ \A b \in Ops \ {work[k].o} :
              ~SameSecond /\ spec[b] # None /\ IsOlder(b, work[k].o) =>
                Past(vmop[b]) \/ b \in work[k].todo

SInv == Aged /\ Log /\ InOrder /\ Sent /\ \A k \in Controllers : WorkSound(k)

-----------------------------------------------------------------------------
\* One operation at a time.

\* What is over stays over, and what is created is younger than what is there.
Grows ==
  /\ \A o \in Ops : spec[o] # None => spec'[o] = spec[o]
  /\ \A o \in Ops : ~SameSecond /\ spec[o] = None /\ spec'[o] # None => spec'[o].at > clock
  /\ \A o \in Ops : spec[o] # None /\ Past(vmop[o]) => Past(vmop'[o])

\* A creation timestamp is a number.
LEMMA RequestAt ==
    ASSUME TypeOK, NEW o \in Ops, spec[o] # None
    PROVE  spec[o].at \in Nat
<1>1. spec[o] \in Request
  BY DEF TypeOK
<1> QED BY <1>1 DEF Request

\* Nothing older than an operation is ever created.
LEMMA OlderStays ==
    ASSUME ~SameSecond, TInv, TInv', Aged, Grows, NEW o \in Ops, spec[o] # None,
           NEW b \in Ops, spec'[b] # None, IsOlder(b, o)'
    PROVE  spec[b] # None /\ IsOlder(b, o)
<1>1. spec'[o] = spec[o] /\ spec[o].at \in Nat /\ spec[o].at <= clock /\ clock \in Nat
  BY RequestAt, Zenon DEF Grows, Aged, TInv, TypeOK
<1>2. CASE spec[b] = None
  <2>1. spec'[b].at > clock
    BY <1>2, Zenon DEF Grows
  <2>2. spec'[b] \in Request
    BY DEF TInv, TypeOK
  <2>3. spec'[b].at \in Nat
    BY <2>2, Zenon DEF Request
  <2>4. spec'[b].at # spec'[o].at /\ ~(spec'[b].at < spec'[o].at)
    BY <1>1, <2>1, <2>3, SMTT(20), ZenonT(20), SMTT(40)
  <2> QED BY <2>4 DEF IsOlder
<1>3. CASE spec[b] # None
  <2>1. spec'[b] = spec[b]
    BY <1>3 DEF Grows
  <2> QED BY <1>1, <1>3, <2>1 DEF IsOlder
<1> QED BY <1>2, <1>3

\* An operation that may act on the VM may do so ever after.
LEMMA ClearedStays ==
    ASSUME TInv, TInv', Aged, Grows, NEW o \in Ops, Cleared(o)
    PROVE  Cleared(o)'
<1>1. spec[o] # None /\ spec'[o] # None
  BY Zenon DEF Cleared, Grows
<1>2. ASSUME ~SameSecond, NEW b \in Ops \ {o}, spec'[b] # None, IsOlder(b, o)'
      PROVE  Past(vmop'[b])
  <2>1. spec[b] # None /\ IsOlder(b, o)
    BY <1>1, <1>2, OlderStays, Zenon
  <2> QED BY <1>2, <2>1 DEF Cleared, Grows
<1> QED BY <1>1, <1>2, Zenon DEF Cleared

\* A reconcile that goes on unchanged stays sound.
LEMMA SoundStays ==
    ASSUME TInv, TInv', Aged, Grows, NEW k \in Controllers, WorkSound(k),
           work[k] # None, work'[k] # None,
           work'[k].o = work[k].o, work'[k].was = work[k].was, work'[k].now = work[k].now,
           work'[k].pc = work[k].pc, work'[k].todo = work[k].todo,
           work'[k].ok /\ work'[k].pc # "patch" => vmop'[work[k].o] = work[k].was,
           \A b \in Ops : spec[b] # None /\ Unseen(b)' => Unseen(b)
    PROVE  WorkSound(k)'
<1>1. PICK u \in Work : u = work[k]
  BY Zenon DEF TInv, TypeOK
<1>2. PICK o \in Ops : o = u.o
  BY WorkFields, Zenon
<1>3. u.todo \subseteq Ops /\ spec[o] # None
  BY <1>1, <1>2, WorkFields, Zenon DEF TInv, WorkKnown
<1>4. u.pc \in {"cleanup", "mark"} => \A b \in u.todo : spec[b] # None
  BY <1>1, Zenon DEF TInv, WorkKnown
<1>5. u.now.sent \/ u.pc = "exec" => Cleared(o)'
  BY <1>1, <1>2, ClearedStays, Zenon DEF WorkSound
<1>6. u.pc \in {"cleanup", "mark"} => \A b \in u.todo : ~Unseen(b)'
  BY <1>1, <1>3, <1>4, Zenon DEF WorkSound
<1>7. ASSUME ~SameSecond, u.pc \in {"cleanup", "mark"}, NEW b \in Ops \ {o}, spec'[b] # None, IsOlder(b, o)'
      PROVE  Past(vmop'[b]) \/ b \in u.todo
  <2>1. spec[b] # None /\ IsOlder(b, o)
    BY <1>3, <1>7, OlderStays, Zenon
  <2> QED BY <1>1, <1>2, <1>7, <2>1, Zenon DEF WorkSound, Grows
<1>8. Ended(u.was) => Ended(u.now) /\ u.pc \notin {"cleanup", "mark", "exec"}
  BY <1>1, Zenon DEF WorkSound
<1>9. /\ work'[k].o = o /\ work'[k].was = u.was /\ work'[k].now = u.now
      /\ work'[k].pc = u.pc /\ work'[k].todo = u.todo
      /\ work'[k].ok /\ u.pc # "patch" => vmop'[o] = u.was
  BY <1>1, <1>2, Zenon
<1> QED BY <1>5, <1>6, <1>7, <1>8, <1>9, Zenon DEF WorkSound

\* Steps that leave the vmops and their cache alone.
LEMMA CalmSound ==
    ASSUME SInv, UNCHANGED opVars,
           \A o \in Ops : mig'[o] # "none" \/ cmig'[o] # "none" => Cleared(o),
           \A k \in Controllers : WorkSound(k)'
    PROVE  SInv' /\ Grows
<1>1. clock' = clock /\ spec' = spec /\ vmop' = vmop /\ cvmop' = cvmop /\ events' = events
  BY Zenon DEF opVars
<1>2. \A o : Cleared(o)' <=> Cleared(o)
  BY <1>1, Zenon DEF Cleared, IsOlder
<1>3. Aged' /\ Log' /\ InOrder'
  <2>1. Aged'
    BY <1>1, ZenonT(20) DEF SInv, Aged
  <2>2. Log'
    BY <1>1, ZenonT(20) DEF SInv, Log, LastOf, Current
  <2>3. InOrder'
    BY <1>1, SMTT(20), ZenonT(20), SMTT(40) DEF SInv, InOrder, IsOlder, Unseen, Current
  <2> QED BY <2>1, <2>2, <2>3
<1>4. Sent'
  BY <1>1, <1>2, Zenon DEF SInv, Sent
<1>5. Grows
  BY <1>1, Zenon DEF Grows
<1> QED BY <1>3, <1>4, <1>5, Zenon DEF SInv

\* A step that changes no vmop.
LEMMA Unmoved ==
    ASSUME UNCHANGED opVars
    PROVE  Grows /\ (\A b : Unseen(b)' <=> Unseen(b)) /\ (\A o : Cleared(o)' <=> Cleared(o))
BY Zenon DEF opVars, Grows, Unseen, Current, Cleared, IsOlder

=============================================================================
