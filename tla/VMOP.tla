-------------------------------- MODULE VMOP --------------------------------
(***************************************************************************)
(* The operations of one virtual machine: VirtualMachineOperation ("vmop") *)
(* objects of the types Start, Stop, Restart, Migrate and Evict, the two   *)
(* controllers that execute them (one worker each), the admission webhook, *)
(* and what the operations do to the VM: requests kept as annotations of   *)
(* the KubeVirt VM, deletions of its instance, and KubeVirt migrations.    *)
(*                                                                         *)
(* A reconcile reads the informer cache and makes one API call per step.   *)
(* The cache of vmops lags behind the API server by the watch events in    *)
(* events, which arrive in the order they were written.  The caches of     *)
(* migrations and of the KubeVirt VM lag on their own.                     *)
(*                                                                         *)
(* The spec of a vmop never changes, so it is kept apart from its status   *)
(* and metadata.  vmops are numbered in the order of their names.          *)
(***************************************************************************)
EXTENDS Naturals, Sequences, FiniteSets

CONSTANTS
  Ops,        \* names of vmops, numbers in name order
  Kinds,      \* bound: the [type, force] pairs users ask for
  SameSecond, \* whether two vmops may get the same creationTimestamp
  HA,         \* the webhook may run in a replica whose cache lags behind
  Faults,     \* bound: whether calls to the API server may fail
  Restarts,   \* bound: whether the process may restart
  Prompt,     \* the caches catch up before they are read, reconciles end
              \* before the VM has stopped or booted
  Deletable,  \* bound: vmops users (or the TTL collector) delete
  MaxLag,     \* bound: how many watch events the cache may lag behind
  None        \* no object, nothing in flight

PowerTypes == {"Start", "Stop", "Restart"}
MigrationTypes == {"Migrate", "Evict"}
Kind == [type : PowerTypes \cup MigrationTypes, force : BOOLEAN]

ASSUME ConstantsAssumption ==
  /\ Ops \subseteq Nat /\ Deletable \subseteq Ops /\ Kinds \subseteq Kind
  /\ {SameSecond, HA, Faults, Restarts, Prompt} \subseteq BOOLEAN
  /\ MaxLag \in Nat \ {0}
  /\ None \notin Ops

Controllers == {"power", "migration"}

VARIABLES
  clock,         \* the second the last vmop was created in
  spec,          \* spec and creationTimestamp of each vmop ever created
  vmop,          \* status and metadata of the vmops of the API server
  cvmop, events, \* the informer cache of vmops; the events it has yet to see
  work,          \* the reconcile in flight in each controller
  mig, cmig,     \* the KubeVirt migration of each vmop; the same in the cache
  ann, cann,     \* start and restart annotations of the KubeVirt VM; in cache
  vm,            \* the phase of the VM
  up,            \* KubeVirt has been asked to start the VM once it is down
  born           \* for each vmop, when the VM's instance was created

opVars == <<clock, spec, vmop, cvmop, events>>
migVars == <<mig, cmig>>
vmVars == <<ann, cann, vm, up, born>>
vars == <<opVars, work, migVars, vmVars>>

Phases == {"", "Pending", "InProgress", "Completed", "Failed", "Superseded",
           "Terminating"}
VMPhases == {"Absent", "Stopped", "Starting", "Running", "Migrating", "Stopping"}
Annotations == {"start", "restart"}
MigStates == {"none", "active", "aborting", "failed", "succeeded"}

\* the creation of the VM's instance against the time of a vmop's signal, both
\* recorded in whole seconds: before it, after it but in the same second, or
\* in a later one
Ages == {"before", "same", "after"}

\* status.phase, the SignalSent condition, the cleanup finalizer and
\* deletionTimestamp (the Completed condition is True exactly in the phases
\* Completed and Superseded)
Object == [phase : Phases, sent : BOOLEAN, fin : BOOLEAN, del : BOOLEAN]
Request == [type : PowerTypes \cup MigrationTypes, force : BOOLEAN, at : Nat]

\* a reconcile: the vmop, whether its copy is current, the copy as read and as
\* changed, the older vmops it has still to supersede, whether the VM it read
\* is in a phase the operation is applicable in, and when the instance of the
\* VM was created, against the signal the reconcile has sent
Work == [pc : {"abort", "cleanup", "mark", "exec", "status", "patch"}, o : Ops,
         ok : BOOLEAN, was : Object, now : Object, todo : SUBSET Ops,
         fits : BOOLEAN, age : Ages]

ASSUME NoneAssumption == None \notin Object \cup Request \cup Work

-----------------------------------------------------------------------------
\* what the controllers ask of a vmop

IsFinished(x) == x.phase \in {"Failed", "Completed", "Superseded"}

IsTerminating(x) == x.phase = "Terminating" \/ x.del

\* an operation under way: the signal is sent, the outcome is open
Active(x) == x # None /\ x.sent /\ x.phase \in {"Pending", "InProgress"}

CanSupersede(old, new) ==
  \/ old.type = "Start" /\ new.type = "Stop"
  \/ /\ old.type \in {"Stop", "Restart"} /\ ~old.force
     /\ new.type \in {"Stop", "Restart"} /\ new.force
  \/ old.type \in MigrationTypes /\ new.type \in {"Stop", "Restart"}

IsOlder(a, b) ==
  IF spec[a].at # spec[b].at THEN spec[a].at < spec[b].at ELSE a < b

\* the older unfinished vmops of the VM that the cache lists
OlderSent(o) ==
  {b \in Ops \ {o} : /\ cvmop[b] # None
                     /\ ~IsFinished(cvmop[b]) /\ cvmop[b].sent
                     /\ IsOlder(b, o)}
OlderActive(o) ==
  {b \in Ops \ {o} : /\ cvmop[b] # None
                     /\ ~IsFinished(cvmop[b])
                     /\ IsOlder(b, o)}

Oldest(S) == CHOOSE b \in S : \A c \in S \ {b} : IsOlder(b, c)

\* the VM phases an operation is applicable in (run policy Manual)
StartApplicable(phase) == phase \in {"Stopped", "Stopping"}

StopApplicable(phase, force) ==
  phase \in {"Running", "Starting"} \/ (phase = "Stopping" /\ force)

RestartApplicable(phase, force) ==
  phase \in {"Running", "Starting"} \/ (phase = "Stopping" /\ force)

MigrationApplicable(phase) == phase = "Running"

Applicable(s, phase) ==
  CASE s.type = "Start" -> StartApplicable(phase)
    [] s.type = "Stop" -> StopApplicable(phase, s.force)
    [] s.type = "Restart" -> RestartApplicable(phase, s.force)
    [] OTHER -> MigrationApplicable(phase)

\* a Start waits for the VM to run, a Stop for it to be stopped, a Restart
\* for an instance to run whose creation is later than the signal: times are
\* in whole seconds, and the same second is not later
StartComplete == vm = "Running"

StopComplete == vm = "Stopped"

RestartComplete(o) == vm = "Running" /\ born[o] = "after"

IsComplete(o) ==
  CASE spec[o].type = "Start" -> StartComplete
    [] spec[o].type = "Stop" -> StopComplete
    [] spec[o].type = "Restart" -> RestartComplete(o)

OtherMigrations(o) ==
  \E b \in Ops \ {o} : cmig[b] \in {"active", "aborting"}

\* every cache is current; and nobody is about to write
Fresh == events = <<>> /\ cmig = mig /\ cann = ann

Idle == Fresh /\ \A k \in Controllers : work[k] = None

-----------------------------------------------------------------------------
\* writing a vmop: the cache is told, copies in flight are no longer current

Current(o) == \A i \in DOMAIN events : events[i][1] # o

Put(o, x) ==
  /\ Len(events) < MaxLag
  /\ vmop' = [vmop EXCEPT ![o] = x]
  /\ events' = Append(events, <<o, x>>)
  /\ UNCHANGED <<clock, spec, cvmop>>

Outdate(wk, o) ==
  [k \in Controllers |->
     IF wk[k] # None /\ wk[k].o = o THEN [wk[k] EXCEPT !.ok = FALSE]
                                    ELSE wk[k]]

-----------------------------------------------------------------------------
\* the handlers of a reconcile, up to its first write

\* the deletion handler runs first, on the phase that was read
PowerFinalizer(o) == ~cvmop[o].del /\ cvmop[o].phase = "InProgress"

KeptTillFinished(o) == ~IsFinished(cvmop[o])
MigrationFinalizer(o) == cvmop[o].del => cmig[o] # "none"

Saves(w, phase) == [w EXCEPT !.pc = "status", !.now.phase = phase]

Sends(w, phase) == [Saves(w, phase) EXCEPT !.now.sent = TRUE]

\* step 3 of a power operation: the phase stays until the VM has arrived
SyncPowerApplicable(w) ==
  IF w.fits /\ IsComplete(w.o) THEN {Saves(w, "Completed")} ELSE {w}
SyncPower(w) ==
  IF IsComplete(w.o) THEN {Saves(w, "Completed")} ELSE {w}

\* steps 3 and 4 of a migration: its phase follows the KubeVirt migration,
\* which is deleted when the preparation of its target stalls
SyncMigration(w) ==
  CASE cmig[w.o] \in {"none", "failed"} -> {Sends(w, "Failed")}
    [] cmig[w.o] = "succeeded" -> {Sends(w, "Completed")}
    [] OTHER -> {Sends(w, "InProgress"), Sends(w, "Pending"),
                 [Sends(w, "Failed") EXCEPT !.pc = "abort"]}

\* what comes after the vmops in the way are superseded: a migration may also
\* be refused, or wait for the VM to be ready to migrate
Admit(w) ==
  IF ~w.fits THEN {Saves(w, "Failed")}
  ELSE IF spec[w.o].type \in PowerTypes THEN {[w EXCEPT !.pc = "exec"]}
  ELSE IF OtherMigrations(w.o) THEN {Saves(w, "Failed")}
  ELSE {[w EXCEPT !.pc = "exec"], Saves(w, "Failed"), Saves(w, "Pending")}

ShouldExecute(w) ==
  LET blockers == OlderActive(w.o)
  IN IF blockers = {} THEN Admit(w)
     ELSE IF \E b \in blockers : ~CanSupersede(spec[b], spec[w.o])
     THEN {Saves(w, "Failed")}
     ELSE {[w EXCEPT !.pc = "cleanup", !.todo = blockers]}

\* what a reconcile starts from
Read(o, keeps) ==
  [pc |-> "status", o |-> o, ok |-> Current(o), was |-> cvmop[o],
   now |-> [cvmop[o] EXCEPT !.fin = keeps], todo |-> {},
   fits |-> Applicable(spec[o], vm), age |-> "before"]

Inited(w) == IF w.was.phase = "" THEN Saves(w, "Pending") ELSE w

\* the reconciles that may follow from reading vmop o
HandlePower(o) ==
  LET w == Read(o, PowerFinalizer(o))
  IN IF IsTerminating(w.was) THEN {Saves(w, "Terminating")}
     ELSE IF IsFinished(w.was) THEN {w}
     ELSE IF vm = "Absent" THEN {Saves(w, "Failed")}
     ELSE IF w.was.sent THEN SyncPower(Inited(w))
     ELSE ShouldExecute(Inited(w))

\* a migration that KubeVirt rejects for lack of quota is left alone
HandleMigration(o) ==
  LET w == Read(o, MigrationFinalizer(o))
      exists == cmig[o] # "none"
      rejected == IF exists THEN {Inited(w)} ELSE {}
  IN IF IsTerminating(w.was)
     THEN {[Saves(w, "Terminating") EXCEPT
              !.pc = IF w.was.del /\ exists THEN "abort" ELSE "status"]}
     ELSE IF IsFinished(w.was) THEN {w}
     ELSE rejected \cup
          (IF vm = "Absent" THEN {Saves(w, "Failed")}
           ELSE IF w.was.sent \/ exists THEN SyncMigration(Inited(w))
           ELSE ShouldExecute(Inited(w)))

\* a reconcile with nothing to write changes nothing
Writes(w) == w.pc # "status" \/ w.now # w.was

Reconcile(k, o) ==
  /\ work[k] = None /\ cvmop[o] # None
  /\ Prompt => Fresh
  /\ spec[o].type \in IF k = "power" THEN PowerTypes ELSE MigrationTypes
  /\ \E w \in IF k = "power" THEN HandlePower(o) ELSE HandleMigration(o) :
       Writes(w) /\ work' = [work EXCEPT ![k] = w]
  /\ UNCHANGED <<opVars, migVars, vmVars>>

-----------------------------------------------------------------------------
\* the writes of a reconcile, one API call each

Go(k, w) == work' = [work EXCEPT ![k] = w]

\* the KubeVirt migration is deleted: KubeVirt aborts it and then lets it go
Aborted(o) ==
  mig' = [mig EXCEPT ![o] = IF @ = "none" THEN "none" ELSE "aborting"]

Abort(k) ==
  /\ work[k] # None /\ work[k].pc = "abort"
  /\ Aborted(work[k].o)
  /\ Go(k, [work[k] EXCEPT !.pc = "status"])
  /\ UNCHANGED <<opVars, cmig, vmVars>>

\* cleanupSupersededOperation: the request of the superseded operation is
\* withdrawn, if the cache shows one; a patch answers with the annotations of
\* the API server
Withdrawn(b) ==
  CASE spec[b].type = "Start" -> cann \cap {"start"}
    [] spec[b].type = "Restart" ->
         IF "restart" \in cann THEN {"restart"} \cup (ann \cap {"start"})
                               ELSE cann \cap {"start"}
    [] OTHER -> {}

\* removing an annotation the API server no longer has is an error
Cleanup(k) ==
  /\ work[k] # None /\ work[k].pc = "cleanup"
  /\ LET b == Oldest(work[k].todo)
     IN /\ IF Withdrawn(b) \subseteq ann
           THEN /\ ann' = ann \ Withdrawn(b)
                /\ Go(k, [work[k] EXCEPT !.pc = "mark"])
           ELSE UNCHANGED ann /\ Go(k, [work[k] EXCEPT !.pc = "status"])
        /\ IF spec[b].type \in MigrationTypes /\ cmig[b] # "none"
           THEN Aborted(b) ELSE UNCHANGED mig
  /\ UNCHANGED <<opVars, cmig, cann, vm, up, born>>

\* markSuperseded: a patch of the status without a lock, which replaces the
\* list of conditions by the cached one
Mark(k) ==
  /\ work[k] # None /\ work[k].pc = "mark"
  /\ LET b == Oldest(work[k].todo)
         left == [work[k] EXCEPT !.todo = @ \ {b}]
         next == IF left.todo = {} THEN Admit(left)
                                   ELSE {[left EXCEPT !.pc = "cleanup"]}
     IN CASE cvmop[b] = None \/ (cvmop[b] # None /\ IsFinished(cvmop[b])) ->
               /\ \E w \in next : Go(k, w)
               /\ UNCHANGED opVars
          [] cvmop[b] # None /\ ~IsFinished(cvmop[b]) /\ vmop[b] = None ->
               /\ Go(k, [work[k] EXCEPT !.pc = "status"])
               /\ UNCHANGED opVars
          [] OTHER ->
               /\ Put(b, [vmop[b] EXCEPT !.phase = "Superseded",
                                         !.sent = cvmop[b].sent])
               /\ \E w \in next : work' = Outdate([work EXCEPT ![k] = w], b)
  /\ UNCHANGED <<migVars, vmVars>>

\* Execute of a power operation.  It sets annotations the cache lacks, deletes
\* the instance, or asks KubeVirt for a stop followed by a start.
Annotate(a) == ann' = IF a \in cann THEN ann ELSE ann \cup {a}

StartExecute == Annotate("start") /\ UNCHANGED <<vm, up>>

StopExecute ==
  /\ vm' = IF vm = "Stopped" THEN vm ELSE "Stopping"
  /\ UNCHANGED <<ann, up>>

\* a stop and a start, or only the start when there is no instance; where
\* KubeVirt has a request already, BuildPatch adds none (it fails, or finds the
\* same request there) and the pod is not deleted
ForcedStopOnly ==
  IF vm = "Stopped" THEN StartExecute ELSE StopExecute
ForcedRestart ==
  IF vm = "Stopped" THEN StartExecute
  ELSE IF up THEN UNCHANGED <<ann, vm, up>>
  ELSE vm' = "Stopping" /\ up' = TRUE /\ UNCHANGED ann

RestartExecute(force) ==
  IF force THEN ForcedRestart ELSE Annotate("restart") /\ UNCHANGED <<vm, up>>

Signal(s) ==
  CASE s.type = "Start" -> StartExecute
    [] s.type = "Stop" -> StopExecute
    [] s.type = "Restart" -> RestartExecute(s.force)

\* the status becomes InProgress with the signal sent, also when Execute failed
MisnamedPhase(failed) == IF failed THEN "Failed" ELSE "Running"
SentPhase(failed) == "InProgress"

ExecPower(failed) ==
  LET w == work["power"]
  IN /\ w # None /\ w.pc = "exec"
     /\ IF failed THEN UNCHANGED <<ann, vm, up>> ELSE Signal(spec[w.o])
     /\ Go("power", [Sends(w, SentPhase(failed)) EXCEPT !.age = "before"])
     /\ UNCHANGED <<opVars, migVars, cann, born>>

\* the migration is created, unless it exists; only when the cache shows it
\* already is the signal recorded now
ExecMigration(failed) ==
  LET w == work["migration"]
  IN /\ w # None /\ w.pc = "exec"
     /\ IF failed \/ mig[w.o] # "none"
        THEN UNCHANGED mig
        ELSE mig' = [mig EXCEPT ![w.o] = "active"]
     /\ IF failed \/ cmig[w.o] = "none"
        THEN Go("migration", [w EXCEPT !.pc = "status"])
        ELSE \E phase \in {"Pending", "InProgress"} :
               Go("migration", Sends(w, phase))
     /\ UNCHANGED <<opVars, cmig, vmVars>>

\* Resource.Update: the status with a lock (not found is no error), ...
Drop(k) == work' = [work EXCEPT ![k] = None]

Saved(k, w) == IF w.now.fin = w.was.fin THEN Drop(k)
                                      ELSE Go(k, [w EXCEPT !.pc = "patch"])

\* the SignalSent condition gets its time when the operation is executed
Dated(w) == [born EXCEPT ![w.o] = w.age]

StatusBlind(k) ==
  /\ work[k] # None /\ work[k].pc = "status"
  /\ LET w == work[k]
     IN IF vmop[w.o] = None THEN UNCHANGED opVars
        ELSE Put(w.o, [vmop[w.o] EXCEPT !.phase = w.now.phase, !.sent = w.now.sent])
  /\ Saved(k, work[k])
  /\ UNCHANGED <<migVars, vmVars>>
Status(k) ==
  /\ work[k] # None /\ work[k].pc = "status"
  /\ LET w == work[k]
         same == w.now.phase = w.was.phase /\ w.now.sent = w.was.sent
     IN IF same \/ vmop[w.o] = None
        THEN Saved(k, w) /\ UNCHANGED <<opVars, born>>
        ELSE IF ~w.ok
        THEN Drop(k) /\ UNCHANGED <<opVars, born>>
        ELSE /\ Put(w.o, [vmop[w.o] EXCEPT !.phase = w.now.phase,
                                           !.sent = w.now.sent])
             /\ born' = IF w.now.sent /\ ~w.was.sent THEN Dated(w) ELSE born
             /\ Saved(k, w)
  /\ UNCHANGED <<migVars, ann, cann, vm, up>>

\* ... then the finalizer without one; the last finalizer of a deleted vmop
\* lets it go, and none can be added to a deleted one
Patch(k) ==
  /\ work[k] # None /\ work[k].pc = "patch"
  /\ LET w == work[k]
         x == vmop[w.o]
     IN IF x = None THEN UNCHANGED opVars
        ELSE IF x.del
        THEN IF w.now.fin THEN UNCHANGED opVars ELSE Put(w.o, None)
        ELSE Put(w.o, [x EXCEPT !.fin = w.now.fin])
  /\ Drop(k)
  /\ UNCHANGED <<migVars, vmVars>>

-----------------------------------------------------------------------------
\* users and the webhook, caches and crashes

\* activeVMOPValidator: every unfinished vmop the cache of the webhook's
\* replica lists has to be superseded by the new one.  (When the timestamps
\* differ, names make no difference and are taken in order.)
Create(o, kind) ==
  /\ spec[o] = None /\ Len(events) < MaxLag
  /\ ~SameSecond => \A b \in Ops : b < o => spec[b] # None
  /\ ~HA => \A b \in Ops :
              cvmop[b] # None => IsFinished(cvmop[b]) \/ CanSupersede(spec[b], kind)
  /\ clock' \in IF SameSecond THEN {clock, clock + 1} ELSE {clock + 1}
  /\ spec' = [spec EXCEPT ![o] = [type |-> kind.type, force |-> kind.force, at |-> clock']]
  /\ LET new == [phase |-> "", sent |-> FALSE, fin |-> FALSE, del |-> FALSE]
     IN /\ vmop' = [vmop EXCEPT ![o] = new]
        /\ events' = Append(events, <<o, new>>)
  /\ UNCHANGED <<cvmop, work, migVars, vmVars>>

Delete(o) ==
  /\ o \in Deletable /\ vmop[o] # None /\ ~vmop[o].del
  /\ Put(o, IF vmop[o].fin THEN [vmop[o] EXCEPT !.del = TRUE] ELSE None)
  /\ work' = Outdate(work, o)
  /\ UNCHANGED <<migVars, vmVars>>

SyncVMOP ==
  /\ events # <<>>
  /\ cvmop' = [cvmop EXCEPT ![Head(events)[1]] = Head(events)[2]]
  /\ events' = Tail(events)
  /\ UNCHANGED <<clock, spec, vmop, work, migVars, vmVars>>

SyncMig(o) ==
  /\ cmig[o] # mig[o]
  /\ cmig' = [cmig EXCEPT ![o] = mig[o]]
  /\ UNCHANGED <<opVars, work, mig, vmVars>>

SyncKVVM ==
  /\ cann # ann
  /\ cann' = ann
  /\ UNCHANGED <<opVars, work, migVars, ann, vm, up, born>>

Restart ==
  /\ Restarts
  /\ work' = [k \in Controllers |-> None]
  /\ cvmop' = vmop /\ events' = <<>> /\ cmig' = mig /\ cann' = ann
  /\ UNCHANGED <<clock, spec, vmop, mig, ann, vm, up, born>>

-----------------------------------------------------------------------------
\* the VM: its controller turns annotations into requests to KubeVirt, and
\* KubeVirt stops, starts and migrates it

\* SyncPowerStateHandler for the run policy Manual, on the cached annotations:
\* an instance that is gone or going is started, a running one is restarted.
\* Where KubeVirt has a request already the start may be refused, which leaves
\* the annotations for a later step, and the restart adds nothing.
StartRequested == vm \in {"Stopped", "Stopping"} /\ cann # {} /\ UNCHANGED vm

RestartRequested ==
  /\ vm \in {"Running", "Migrating"} /\ "restart" \in cann
  /\ vm' = IF up THEN vm ELSE "Stopping"

SyncPowerState ==
  /\ StartRequested \/ RestartRequested
  /\ Prompt => Fresh
  /\ up' = TRUE /\ ann' = {}
  /\ UNCHANGED <<opVars, work, migVars, cann, born>>

VMDown ==
  /\ vm = "Stopping" /\ vm' = "Stopped"
  /\ Prompt => Idle
  /\ UNCHANGED <<opVars, work, migVars, ann, cann, up, born>>

\* a Restart whose signal is sent, or is about to be
Waiting(o) ==
  /\ spec[o] # None /\ spec[o].type = "Restart"
  /\ Active(vmop[o]) \/ \E k \in Controllers : work[k] # None /\ work[k].o = o

\* a new instance: it is younger than every signal sent, by a second or not
Age(o, late) == IF o \in late THEN "after" ELSE "same"

VMUp ==
  /\ vm = "Stopped" /\ up
  /\ vm' = "Starting" /\ up' = FALSE
  /\ \E late \in SUBSET {o \in Ops : Waiting(o)} :
       /\ born' = [o \in Ops |-> IF Active(vmop[o]) THEN Age(o, late) ELSE "before"]
       /\ work' = [k \in Controllers |->
                    IF work[k] = None THEN None
                    ELSE [work[k] EXCEPT !.age = Age(work[k].o, late)]]
  /\ UNCHANGED <<opVars, migVars, ann, cann>>

VMRuns ==
  /\ vm = "Starting" /\ vm' = "Running"
  /\ Prompt => Idle
  /\ UNCHANGED <<opVars, work, migVars, ann, cann, up, born>>

MigStart(o) ==
  /\ mig[o] = "active" /\ vm = "Running" /\ vm' = "Migrating"
  /\ UNCHANGED <<opVars, work, migVars, ann, cann, up, born>>

Settled == vm' = IF vm = "Migrating" THEN "Running" ELSE vm

MigEnd(o) ==
  /\ mig[o] = "active"
  /\ \E r \in {"failed", "succeeded"} : mig' = [mig EXCEPT ![o] = r]
  /\ Settled
  /\ UNCHANGED <<opVars, work, cmig, ann, cann, up, born>>

MigGone(o) ==
  /\ mig[o] = "aborting"
  /\ mig' = [mig EXCEPT ![o] = "none"]
  /\ Settled
  /\ UNCHANGED <<opVars, work, cmig, ann, cann, up, born>>

\* the garbage collector removes the migration with the vmop that owns it
MigOrphaned(o) ==
  /\ spec[o] # None /\ vmop[o] = None /\ mig[o] \notin {"none", "aborting"}
  /\ Aborted(o)
  /\ UNCHANGED <<opVars, work, cmig, vmVars>>

-----------------------------------------------------------------------------
Init ==
  /\ clock = 0
  /\ spec = [o \in Ops |-> None]
  /\ vmop = [o \in Ops |-> None] /\ cvmop = vmop /\ events = <<>>
  /\ work = [k \in Controllers |-> None]
  /\ mig = [o \in Ops |-> "none"] /\ cmig = mig
  /\ ann = {} /\ cann = {} /\ up = FALSE
  /\ born = [o \in Ops |-> "before"]
  /\ vm \in {"Absent", "Stopped", "Running"}

Step(k) == Abort(k) \/ Cleanup(k) \/ Mark(k) \/ Status(k) \/ Patch(k)

Exec == ExecPower(FALSE) \/ ExecMigration(FALSE)

Fault == Faults /\ (ExecPower(TRUE) \/ ExecMigration(TRUE))

Sync == SyncVMOP \/ SyncKVVM \/ \E o \in Ops : SyncMig(o)

Machine ==
  \/ SyncPowerState \/ VMDown \/ VMUp \/ VMRuns
  \/ \E o \in Ops : MigStart(o) \/ MigEnd(o) \/ MigGone(o) \/ MigOrphaned(o)

\* nothing is left to do: every vmop is finished or gone
Done ==
  /\ \A o \in Ops : /\ spec[o] # None
                    /\ vmop[o] # None => IsFinished(vmop[o])
  /\ UNCHANGED vars

Next ==
  \/ \E k \in Controllers : Step(k) \/ \E o \in Ops : Reconcile(k, o)
  \/ Exec \/ Fault \/ Sync \/ Machine \/ Restart \/ Done
  \/ \E o \in Ops : Delete(o) \/ \E kind \in Kinds : Create(o, kind)

Spec == Init /\ [][Next]_vars

\* a worker takes the next vmop of its queue and ends its reconcile, caches
\* catch up, the VM controller and KubeVirt act; users need not
Fairness ==
  /\ \A k \in Controllers : WF_vars(Step(k))
  /\ \A o \in Ops : SF_vars(\E k \in Controllers : Reconcile(k, o))
  /\ WF_vars(Exec) /\ WF_vars(SyncPowerState)
  /\ WF_vars(SyncVMOP) /\ WF_vars(SyncKVVM) /\ WF_vars(\E o \in Ops : SyncMig(o))
  /\ WF_vars(VMDown \/ VMUp \/ VMRuns)
  /\ WF_vars(\E o \in Ops : MigGone(o) \/ MigOrphaned(o))

FairSpec == Spec /\ Fairness

-----------------------------------------------------------------------------
\* Type correctness of the objects, the caches and the reconciles in flight.
TypeOK ==
  /\ clock \in Nat
  /\ spec \in [Ops -> Request \cup {None}]
  /\ vmop \in [Ops -> Object \cup {None}] /\ cvmop \in [Ops -> Object \cup {None}]
  /\ events \in Seq(Ops \X (Object \cup {None}))
  /\ work \in [Controllers -> Work \cup {None}]
  /\ mig \in [Ops -> MigStates] /\ cmig \in [Ops -> MigStates]
  /\ ann \subseteq Annotations /\ cann \subseteq Annotations
  /\ vm \in VMPhases /\ up \in BOOLEAN /\ born \in [Ops -> Ages]

\* "Only one active operation is executed for a VM at a time": the check for
\* older unfinished vmops and their supersession keep two operations from
\* being under way together, although both controllers decide on a cache that
\* lags and superseding takes a patch of an object somebody else reconciles.
OneActive ==
  \A a, b \in Ops : Active(vmop[a]) /\ Active(vmop[b]) => a = b

\* A finished (failed, completed or superseded) operation never gets under way
\* again, whatever stale copy of it a reconcile still holds: the status is
\* only written to the version that was read.
NeverReactivated ==
  [][\A o \in Ops : (vmop[o] # None /\ IsFinished(vmop[o])) =>
                      ~Active(vmop'[o])]_vars

\* the caches are current, nobody is about to act, and the VM is at rest
Quiet == Idle /\ ann = {} /\ ~up /\ vm \in {"Stopped", "Running"}

\* A Restart that never completes: its instance was created in the second of
\* the signal, and restart.go asks for a later one.
Tied(o) ==
  Active(vmop[o]) /\ spec[o].type = "Restart" /\ born[o] = "same"

\* A Stop that never completes: it superseded a Restart whose request KubeVirt
\* already had and which no cleanup takes back, so that the VM starts again.
Overtaken(o) ==
  /\ Active(vmop[o]) /\ spec[o] # None /\ spec[o].type = "Stop" /\ spec[o].force
  /\ vm \in {"Starting", "Running"}
  /\ \E b \in Ops : /\ vmop[b] # None /\ vmop[b].phase = "Superseded"
                     /\ spec[b].type = "Restart"

\* Where no call fails and the VM has come to rest, a power operation still in
\* progress finds the state it waits for, with two exceptions that the code
\* has: a Restart whose new instance dates from the second of its signal, and
\* a forced Stop of a VM that KubeVirt was already asked to restart.  No other
\* request is lost between the vmop, the annotations, KubeVirt's requests and
\* a superseding operation.
NothingStuck ==
  Quiet => \A o \in Ops :
             Active(vmop[o]) /\ spec[o].type \in PowerTypes =>
               IsComplete(o) \/ Tied(o) \/ Overtaken(o)

\* Every power operation, forced or not, ends: it completes, fails, is
\* superseded or deleted, or becomes one of the two exceptions above.
EveryOperationEnds ==
  \A o \in Ops :
    (vmop[o] # None) ~> \/ vmop[o] = None \/ IsFinished(vmop[o])
                        \/ Tied(o) \/ Overtaken(o)

\* A deleted migration operation goes, and the KubeVirt migration with it: the
\* finalizer is not removed too late, and what a reconcile that still holds the
\* deleted vmop creates does not stay.
DeletedLeavesNothing ==
  \A o \in Ops :
    (spec[o] # None /\ (vmop[o] # None => vmop[o].del))
      ~> [](vmop[o] = None /\ mig[o] = "none")
=============================================================================
