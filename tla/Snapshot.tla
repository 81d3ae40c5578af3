------------------------------ MODULE Snapshot ------------------------------
(***************************************************************************)
(* Snapshots of one virtual machine: the VirtualDiskSnapshots of its disks *)
(* and the VirtualMachineSnapshots that own disk snapshots.  Two           *)
(* controllers share the guest's filesystem: they freeze it, take volume   *)
(* snapshots and thaw it, coordinating through an annotation of the        *)
(* KubeVirt instance (kvvmi) that announces a request to freeze or to      *)
(* unfreeze until the reported status has followed it.                     *)
(*                                                                         *)
(* A reconcile is one step.  It reads cached copies, which lag behind the  *)
(* cluster, acts, and writes the status of its snapshot; the write and the *)
(* annotation are refused when the copy is not the latest.  The status of  *)
(* a snapshot never returns to an earlier value, so a copy is the latest   *)
(* exactly when it equals the object; the instance has a version.          *)
(*                                                                         *)
(* The VM has its disks attached throughout.  vm is its status as the      *)
(* controllers see it.                                                     *)
(***************************************************************************)
EXTENDS Naturals

CONSTANTS
    DSnaps,    \* disk snapshots that users ask for
    VSnaps,    \* VM snapshots that users ask for
    Own,       \* the disk snapshots of each VM snapshot, one per disk
    Required,  \* snapshots of users with requiredConsistency
    Deletable, \* snapshots a user may delete
    Agent,     \* the guest agent is connected
    MaxPower,  \* how often the VM is started or stopped
    Faults,    \* the kinds of failures that happen, among FaultKinds
    MaxFaults, \* how many of them
    MaxVer,    \* how often an instance is written
    Prompt,    \* caches catch up before they are read
    None

VARIABLES
    snap,   \* the snapshot objects
    cs,     \* the controllers' cached copy of each
    vs,     \* the VolumeSnapshot of each disk snapshot
    cv,     \* the cached copy of each
    kv,     \* the instance: its request annotation, reported status, version
    ck,     \* the cached copy of it
    guest,  \* the guest's filesystem is really frozen
    vm,     \* status.phase of the VM
    asked,  \* snapshots created so far; each name is created once
    power,  \* starts and stops of the VM so far
    faults  \* failures so far

vars == <<snap, cs, vs, cv, kv, ck, guest, vm, asked, power, faults>>

\* a call to freeze or unfreeze fails after the annotation was set, a status
\* write is lost, a disk is not ready (or a read fails), a volume snapshot fails
FaultKinds == {"call", "write", "disk", "volume"}

Disks == DSnaps \cup UNION {Own[v] : v \in VSnaps}

Snaps == Disks \cup VSnaps

ASSUME SnapshotAssumption ==
    /\ Disks \cap VSnaps = {}
    /\ Own \in [VSnaps -> SUBSET (Disks \ DSnaps)]
    /\ \A v, w \in VSnaps : v # w => Own[v] \cap Own[w] = {}
    /\ Required \subseteq DSnaps \cup VSnaps /\ Deletable \subseteq Snaps
    /\ Faults \subseteq FaultKinds
    /\ {Agent, Prompt} \subseteq BOOLEAN
    /\ {MaxPower, MaxFaults, MaxVer} \subseteq Nat

Phases == {"New", "Pending", "InProgress", "Ready", "Failed", "Terminating"}

Object == [phase : Phases, cons : BOOLEAN, del : BOOLEAN, fin : BOOLEAN]

Requests == {"none", "freeze", "unfreeze"}

Instance == [uid : 0..MaxPower, req : Requests, fs : BOOLEAN, ver : 0..MaxVer]

\* a volume snapshot is taken while the data is at rest (clean) or not
VolumeStates == {"new", "clean", "dirty", "error"}

ASSUME NoneAssumption ==
    /\ None \notin Object \cup VolumeStates
    /\ None \notin [uid : 0..MaxPower, req : Requests, fs : BOOLEAN, ver : Nat]

Owner(d) == CHOOSE v \in VSnaps : d \in Own[v]

RequiredConsistency(s) ==
    IF s \in Disks \ DSnaps THEN Owner(s) \in Required ELSE s \in Required

NewInstance(n) == [uid |-> n, req |-> "none", fs |-> FALSE, ver |-> 0]

NewObject == [phase |-> "New", cons |-> FALSE, del |-> FALSE, fin |-> FALSE]

Init ==
    /\ snap = [s \in Snaps |-> None] /\ cs = snap
    /\ vs = [d \in Disks |-> None] /\ cv = vs
    /\ kv \in {NewInstance(0), None} /\ ck = kv
    /\ vm = IF kv = None THEN "Stopped" ELSE "Running"
    /\ guest = FALSE /\ asked = {} /\ power = 0 /\ faults = 0

Fresh == cs = snap /\ cv = vs /\ ck = kv /\ vm = (IF kv = None THEN "Stopped" ELSE "Running")

-----------------------------------------------------------------------------
(* The snapshot service.  k is a copy of the instance.                     *)

Trusted(k) == k = None \/ k.req = "none"

\* IsFrozen, where it does not fail
Frozen(k) == k # None /\ k.fs

CanFreeze(k) == k # None /\ ~k.fs /\ Agent

\* mutant: only a request to freeze is ever dropped
FollowsFreezeOnly(k) == ~Trusted(k) /\ k.req = "freeze" /\ k.fs

\* SyncFSFreezeRequest drops the annotation once the status has followed it
Followed(k) == ~Trusted(k) /\ ((k.req = "freeze") = k.fs)

Synced(k) == IF Followed(k) THEN [k EXCEPT !.req = "none", !.ver = @ + 1] ELSE k

InProgress(s) == cs[s] # None /\ cs[s].phase = "InProgress"

\* mutant: the snapshot itself counts as one in progress
CountsItself(s, k) ==
    Trusted(k) /\ Frozen(k) /\ \A o \in Snaps : ~InProgress(o)

CanUnfreezeWithVirtualDiskSnapshot(s, k) ==
    /\ Trusted(k) /\ Frozen(k)
    /\ \A o \in Snaps \ {s} : ~InProgress(o)

\* mutant: the disk snapshots in progress are forgotten
ForgetsDisks(s, k) ==
    Trusted(k) /\ Frozen(k) /\ \A o \in VSnaps \ {s} : ~InProgress(o)

CanUnfreezeWithVirtualMachineSnapshot(s, k) ==
    /\ Trusted(k) /\ Frozen(k)
    /\ \A o \in Snaps \ {s} : ~InProgress(o)
-----------------------------------------------------------------------------
(* What a reconcile decides: the new phase, whether it found the snapshot  *)
(* consistent, whether it drops the annotation, and what it calls.         *)

Outcome(c, phase, call, synced) ==
    [phase |-> phase, cons |-> c.cons, call |-> call, synced |-> synced]

\* case "" of the switch over the phase
Started(c) == IF c.phase = "New" THEN "Pending" ELSE c.phase

Stay(c, synced) == Outcome(c, Started(c), "none", synced)

Fail(c, synced) == Outcome(c, "Failed", "none", synced)

\* what the first SyncFSFreezeRequest of a reconcile leads to when it does not
\* succeed: the instance is gone, the copy is old, or the status has not followed
Unsynced(c) ==
    IF Followed(ck) /\ kv = None THEN Fail(c, FALSE) ELSE Stay(c, FALSE)

SyncSucceeds == Trusted(ck) \/ (Followed(ck) /\ ck = kv)

\* mutant: the volume snapshot is created without waiting for the freeze
CreatesUnfrozen(s, c, k) ==
    Outcome(c, "InProgress", IF Started(c) = "Pending" THEN "none" ELSE "create", Followed(ck))

\* the VolumeSnapshot does not exist: freeze, or create it
TakeVolume(s, c, k) ==
    LET start == Outcome(c, "InProgress", "none", Followed(ck)) IN
    IF vm # "Stopped" /\ ~Frozen(k) /\ CanFreeze(k)
    THEN IF Started(c) = "Pending" THEN start ELSE [start EXCEPT !.call = "freeze"]
    ELSE IF vm # "Stopped" /\ ~Frozen(k) /\ RequiredConsistency(s)
    THEN Fail(c, Followed(ck))
    ELSE IF Started(c) = "Pending" THEN start ELSE [start EXCEPT !.call = "create"]

\* mutant: requiredConsistency is not looked at when the volume is ready
FinishesUnchecked(s, c, k) ==
    IF ~c.cons /\ (vm = "Stopped" \/ Frozen(k))
    THEN [Stay(c, Followed(ck)) EXCEPT !.cons = TRUE]
    ELSE IF CanUnfreezeWithVirtualDiskSnapshot(s, k)
    THEN Outcome(c, "InProgress", "unfreeze", Followed(ck))
    ELSE Outcome(c, "Ready", "none", Followed(ck))

\* the VolumeSnapshot is ready to use: note consistency, thaw, finish.  After
\* a call to unfreeze the second sync finds its own request: not ready yet
FinishVolume(s, c, k) ==
    IF ~c.cons /\ (vm = "Stopped" \/ Frozen(k))
    THEN [Stay(c, Followed(ck)) EXCEPT !.cons = TRUE]
    ELSE IF ~c.cons /\ RequiredConsistency(s) THEN Fail(c, Followed(ck))
    ELSE IF CanUnfreezeWithVirtualDiskSnapshot(s, k)
    THEN Outcome(c, "InProgress", "unfreeze", Followed(ck))
    ELSE Outcome(c, "Ready", "none", Followed(ck))

\* unfreezeFilesystemIfFailed
ThawFailed(s, c) ==
    Outcome(c, "Failed",
            IF CanUnfreezeWithVirtualDiskSnapshot(s, ck) THEN "unfreeze" ELSE "none", FALSE)

\* LifeCycleHandler.Handle of disk snapshots; ready: the disk can be snapshotted
DiskLifeCycle(s, c, ready) ==
    LET v == cv[s]
        k == Synced(ck)
    IN  IF c.del THEN Outcome(c, "Terminating", "none", FALSE)
        ELSE IF c.phase = "Failed" THEN ThawFailed(s, c)
        ELSE IF c.phase = "Ready"
        THEN IF v \in {"clean", "dirty"} THEN Stay(c, FALSE) ELSE Fail(c, FALSE)
        ELSE IF ~ready THEN Fail(c, FALSE)
        ELSE IF ~SyncSucceeds THEN Unsynced(c)
        ELSE IF v = None THEN TakeVolume(s, c, k)
        ELSE IF v = "error" THEN Fail(c, Followed(ck))
        ELSE IF v = "new" THEN Outcome(c, "InProgress", "none", Followed(ck))
        ELSE FinishVolume(s, c, k)

\* DeletionHandler.Handle: what a deleted disk snapshot calls
DeletionCall(s, c) ==
    IF c.del /\ CanUnfreezeWithVirtualDiskSnapshot(s, ck) THEN "unfreeze" ELSE "none"

\* ... and whether it keeps the finalizer; called: the call succeeded
KeepsFinalizer(s, c, called) ==
    c.del => \/ ~Trusted(ck)
             \/ DeletionCall(s, c) = "unfreeze" /\ ~called
-----------------------------------------------------------------------------
needToFreeze(s, c, k) ==
    ~c.cons /\ RequiredConsistency(s) /\ vm # "Stopped" /\ ~Frozen(k)

unfreezeVirtualMachineIfCan(s, k) ==
    IF vm = "Running" /\ CanUnfreezeWithVirtualMachineSnapshot(s, k) THEN "unfreeze" ELSE "none"

\* ensureVirtualDiskSnapshots: those the cache does not have are created, and
\* the creation of one that exists fails
Absent(s) == {d \in Own[s] : cs[d] = None}

CreateClashes(s) == \E d \in Absent(s) : snap[d] # None

\* steps 3 to 10 of the handler
TakeDisks(s, c, k) ==
    LET synced == Followed(ck) IN
    IF CreateClashes(s) \/ \E d \in Own[s] \ Absent(s) : cs[d].phase = "Failed"
    THEN Outcome(c, "Failed", "create", synced)
    ELSE IF Absent(s) # {} THEN Outcome(c, "InProgress", "create", synced)
    ELSE IF \E d \in Own[s] : cs[d].phase # "Ready"
    THEN Outcome(c, "InProgress", "none", synced)
    ELSE LET call == unfreezeVirtualMachineIfCan(s, k) IN
         [Outcome(c, IF call = "unfreeze" THEN "InProgress" ELSE "Ready", call, synced)
            EXCEPT !.cons = \A d \in Own[s] : cs[d].cons]

\* the disk snapshots it creates: all, or those before the one that failed
Creates(s, o) ==
    IF o.call # "create" THEN {{}}
    ELSE IF o.phase = "Failed" THEN SUBSET {d \in Absent(s) : snap[d] = None}
    ELSE {Absent(s)}

\* LifeCycleHandler.Handle of VM snapshots; ready: VM and disks can be snapshotted
MachineLifeCycle(s, c, ready) ==
    LET k == Synced(ck)
        synced == Followed(ck)
    IN  IF ~SyncSucceeds THEN Unsynced(c)
        ELSE IF c.del
        THEN Outcome(c, "Terminating", unfreezeVirtualMachineIfCan(s, k), synced)
        ELSE IF c.phase = "Failed"
        THEN Outcome(c, "Failed", unfreezeVirtualMachineIfCan(s, k), synced)
        ELSE IF c.phase = "Ready"
        THEN IF Absent(s) = {} THEN Stay(c, synced) ELSE Fail(c, synced)
        ELSE IF ~ready \/ (needToFreeze(s, c, k) /\ ~CanFreeze(k)) THEN Fail(c, synced)
        ELSE IF Started(c) = "Pending" THEN Outcome(c, "InProgress", "none", synced)
        ELSE IF needToFreeze(s, c, k) THEN Outcome(c, "InProgress", "freeze", synced)
        ELSE TakeDisks(s, c, k)
-----------------------------------------------------------------------------
(* The effects of a reconcile on the cluster.                              *)

\* the annotation is set with the lock, then KubeVirt is called: "done",
\* "refused" (the copy is old: conflict, or gone), "failed" (the call fails)
CallResults(call) ==
    IF call \notin {"freeze", "unfreeze"} THEN {"done"}
    ELSE IF ck # kv THEN {"refused"}
    ELSE {"done"} \cup (IF "call" \in Faults /\ faults < MaxFaults THEN {"failed"} ELSE {})

\* mutant: a request nobody knows
Misnamed(k, call) == [k EXCEPT !.req = "fs" , !.ver = @ + 1]

Annotated(k, call) == [k EXCEPT !.req = call, !.ver = @ + 1]

\* SyncFSFreezeRequest and Freeze or Unfreeze, on the instance
CallInstance(o, result) ==
    LET k == IF o.synced THEN Synced(kv) ELSE kv
        sent == o.call \in {"freeze", "unfreeze"} /\ result # "refused"
    IN  /\ kv' = IF sent THEN Annotated(k, o.call) ELSE k
        /\ kv' # None => kv'.ver <= MaxVer
        /\ guest' = IF sent /\ result = "done" THEN o.call = "freeze" ELSE guest

\* Resource.Update: the status, refused if it differs and c is old, and then
\* the finalizers, patched without a lock
Save(s, c, phase, cons, fin, lost) ==
    LET same == phase = c.phase /\ cons = c.cons IN
    IF snap[s] = None \/ lost \/ (c # snap[s] /\ ~same) THEN snap[s]
    ELSE IF c.del /\ c.fin /\ ~fin THEN None
    ELSE IF same THEN [snap[s] EXCEPT !.fin = IF fin # c.fin THEN fin ELSE @]
    ELSE [c EXCEPT !.phase = phase, !.cons = cons, !.fin = fin]

\* faults spent by a reconcile
Spends(ready, result, lost) ==
    LET Count(b) == IF b THEN 1 ELSE 0
    IN  Count(~ready) + Count(result = "failed") + Count(lost)

Choices(kind) == IF kind \in Faults /\ faults < MaxFaults THEN BOOLEAN ELSE {FALSE}

\* what VirtualDiskReadyHandler, which runs first, and the reads of the disk
\* and its claim may find: a disk in use is ready, unless it fails to be
VirtualDiskReady == {~busy : busy \in Choices("disk")}

\* the same for VirtualMachineReadyHandler and ensureBlockDeviceConsistency
VirtualMachineReady == {~busy : busy \in Choices("disk")}

DiskReconcile(s) ==
    /\ cs[s] # None /\ (Prompt => Fresh)
    /\ \E ready \in VirtualDiskReady, lost \in Choices("write") :
        LET c == cs[s]
            life == DiskLifeCycle(s, c, ready)
            o == [life EXCEPT !.call = IF c.del THEN DeletionCall(s, c) ELSE @]
        IN \E result \in CallResults(o.call) :
            LET fin == KeepsFinalizer(s, c, result = "done") IN
            /\ faults' = faults + Spends(ready, result, lost) /\ faults' <= MaxFaults
            /\ CallInstance(o, result)
            /\ snap' = [snap EXCEPT ![s] = Save(s, c, o.phase, o.cons, fin, lost)]
            /\ vs' = [vs EXCEPT ![s] =
                        IF snap'[s] = None \/ (c.del /\ cv[s] # None) THEN None
                        ELSE IF o.call = "create" /\ @ = None THEN "new" ELSE @]
    /\ UNCHANGED <<cs, cv, ck, vm, asked, power>>

\* the phase after a call: some errors make the VM snapshot fail
AfterCall(o, result) ==
    IF /\ o.call = "freeze" \/ o.phase = "Terminating"
       /\ result = "failed" \/ (result = "refused" /\ kv = None)
    THEN "Failed" ELSE o.phase

MachineReconcile(s) ==
    /\ cs[s] # None /\ (Prompt => Fresh)
    /\ \E ready \in VirtualMachineReady, lost \in Choices("write") :
        LET c == cs[s]
            o == MachineLifeCycle(s, c, ready)
        IN \E result \in CallResults(o.call), made \in Creates(s, o) :
            /\ faults' = faults + Spends(ready, result, lost) /\ faults' <= MaxFaults
            /\ CallInstance(o, result)
            /\ snap' = [x \in Snaps |->
                          IF x = s THEN Save(s, c, AfterCall(o, result), o.cons, c.fin, lost)
                          ELSE IF x \in made THEN NewObject ELSE snap[x]]
            /\ made \cap asked = {} /\ asked' = asked \cup made
    /\ UNCHANGED <<cs, vs, cv, ck, vm, power>>
-----------------------------------------------------------------------------
(* Users, the garbage collector, KubeVirt, the CSI driver and the caches.  *)

Create(s) ==
    /\ s \notin asked
    /\ asked' = asked \cup {s}
    /\ snap' = [snap EXCEPT ![s] = NewObject]
    /\ UNCHANGED <<cs, vs, cv, kv, ck, guest, vm, power, faults>>

\* deletion waits for the finalizer of a disk snapshot
Deleted(d) ==
    IF snap[d] # None /\ snap[d].fin THEN [snap[d] EXCEPT !.del = TRUE] ELSE None

DeleteDisk(d) ==
    /\ d \in Deletable /\ snap[d] # None /\ ~snap[d].del
    /\ snap' = [snap EXCEPT ![d] = Deleted(d)]
    /\ vs' = IF snap'[d] = None THEN [vs EXCEPT ![d] = None] ELSE vs
    /\ UNCHANGED <<cs, cv, kv, ck, guest, vm, asked, power, faults>>

\* a VM snapshot has no finalizer: it goes at once, or, with foreground
\* deletion, after the disk snapshots it owns
DeleteMachine(v) ==
    /\ v \in Deletable /\ snap[v] # None /\ ~snap[v].del
    /\ \E foreground \in BOOLEAN :
         snap' = [snap EXCEPT ![v] = IF foreground THEN [@ EXCEPT !.del = TRUE, !.fin = TRUE] ELSE None]
    /\ UNCHANGED <<cs, vs, cv, kv, ck, guest, vm, asked, power, faults>>

\* the garbage collector deletes what a deleted VM snapshot owns ...
CollectOwned(v, d) ==
    /\ v \in asked /\ d \in Own[v]
    /\ snap[d] # None /\ ~snap[d].del
    /\ snap[v] # None => snap[v].del
    /\ snap' = [snap EXCEPT ![d] = Deleted(d)]
    /\ vs' = IF snap'[d] = None THEN [vs EXCEPT ![d] = None] ELSE vs
    /\ UNCHANGED <<cs, cv, kv, ck, guest, vm, asked, power, faults>>

\* ... and ends a foreground deletion
CollectOwner(v) ==
    /\ snap[v] # None /\ snap[v].del
    /\ \A d \in Own[v] : snap[d] = None
    /\ snap' = [snap EXCEPT ![v] = None]
    /\ UNCHANGED <<cs, vs, cv, kv, ck, guest, vm, asked, power, faults>>

\* the CSI driver takes the volume snapshot
TakeSnapshot(d) ==
    /\ vs[d] = "new"
    /\ \/ /\ vs' = [vs EXCEPT ![d] = IF guest \/ kv = None THEN "clean" ELSE "dirty"]
          /\ UNCHANGED faults
       \/ /\ "volume" \in Faults /\ faults < MaxFaults
          /\ vs' = [vs EXCEPT ![d] = "error"]
          /\ faults' = faults + 1
    /\ UNCHANGED <<snap, cs, cv, kv, ck, guest, vm, asked, power>>

\* KubeVirt reports the state of the filesystem in the instance's status
Report ==
    /\ kv # None /\ kv.fs # guest /\ kv.ver < MaxVer
    /\ kv' = [kv EXCEPT !.fs = guest, !.ver = @ + 1]
    /\ UNCHANGED <<snap, cs, vs, cv, ck, guest, vm, asked, power, faults>>

Stop ==
    /\ kv # None /\ power < MaxPower
    /\ kv' = None /\ guest' = FALSE /\ power' = power + 1
    /\ UNCHANGED <<snap, cs, vs, cv, ck, vm, asked, faults>>

Start ==
    /\ kv = None /\ vm = "Stopped" /\ power < MaxPower
    /\ kv' = NewInstance(power + 1) /\ power' = power + 1
    /\ UNCHANGED <<snap, cs, vs, cv, ck, guest, vm, asked, faults>>

\* the VM controller writes the phase of the VM, and the caches have it
SyncVM ==
    /\ vm' = IF kv = None THEN "Stopped" ELSE "Running"
    /\ vm' # vm
    /\ UNCHANGED <<snap, cs, vs, cv, kv, ck, guest, asked, power, faults>>

SyncSnap(s) ==
    /\ cs[s] # snap[s]
    /\ cs' = [cs EXCEPT ![s] = snap[s]]
    /\ UNCHANGED <<snap, vs, cv, kv, ck, guest, vm, asked, power, faults>>

SyncVolume(d) ==
    /\ cv[d] # vs[d]
    /\ cv' = [cv EXCEPT ![d] = vs[d]]
    /\ UNCHANGED <<snap, cs, vs, kv, ck, guest, vm, asked, power, faults>>

SyncInstance ==
    /\ ck # kv
    /\ ck' = kv
    /\ UNCHANGED <<snap, cs, vs, cv, kv, guest, vm, asked, power, faults>>

Next ==
    \/ \E d \in Disks : DiskReconcile(d) \/ TakeSnapshot(d) \/ SyncVolume(d)
    \/ \E d \in Disks : DeleteDisk(d)
    \/ \E v \in VSnaps : MachineReconcile(v) \/ DeleteMachine(v) \/ CollectOwner(v)
    \/ \E v \in VSnaps, d \in Disks : CollectOwned(v, d)
    \/ \E s \in DSnaps \cup VSnaps : Create(s)
    \/ \E s \in Snaps : SyncSnap(s)
    \/ Report \/ Stop \/ Start \/ SyncVM \/ SyncInstance

Spec == Init /\ [][Next]_vars

-----------------------------------------------------------------------------
TypeOK ==
    /\ snap \in [Snaps -> Object \cup {None}] /\ cs \in [Snaps -> Object \cup {None}]
    /\ vs \in [Disks -> VolumeStates \cup {None}] /\ cv \in [Disks -> VolumeStates \cup {None}]
    /\ {kv, ck} \subseteq Instance \cup {None}
    /\ guest \in BOOLEAN /\ vm \in {"Running", "Stopped"}
    /\ asked \subseteq Snaps
    /\ power \in 0..MaxPower /\ faults \in 0..MaxFaults

Over(s) == snap[s] = None \/ snap[s].phase \in {"Ready", "Failed"}

\* As long as the VM stays on or stays off, a snapshot that reports itself
\* consistent was taken while the data was at rest (the guest frozen or the VM
\* off), and so were all disks of a VM snapshot: what status.consistent says of
\* the volume snapshots.
ConsistentIsClean ==
    power = 0 => \A s \in Snaps :
        snap[s] # None /\ snap[s].cons /\ ~snap[s].del =>
            \A d \in IF s \in Disks THEN {s} ELSE Own[s] :
                /\ vs[d] # "dirty"
                /\ snap[s].phase = "Ready" /\ snap[d] # None /\ ~snap[d].del => vs[d] = "clean"

\* A snapshot with requiredConsistency that is Ready reports itself consistent
\* and has its volume snapshots.
RequiredIsConsistent ==
    \A s \in Snaps :
        snap[s] # None /\ snap[s].phase = "Ready" /\ ~snap[s].del /\ RequiredConsistency(s) =>
            /\ snap[s].cons
            /\ s \in Disks => vs[s] \in {"clean", "dirty"}

\* Once every snapshot is Ready and every cache and report is up to date, the
\* guest is not left frozen: nobody would be left to thaw it.
NotLeftFrozen ==
    Fresh /\ (kv # None => kv.fs = guest /\ kv.req = "none") /\ (\A s \in Snaps : snap[s] # None => snap[s].phase = "Ready")
        => ~guest

\* The guest is thawed, while it runs, only when no snapshot in progress has its
\* volume still to be taken, unless it is being deleted: CanUnfreeze... looks for
\* snapshots in progress.
ThawSpares ==
    [][ guest /\ ~guest' /\ kv' # None =>
          \A d \in Disks : vs[d] = "new" /\ ~snap[d].del => snap[d].phase # "InProgress" ]_vars

Fairness ==
    /\ \A d \in Disks : SF_vars(DiskReconcile(d)) /\ WF_vars(TakeSnapshot(d)) /\ WF_vars(SyncVolume(d))
    /\ \A v \in VSnaps : SF_vars(MachineReconcile(v)) /\ WF_vars(CollectOwner(v))
                         /\ \A d \in Disks : WF_vars(CollectOwned(v, d))
    /\ \A s \in Snaps : WF_vars(SyncSnap(s))
    /\ WF_vars(Report) /\ WF_vars(SyncVM) /\ WF_vars(SyncInstance)

FairSpec == Spec /\ Fairness

\* The guest does not stay frozen: freezing is temporary.
Thaws == guest ~> ~guest

\* Every snapshot becomes Ready, fails or goes.
EverySnapshotEnds ==
    \A s \in Snaps : snap[s] # None ~> Over(s)
=============================================================================
