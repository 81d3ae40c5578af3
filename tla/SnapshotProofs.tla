--------------------------- MODULE SnapshotProofs ---------------------------
(***************************************************************************)
(* What Snapshot guarantees as long as the caches catch up before they are *)
(* read: clean volumes, a guest that is thawed only when nobody needs it   *)
(* frozen, and that is not left frozen.  For any number of disk snapshots  *)
(* and VM snapshots, with any calls and writes failing.                    *)
(***************************************************************************)
EXTENDS SnapshotSteps

-----------------------------------------------------------------------------
\* What holds as long as the caches catch up before they are read.

\* the guest stays frozen for a volume snapshot that is still to be taken, unless
\* its disk snapshot has failed or is deleted; others come out clean
AtRest ==
  /\ \A d \in Disks : vs[d] = "new" /\ ~snap[d].del =>
       \/ snap[d].phase = "Failed"
       \/ snap[d].phase = "InProgress" /\ (power = 0 /\ Agent /\ kv # None => guest)
  /\ power = 0 => \A d \in Disks : vs[d] = "dirty" =>
       kv # None /\ (Agent /\ ~snap[d].del => snap[d].phase = "Failed")

\* what is said to be consistent was at rest
Clean ==
  /\ power = 0 => \A d \in Disks : snap[d] # None /\ snap[d].cons =>
       vs[d] \in {"clean", None} /\ (~snap[d].del => vs[d] = "clean")
  /\ \A v \in VSnaps : snap[v] # None /\ snap[v].cons =>
       \A d \in Own[v] : d \in asked /\ (snap[d] = None \/ snap[d].cons)

CInv == Honest /\ AtRest /\ Clean

-----------------------------------------------------------------------------
\* What holds as long as, in addition, no VM snapshot is deleted.

\* a frozen guest has somebody left to thaw it
Attended ==
  /\ \A v \in VSnaps \cap asked : snap[v] # None /\ ~snap[v].del
  /\ \A d \in Disks : snap[d] # None /\ (Involved(snap[d]) \/ snap[d].del) => snap[d].fin
  /\ guest => \E s \in Snaps : Involved(snap[s])

-----------------------------------------------------------------------------
\* Clean volumes, as long as the caches catch up.

\* A reconcile of a disk snapshot keeps it: it creates the volume snapshot of a
\* running guest only when it is frozen, and calls it consistent only when the
\* guest is frozen, or off, at that time.
LEMMA DiskClean ==
    ASSUME TypeOK, RInv, CInv, Prompt, NEW s \in Disks, DiskReconcile(s)
    PROVE  CInv'
<1>1. /\ UNCHANGED <<cs, cv, ck, vm, asked, power>> /\ cs[s] # None /\ Fresh
      /\ \E o \in Outcomes : \E result \in CallResults(o.call), fin \in BOOLEAN :
           DiskEffect(s, o, result, fin)
  BY DiskStep
<1>0. PICK o \in Outcomes : \E result \in CallResults(o.call), fin \in BOOLEAN :
        DiskEffect(s, o, result, fin)
  BY <1>1
<1>2. PICK result \in CallResults(o.call), fin \in BOOLEAN : DiskEffect(s, o, result, fin)
  BY <1>0
<1>3. /\ snap' \in [Snaps -> Object \cup {None}]
      /\ \A x \in Snaps \ {s} : snap'[x] = snap[x]
      /\ Saved(snap'[s], s, cs[s], o.phase, o.cons, fin)
      /\ vs'[s] = IF snap'[s] = None \/ (cs[s].del /\ cv[s] # None) THEN None
                  ELSE IF o.call = "create" /\ vs[s] = None THEN "new" ELSE vs[s]
      /\ \A d \in Disks \ {s} : vs'[d] = vs[d]
      /\ s \in Snaps /\ Disks \subseteq Snaps
  BY <1>2 DEF DiskEffect, TypeOK, Snaps
<1>4. /\ cs = snap /\ cv = vs /\ ck = kv /\ vm = (IF kv = None THEN "Stopped" ELSE "Running")
      /\ snap[s] \in Object /\ snap[s].phase \in Phases
  BY <1>1, <1>3, ObjectFields DEF Fresh, TypeOK
<1>5. snap'[s] # None =>
        /\ snap'[s].del <=> snap[s].del
        /\ \/ snap'[s].phase = snap[s].phase /\ snap'[s].cons = snap[s].cons
           \/ snap'[s].phase = o.phase /\ snap'[s].cons = o.cons
  <2>1. snap'[s] \in Object \cup {None} /\ s \in Snaps
    BY <1>3, Zenon DEF Snaps, Disks
  <2>2. snap'[s] # None => SavedAs(snap'[s], s, o.phase, o.cons)
    BY <1>1, <1>3, <2>1, SavedFields, Zenon
  <2> QED BY <1>1, <1>3, <2>2, Zenon DEF SavedAs
<1>6. /\ kv' = None <=> kv = None
      /\ guest' # guest => o.call = IF guest' THEN "freeze" ELSE "unfreeze"
      /\ guest' \in BOOLEAN /\ guest \in BOOLEAN /\ Honest'
  BY <1>2, <1>3, Called, Zenon DEF DiskEffect, DiskDecides, CInv, TypeOK
<1>7. DiskDecides(s, o) /\ (o.synced => Followed(ck))
  BY <1>2, Zenon DEF DiskEffect, DiskDecides, Asks
<1>8. kv # None /\ Trusted(Seen(o)) => Seen(o) # None /\ Seen(o).fs = guest
  <2>1. ck # None => Seen(o) # None /\ Seen(o).fs = ck.fs
    BY SeenFields
  <2> QED BY <1>4, <1>7, <2>1, TrustedStatus DEF CInv
<1>9. AtRest'
  <2>1. ASSUME vs'[s] = "new", ~snap'[s].del
        PROVE  \/ snap'[s].phase = "Failed"
               \/ snap'[s].phase = "InProgress" /\ (power = 0 /\ Agent /\ kv' # None => guest')
    <3>1. snap'[s] # None /\ ~snap[s].del
      BY <1>3, <1>5, <2>1, NoneAssumption DEF VolumeStates
    <3>2. CASE vs[s] = "new"
      <4>1. \/ snap[s].phase = "Failed"
            \/ snap[s].phase = "InProgress" /\ (power = 0 /\ Agent /\ kv # None => guest)
        BY <3>1, <3>2 DEF CInv, AtRest
      <4>2. CASE snap[s].phase = "Failed"
        BY <1>4, <1>5, <1>7, <3>1, <4>2, Zenon DEF DiskDecides
      <4>3. CASE snap[s].phase = "InProgress"
        <5>1. o.call # "unfreeze"
          BY <1>4, <1>7, <3>1, <3>2, <4>3 DEF DiskDecides
        <5>2. o.phase \in {"InProgress", "Failed"}
          BY <1>1, <1>4, <1>7, <3>1, <3>2, <4>3, Zenon DEF DiskDecides, Involved
        <5> QED BY <1>5, <1>6, <3>1, <4>1, <4>3, <5>1, <5>2
      <4> QED BY <4>1, <4>2, <4>3
    <3>3. CASE vs[s] # "new"
      <4>1. o.call = "create"
        BY <1>3, <2>1, <3>3, NoneAssumption DEF VolumeStates
      <4>2. /\ snap[s].phase \in {"InProgress", "Terminating"} /\ o.phase = "InProgress"
            /\ Trusted(Seen(o)) /\ (vm = "Stopped" \/ Frozen(Seen(o)) \/ ~CanFreeze(Seen(o)))
        BY <1>4, <1>7, <4>1 DEF DiskDecides
      <4>3. snap'[s].phase = "InProgress"
        BY <1>1, <1>3, <1>4, <1>5, <3>1, <4>2, Zenon DEF RInv, Ended
      <4>4. guest' = guest
        BY <1>6, <4>1
      <4>5. Agent /\ kv # None => guest
        BY <1>4, <1>8, <4>2 DEF Frozen, CanFreeze
      <4> QED BY <1>6, <4>3, <4>4, <4>5
    <3> QED BY <3>2, <3>3
  <2>2. ASSUME NEW d \in Disks \ {s}, vs[d] = "new", ~snap[d].del
        PROVE  \/ snap[d].phase = "Failed"
               \/ snap[d].phase = "InProgress" /\ (power = 0 /\ Agent /\ kv' # None => guest')
    <3>1. o.call = "unfreeze" => ~InProgress(d)
      BY <1>3, <1>7 DEF DiskDecides, Asks
    <3>2. snap[d] # None
      BY <2>2, NoneAssumption DEF RInv, Volumes, VolumeStates
    <3> QED BY <1>4, <1>6, <2>2, <3>1, <3>2 DEF CInv, AtRest, InProgress
  <2>3. ASSUME power = 0, vs'[s] = "dirty"
        PROVE  kv' # None /\ (Agent /\ ~snap'[s].del => snap'[s].phase = "Failed")
    <3>1. vs[s] = "dirty" /\ snap'[s] # None
      BY <1>3, <2>3, NoneAssumption DEF VolumeStates
    <3>2. kv # None /\ (Agent /\ ~snap[s].del => snap[s].phase = "Failed")
      BY <2>3, <3>1 DEF CInv, AtRest
    <3>3. snap[s].phase = "Failed" => snap[s].del \/ o.phase = "Failed"
      BY <1>4, <1>7 DEF DiskDecides
    <3> QED BY <1>5, <1>6, <3>1, <3>2, <3>3
  <2>4. \A d \in Disks : vs'[d] = "new" /\ ~snap'[d].del =>
          \/ snap'[d].phase = "Failed"
          \/ snap'[d].phase = "InProgress" /\ (power = 0 /\ Agent /\ kv' # None => guest')
    BY <1>3, <2>1, <2>2
  <2>5. power = 0 => \A d \in Disks : vs'[d] = "dirty" =>
          kv' # None /\ (Agent /\ ~snap'[d].del => snap'[d].phase = "Failed")
    BY <1>3, <1>6, <2>3 DEF CInv, AtRest
  <2> QED BY <1>1, <2>4, <2>5 DEF AtRest
<1>10. Clean'
  <2>1. ASSUME power = 0, snap'[s] # None, snap'[s].cons
        PROVE  vs'[s] \in {"clean", None} /\ (~snap'[s].del => vs'[s] = "clean")
    <3>1. CASE snap[s].cons
      <4>1. vs[s] \in {"clean", None} /\ (~snap[s].del => vs[s] = "clean")
        BY <1>1, <1>4, <2>1, <3>1 DEF CInv, Clean
      <4>2. o.call = "create" => ~snap[s].del
        BY <1>4, <1>7 DEF DiskDecides
      <4> QED BY <1>3, <1>4, <1>5, <2>1, <4>1, <4>2, NoneAssumption DEF VolumeStates
    <3>2. CASE ~snap[s].cons
      <4>1. o.cons # snap[s].cons
        BY <1>5, <2>1, <3>2, Zenon
      <4>2. /\ ~snap[s].del /\ snap[s].phase # "Failed" /\ vs[s] \in {"clean", "dirty"}
            /\ Trusted(Seen(o)) /\ (vm = "Stopped" \/ Frozen(Seen(o)))
        BY <1>4, <1>7, <4>1, Zenon DEF DiskDecides
      <4>3. vs[s] # "dirty"
        <5>1. CASE kv = None
          BY <2>1, <5>1 DEF CInv, AtRest
        <5>2. CASE kv # None
          <6>1. guest
            BY <1>4, <1>8, <4>2, <5>2 DEF Frozen
          <6>2. Agent
            BY <6>1, SnapshotAssumption DEF CInv, Honest
          <6> QED BY <2>1, <4>2, <6>2 DEF CInv, AtRest
        <5> QED BY <5>1, <5>2
      <4>4. vs[s] = "clean" /\ vs[s] # None
        BY <4>2, <4>3, NoneAssumption DEF VolumeStates
      <4> QED BY <1>3, <1>4, <2>1, <4>2, <4>4
    <3> QED BY <3>1, <3>2
  <2>2. power = 0 => \A d \in Disks : snap'[d] # None /\ snap'[d].cons =>
          vs'[d] \in {"clean", None} /\ (~snap'[d].del => vs'[d] = "clean")
    BY <1>3, <2>1 DEF CInv, Clean
  <2>3. snap'[s] # None /\ snap[s].cons => snap'[s].cons
    BY <1>4, <1>5, <1>7, Zenon DEF DiskDecides
  <2>4. ASSUME NEW v \in VSnaps, snap'[v] # None, snap'[v].cons, NEW d \in Own[v]
        PROVE  d \in asked /\ (snap'[d] = None \/ snap'[d].cons)
    <3>1. v \in Snaps /\ v # s /\ d \in Snaps
      BY Owned
    <3>2. d \in asked /\ (snap[d] = None \/ snap[d].cons)
      BY <1>3, <2>4, <3>1 DEF CInv, Clean
    <3> QED BY <1>1, <1>3, <1>4, <2>3, <3>1, <3>2, Zenon
  <2> QED BY <1>1, <2>2, <2>4 DEF Clean
<1> QED BY <1>6, <1>9, <1>10 DEF CInv

\* A reconcile of a VM snapshot keeps it: it calls itself consistent when all its
\* disk snapshots do.
LEMMA MachineClean ==
    ASSUME TypeOK, RInv, CInv, Prompt, NEW s \in VSnaps, MachineReconcile(s)
    PROVE  CInv'
<1>1. /\ UNCHANGED <<cs, vs, cv, ck, vm, power>> /\ cs[s] # None /\ Fresh
      /\ \E o \in Outcomes : \E result \in CallResults(o.call), made \in SUBSET Own[s] :
           MachineEffect(s, o, result, made)
  BY MachineStep
<1>0. PICK o \in Outcomes : \E result \in CallResults(o.call), made \in SUBSET Own[s] :
        MachineEffect(s, o, result, made)
  BY <1>1
<1>2. PICK result \in CallResults(o.call), made \in SUBSET Own[s] : MachineEffect(s, o, result, made)
  BY <1>0
<1>3. /\ snap' \in [Snaps -> Object \cup {None}]
      /\ \A x \in Snaps \ ({s} \cup made) : snap'[x] = snap[x]
      /\ \A x \in made : snap'[x] = NewObject
      /\ Saved(snap'[s], s, cs[s], AfterCall(o, result), o.cons, cs[s].fin)
      /\ made \subseteq Disks /\ made \cap asked = {} /\ asked' = asked \cup made
      /\ s \in Snaps /\ s \notin Disks /\ Disks \subseteq Snaps
  BY <1>2, Owned DEF MachineEffect, Snaps
<1>4. cs = snap
  BY <1>1 DEF Fresh
<1>5. snap'[s] # None => snap'[s].cons = snap[s].cons \/ snap'[s].cons = o.cons
  <2>1. snap'[s] \in Object \cup {None} /\ s \in Snaps
    BY <1>3, Zenon DEF Snaps, Disks
  <2>2. snap'[s] # None => SavedAs(snap'[s], s, AfterCall(o, result), o.cons)
    BY <1>1, <1>3, <2>1, SavedFields, Zenon
  <2> QED BY <1>1, <1>3, <2>2, Zenon DEF SavedAs
<1>6. /\ kv' = None <=> kv = None
      /\ guest' # guest => o.call = IF guest' THEN "freeze" ELSE "unfreeze"
      /\ guest' \in BOOLEAN /\ guest \in BOOLEAN /\ Honest'
  BY <1>2, <1>3, Called, Zenon DEF MachineEffect, MachineDecides, CInv, TypeOK
<1>7. \A x \in made : vs[x] = None
  BY <1>3, Zenon DEF RInv, Named
<1>8. AtRest'
  <2>1. ASSUME NEW d \in Disks, vs[d] = "new", ~snap'[d].del
        PROVE  \/ snap'[d].phase = "Failed"
               \/ snap'[d].phase = "InProgress" /\ (power = 0 /\ Agent /\ kv' # None => guest')
    <3>1. o.call = "unfreeze" => ~InProgress(d)
      BY <1>2, <1>3, Zenon DEF MachineEffect, MachineDecides, Asks
    <3>2. snap[d] # None /\ d \notin made
      BY <1>7, <2>1, NoneAssumption DEF RInv, Volumes, VolumeStates
    <3>3. snap'[d] = snap[d]
      BY <1>3, <3>2, Zenon
    <3> QED BY <1>4, <1>6, <2>1, <3>1, <3>2, <3>3 DEF CInv, AtRest, InProgress
  <2>2. ASSUME power = 0, NEW d \in Disks, vs[d] = "dirty"
        PROVE  kv' # None /\ (Agent /\ ~snap'[d].del => snap'[d].phase = "Failed")
    <3>1. d \notin made
      BY <1>7, <2>2, NoneAssumption DEF VolumeStates
    <3>2. snap'[d] = snap[d]
      BY <1>3, <3>1
    <3> QED BY <1>6, <2>2, <3>2, Zenon DEF CInv, AtRest
  <2> QED BY <1>1, <2>1, <2>2, Zenon DEF AtRest
<1>9. Clean'
  <2>1. power = 0 => \A d \in Disks : snap'[d] # None /\ snap'[d].cons =>
          vs[d] \in {"clean", None} /\ (~snap'[d].del => vs[d] = "clean")
    <3>1. \A d \in Disks : snap'[d] = snap[d] \/ snap'[d] = NewObject
      BY <1>3
    <3> QED BY <3>1, NewFields DEF CInv, Clean
  <2>2. ASSUME NEW v \in VSnaps, snap'[v] # None, snap'[v].cons, NEW d \in Own[v]
        PROVE  d \in asked /\ (snap[d] = None \/ snap[d].cons)
    <3>1. v \in Snaps /\ v \notin Disks /\ d \in Snaps
      BY Owned
    <3>2. CASE v = s /\ snap'[s].cons = o.cons /\ o.cons # snap[s].cons
      <4>1. cs[d] # None /\ cs[d].cons
        BY <1>2, <1>4, <2>2, <3>2, Zenon DEF MachineEffect, MachineDecides
      <4> QED BY <1>4, <3>1, <4>1 DEF RInv, Named
    <3>3. CASE ~(v = s /\ snap'[s].cons = o.cons /\ o.cons # snap[s].cons)
      <4>1. snap[v] # None /\ snap[v].cons
        BY <1>1, <1>3, <1>4, <1>5, <2>2, <3>1, <3>3, Zenon
      <4> QED BY <4>1 DEF CInv, Clean
    <3> QED BY <3>2, <3>3
  <2>3. ASSUME NEW v \in VSnaps, snap'[v] # None, snap'[v].cons, NEW d \in Own[v]
        PROVE  d \in asked' /\ (snap'[d] = None \/ snap'[d].cons)
    <3>1. d \in Snaps /\ d \in Disks
      BY Owned
    <3>2. d \notin made /\ d # s
      BY <1>3, <2>2, <2>3, <3>1
    <3> QED BY <1>3, <2>2, <2>3, <3>1, <3>2
  <2> QED BY <1>1, <2>1, <2>3 DEF Clean
<1> QED BY <1>6, <1>8, <1>9 DEF CInv

\* Deletion keeps it.
LEMMA DeletionClean ==
    ASSUME TypeOK, RInv, CInv, NEW d \in Disks, Deletes(d)
    PROVE  CInv'
<1>1. /\ snap[d] # None /\ ~snap[d].del
      /\ \/ snap'[d] = None /\ vs' = [vs EXCEPT ![d] = None]
         \/ /\ snap'[d] \in Object /\ snap'[d].phase = snap[d].phase /\ snap'[d].cons = snap[d].cons
            /\ snap'[d].del /\ vs' = vs
      /\ \A x \in Snaps \ {d} : snap'[x] = snap[x]
      /\ UNCHANGED <<kv, guest, power, asked>>
      /\ d \in Snaps /\ Disks \subseteq Snaps
  BY DEF Deletes, Snaps
<1>2. /\ \A e \in Disks \ {d} : vs'[e] = vs[e]
      /\ vs'[d] = (IF snap'[d] = None THEN None ELSE vs[d]) /\ (snap'[d] # None => snap'[d].del)
  BY <1>1, ObjectFields DEF TypeOK
<1>3. Honest'
  BY <1>1 DEF CInv, Honest
<1>4. AtRest'
  <2>1. \A e \in Disks : vs'[e] \in {"new", "dirty"} =>
          vs[e] = vs'[e] /\ (snap'[e] = snap[e] \/ snap'[e].del)
    BY <1>1, <1>2, NoneAssumption DEF VolumeStates
  <2> QED BY <1>1, <2>1 DEF CInv, AtRest
<1>5. Clean'
  <2>1. power' = 0 => \A e \in Disks : snap'[e] # None /\ snap'[e].cons =>
          vs'[e] \in {"clean", None} /\ (~snap'[e].del => vs'[e] = "clean")
    BY <1>1, <1>2 DEF CInv, Clean
  <2>2. \A x \in Snaps : snap'[x] # None => snap[x] # None /\ snap'[x].cons = snap[x].cons
    BY <1>1
  <2>3. ASSUME NEW v \in VSnaps, snap'[v] # None, snap'[v].cons, NEW e \in Own[v]
        PROVE  e \in asked' /\ (snap'[e] = None \/ snap'[e].cons)
    <3>1. v \in Snaps /\ e \in Snaps
      BY Owned
    <3> QED BY <1>1, <2>2, <2>3, <3>1 DEF CInv, Clean
  <2> QED BY <2>1, <2>3 DEF Clean
<1> QED BY <1>3, <1>4, <1>5 DEF CInv

\* Deletion of a VM snapshot keeps it.
LEMMA DropClean ==
    ASSUME TypeOK, CInv, NEW v \in VSnaps, Drops(v)
    PROVE  CInv'
<1>1. /\ snap[v] # None /\ (snap'[v] # None => snap'[v].cons = snap[v].cons)
      /\ \A x \in Snaps \ {v} : snap'[x] = snap[x]
      /\ UNCHANGED <<vs, kv, guest, power, asked>>
      /\ v \in Snaps /\ v \notin Disks /\ Disks \subseteq Snaps
  BY Owned DEF Drops, Snaps
<1>2. Honest'
  BY <1>1 DEF CInv, Honest
<1>3. \A d \in Disks : snap'[d] = snap[d]
  BY <1>1
<1>4. AtRest'
  BY <1>1, <1>3 DEF CInv, AtRest
<1>5. Clean'
  <2>1. ASSUME NEW w \in VSnaps, snap'[w] # None, snap'[w].cons, NEW e \in Own[w]
        PROVE  e \in asked' /\ (snap'[e] = None \/ snap'[e].cons)
    <3>1. w \in Snaps /\ e \in Disks
      BY Owned
    <3>2. snap[w] # None /\ snap[w].cons
      BY <1>1, <2>1, <3>1
    <3> QED BY <1>1, <1>3, <3>1, <3>2 DEF CInv, Clean
  <2> QED BY <1>1, <1>3, <2>1 DEF CInv, Clean
<1> QED BY <1>2, <1>4, <1>5 DEF CInv

\* A user's new snapshot keeps it.
LEMMA CreateClean ==
    ASSUME TypeOK, RInv, CInv, NEW s \in DSnaps \cup VSnaps, Create(s)
    PROVE  CInv'
<1>1. /\ s \notin asked /\ asked' = asked \cup {s} /\ snap'[s] = NewObject
      /\ \A x \in Snaps \ {s} : snap'[x] = snap[x]
      /\ UNCHANGED <<vs, kv, guest, power>>
      /\ s \in Snaps /\ Disks \subseteq Snaps
  BY DEF Create, TypeOK, Snaps, Disks
<1>2. Honest'
  BY <1>1 DEF CInv, Honest
<1>3. s \in Disks => vs[s] = None
  BY <1>1 DEF RInv, Named
<1>4. AtRest'
  BY <1>1, <1>3, NoneAssumption DEF CInv, AtRest, VolumeStates
<1>5. Clean'
  <2>1. power' = 0 => \A d \in Disks : snap'[d] # None /\ snap'[d].cons =>
          vs'[d] \in {"clean", None} /\ (~snap'[d].del => vs'[d] = "clean")
    BY <1>1, NewFields DEF CInv, Clean
  <2>2. ASSUME NEW v \in VSnaps, snap'[v] # None, snap'[v].cons, NEW d \in Own[v]
        PROVE  d \in asked' /\ (snap'[d] = None \/ snap'[d].cons)
    <3>1. v \in Snaps /\ d \in Snaps /\ v # s
      BY <1>1, <2>2, Owned, NewFields
    <3>2. d \in asked /\ (snap[d] = None \/ snap[d].cons)
      BY <1>1, <2>2, <3>1 DEF CInv, Clean
    <3> QED BY <1>1, <3>1, <3>2
  <2> QED BY <2>1, <2>2 DEF Clean
<1> QED BY <1>2, <1>4, <1>5 DEF CInv

\* The CSI driver keeps it: it takes the volume snapshot of a running guest that
\* is not frozen only for a disk snapshot that failed or is deleted, or where
\* there is no agent to freeze it.
LEMMA VolumeClean ==
    ASSUME TypeOK, RInv, CInv, NEW d \in Disks, TakeSnapshot(d)
    PROVE  CInv'
<1>1. /\ vs[d] = "new" /\ vs'[d] \in {"clean", "dirty", "error"}
      /\ vs'[d] = "dirty" => ~guest /\ kv # None
      /\ \A e \in Disks \ {d} : vs'[e] = vs[e]
      /\ UNCHANGED <<snap, kv, guest, power, asked>>
  BY DEF TakeSnapshot, TypeOK
<1>2. Honest'
  BY <1>1 DEF CInv, Honest
<1>3. AtRest'
  <2>1. \A e \in Disks : vs'[e] = "new" => vs[e] = "new"
    BY <1>1
  <2>2. power = 0 => \A e \in Disks : vs'[e] = "dirty" =>
          kv # None /\ (Agent /\ ~snap[e].del => snap[e].phase = "Failed")
    BY <1>1 DEF CInv, AtRest
  <2> QED BY <1>1, <2>1, <2>2 DEF CInv, AtRest
<1>4. Clean'
  BY <1>1, NoneAssumption DEF CInv, Clean, VolumeStates
<1> QED BY <1>2, <1>3, <1>4 DEF CInv

\* What concerns the instance alone.
LEMMA InstanceClean ==
    ASSUME TypeOK, CInv, Report \/ Stop \/ Start
    PROVE  CInv'
<1>1. power \in Nat /\ MaxPower \in Nat /\ kv \in Instance \cup {None} /\ guest \in BOOLEAN
  BY SnapshotAssumption DEF TypeOK
<1>2. CASE Report
  <2>1. kv' = [kv EXCEPT !.fs = guest, !.ver = kv.ver + 1] /\ kv \in Instance
        /\ UNCHANGED <<snap, vs, guest, power, asked>>
    BY <1>1, <1>2 DEF Report
  <2>2. kv'.fs = guest /\ kv' \in Written
    <3>1. kv \in Written /\ kv.ver + 1 \in Nat
      BY <2>1, InstanceWritten DEF Written
    <3> QED BY <1>1, <2>1, <3>1, Zenon DEF Written
  <2>3. kv' # None /\ kv # None
    BY <2>1, <2>2, InstanceWritten
  <2>4. Honest'
    BY <2>1, <2>2, <2>3 DEF CInv, Honest
  <2>5. AtRest' /\ Clean'
    BY <2>1, <2>3 DEF CInv, AtRest, Clean
  <2> QED BY <2>4, <2>5 DEF CInv
<1>3. CASE Stop
  <2>1. kv' = None /\ ~guest' /\ power' # 0 /\ UNCHANGED <<snap, vs, asked>>
    BY <1>1, <1>3 DEF Stop
  <2>2. Honest'
    BY <2>1 DEF Honest
  <2>3. AtRest' /\ Clean'
    BY <2>1 DEF CInv, AtRest, Clean
  <2> QED BY <2>2, <2>3 DEF CInv
<1>4. CASE Start
  <2>1. kv = None /\ kv' = NewInstance(power + 1) /\ power' # 0 /\ UNCHANGED <<snap, vs, guest, asked>>
    BY <1>1, <1>4 DEF Start
  <2>2. kv'.fs = FALSE /\ ~guest
    BY <2>1 DEF NewInstance, CInv, Honest
  <2>3. Honest'
    BY <1>1, <2>1, <2>2, Zenon DEF Honest
  <2>4. AtRest' /\ Clean'
    BY <2>1 DEF CInv, AtRest, Clean
  <2> QED BY <2>3, <2>4 DEF CInv
<1> QED BY <1>2, <1>3, <1>4

\* Every step keeps it.
LEMMA CleanKept ==
    ASSUME TypeOK, RInv, CInv, Prompt, [Next]_vars
    PROVE  CInv'
<1>1. ASSUME NEW d \in Disks, DiskReconcile(d)
      PROVE  CInv'
  BY <1>1, DiskClean
<1>2. ASSUME NEW v \in VSnaps, MachineReconcile(v)
      PROVE  CInv'
  BY <1>2, MachineClean
<1>3. ASSUME NEW d \in Disks, DeleteDisk(d) \/ \E v \in VSnaps : CollectOwned(v, d)
      PROVE  CInv'
  BY <1>3, DeletesDisk, DeletionClean
<1>4. ASSUME NEW v \in VSnaps, DeleteMachine(v) \/ CollectOwner(v)
      PROVE  CInv'
  BY <1>4, DropsMachine, DropClean
<1>5. ASSUME NEW s \in DSnaps \cup VSnaps, Create(s)
      PROVE  CInv'
  BY <1>5, CreateClean
<1>6. ASSUME NEW d \in Disks, TakeSnapshot(d)
      PROVE  CInv'
  BY <1>6, VolumeClean
<1>7. ASSUME UNCHANGED <<snap, vs, kv, guest, power, asked>>
      PROVE  CInv'
  BY <1>7 DEF CInv, Honest, AtRest, Clean
<1>8. ASSUME \/ \E d \in Disks : SyncVolume(d)
             \/ \E s \in Snaps : SyncSnap(s)
             \/ SyncVM \/ SyncInstance \/ UNCHANGED vars
      PROVE  CInv'
  BY <1>7, <1>8 DEF SyncVolume, SyncSnap, SyncVM, SyncInstance, vars
<1> QED BY <1>1, <1>2, <1>3, <1>4, <1>5, <1>6, <1>8, InstanceClean DEF Next

\* Init establishes it.
LEMMA InitClean ==
    ASSUME Init
    PROVE  CInv
<1>1. /\ \A s \in Snaps : snap[s] = None
      /\ \A d \in Disks : vs[d] = None /\ None \notin VolumeStates
  BY NoneAssumption DEF Init
<1>2. kv # None => kv.fs = FALSE
  BY DEF Init, NewInstance
<1>3. Honest
  BY <1>2, Zenon DEF Init, Honest
<1>4. AtRest /\ Clean
  BY <1>1 DEF AtRest, Clean, VolumeStates, Snaps
<1> QED BY <1>3, <1>4 DEF CInv

\* The inductive invariant of clean volumes, as long as the caches catch up
\* before they are read.
THEOREM AtRestWhenTaken ==
    ASSUME Prompt = TRUE
    PROVE  Spec => [](TypeOK /\ RInv /\ CInv)
<1>1. Init => CInv
  BY InitClean
<1>2. TypeOK /\ RInv /\ CInv /\ [Next]_vars => CInv'
  BY CleanKept
<1> QED BY <1>1, <1>2, Requirements, PTL DEF Spec

\* What reports itself consistent was taken while the data was at rest, as long
\* as the VM stays on or off and the caches catch up before they are read:
\* whatever fails or is deleted.
THEOREM ConsistentMeansClean ==
    ASSUME Prompt = TRUE
    PROVE  Spec => []ConsistentIsClean
<1>1. ASSUME TypeOK, RInv, CInv
      PROVE  ConsistentIsClean
  <2> SUFFICES ASSUME power = 0, NEW s \in Snaps, snap[s] # None, snap[s].cons, ~snap[s].del,
                      NEW d \in (IF s \in Disks THEN {s} ELSE Own[s])
               PROVE  /\ vs[d] # "dirty"
                      /\ snap[s].phase = "Ready" /\ snap[d] # None /\ ~snap[d].del => vs[d] = "clean"
    BY DEF ConsistentIsClean
  <2>1. d \in Disks /\ (snap[d] = None \/ snap[d].cons)
    <3>1. CASE s \in Disks
      BY <3>1
    <3>2. CASE s \notin Disks
      <4>1. s \in VSnaps /\ d \in Own[s]
        BY <3>2 DEF Snaps
      <4> QED BY <1>1, <4>1, Owned DEF CInv, Clean
    <3> QED BY <3>1, <3>2
  <2>2. CASE snap[d] = None
    BY <1>1, <2>1, <2>2, NoneAssumption DEF RInv, Volumes, VolumeStates
  <2>3. CASE snap[d] # None /\ snap[d].cons
    BY <1>1, <2>1, <2>3, NoneAssumption DEF CInv, Clean, VolumeStates
  <2> QED BY <2>1, <2>2, <2>3
<1>2. TypeOK /\ RInv /\ CInv => ConsistentIsClean
  BY <1>1
<1> QED BY <1>2, AtRestWhenTaken, PTL

-----------------------------------------------------------------------------
\* Thawing, however far the caches lag.

\* whoever has a volume to be taken is known to be in progress, also to the cache
Noticed ==
  \A d \in Disks :
    /\ cs[d] # None /\ cs[d].phase = "InProgress" /\ snap[d] # None =>
         snap[d].phase \in {"InProgress", "Failed", "Terminating", "Ready"}
    /\ vs[d] = "new" /\ ~snap[d].del =>
         /\ snap[d].phase \in {"InProgress", "Failed"}
         /\ snap[d].phase = "InProgress" => cs[d] # None /\ cs[d].phase = "InProgress"

\* A reconcile of a disk snapshot keeps it: a volume snapshot is created by a
\* reconcile that has read its disk snapshot as in progress, and a snapshot in
\* progress ends, but does not begin again.
LEMMA DiskNoticed ==
    ASSUME TypeOK, RInv, Noticed, NEW s \in Disks, DiskReconcile(s)
    PROVE  Noticed'
<1>1. /\ cs[s] # None /\ UNCHANGED cs /\ s \in Snaps /\ Disks \subseteq Snaps
      /\ \E o \in Outcomes : \E result \in CallResults(o.call), fin \in BOOLEAN :
           DiskEffect(s, o, result, fin)
  BY DiskStep DEF Snaps
<1>2. PICK o \in Outcomes : \E result \in CallResults(o.call), fin \in BOOLEAN :
        DiskEffect(s, o, result, fin)
  BY <1>1
<1>3. PICK result \in CallResults(o.call), fin \in BOOLEAN : DiskEffect(s, o, result, fin)
  BY <1>2
<1>4. /\ DiskDecides(s, o) /\ snap' \in [Snaps -> Object \cup {None}]
      /\ \A x \in Snaps \ {s} : snap'[x] = snap[x]
      /\ Saved(snap'[s], s, cs[s], o.phase, o.cons, fin)
      /\ vs' = [vs EXCEPT ![s] = IF snap'[s] = None \/ (cs[s].del /\ cv[s] # None) THEN None
                                 ELSE IF o.call = "create" /\ vs[s] = None THEN "new" ELSE vs[s]]
      /\ DOMAIN vs = Disks /\ None # "new"
  BY <1>3, NoneAssumption, Zenon DEF DiskEffect, TypeOK, VolumeStates
<1>5. ASSUME snap'[s] # None
      PROVE  /\ snap[s] # None /\ (snap'[s].del <=> snap[s].del)
             /\ \/ snap'[s].phase = snap[s].phase
                \/ cs[s] = snap[s] /\ snap'[s].phase = o.phase
  <2>1. snap'[s] \in Object \cup {None} /\ s \in Snaps
    BY <1>4, Zenon DEF Snaps, Disks
  <2>2. snap'[s] # None => SavedAs(snap'[s], s, o.phase, o.cons)
    BY <1>1, <1>4, <1>5, <2>1, SavedFields, Zenon
  <2> QED BY <1>1, <1>4, <1>5, <2>2, Zenon DEF SavedAs
<1>6. /\ o.call = "create" => ~cs[s].del /\ cs[s].phase = "InProgress" /\ o.phase = "InProgress"
      /\ Involved(cs[s]) => o.phase \in {"InProgress", "Failed", "Terminating", "Ready"}
      /\ cs[s].phase = "Failed" => cs[s].del \/ o.phase = "Failed"
      /\ o.phase = "Terminating" => cs[s].del \/ cs[s].phase = "Terminating"
      /\ o.phase = "Ready" /\ cs[s].phase # "Ready" => ~cs[s].del /\ cv[s] \in {"clean", "dirty"}
  BY <1>1, <1>4, Zenon DEF DiskDecides, RInv, Ended
<1>7. ASSUME NEW d \in Disks, d # s
      PROVE  snap'[d] = snap[d] /\ vs'[d] = vs[d] /\ cs'[d] = cs[d]
  BY <1>1, <1>4, <1>7, Zenon
<1>8. ASSUME cs[s].phase = "InProgress", snap'[s] # None
      PROVE  snap'[s].phase \in {"InProgress", "Failed", "Terminating", "Ready"}
  <2>1. Involved(cs[s])
    BY <1>1, <1>8 DEF Involved
  <2> QED BY <1>1, <1>5, <1>6, <1>8, <2>1, Zenon DEF Noticed
<1>9. ASSUME vs'[s] = "new", ~snap'[s].del
      PROVE  /\ snap'[s].phase \in {"InProgress", "Failed"}
             /\ snap'[s].phase = "InProgress" => cs[s].phase = "InProgress"
  <2>1. snap'[s] # None /\ snap[s] # None /\ ~snap[s].del
    BY <1>4, <1>5, <1>9, Zenon
  <2>2. ~cs[s].del
    BY <1>1, <2>1 DEF RInv, Volumes
  <2>3. CASE vs[s] = "new"
    <3>1. /\ snap[s].phase \in {"InProgress", "Failed"}
          /\ snap[s].phase = "InProgress" => cs[s].phase = "InProgress"
          /\ cv[s] \notin {"clean", "dirty"}
      BY <2>1, <2>3, Zenon DEF Noticed, RInv, Volumes
    <3>2. CASE snap'[s].phase = snap[s].phase
      BY <3>1, <3>2, Zenon
    <3>3. CASE cs[s] = snap[s] /\ snap'[s].phase = o.phase
      <4>1. Involved(cs[s])
        BY <1>1, <3>1, <3>3, Zenon DEF Involved
      <4> QED BY <1>6, <2>2, <3>1, <3>3, <4>1
    <3> QED BY <1>5, <2>1, <3>2, <3>3, Zenon
  <2>4. CASE vs[s] # "new"
    <3>1. o.call = "create" /\ vs[s] = None
      BY <1>4, <1>9, <2>4, Zenon
    <3>2. cs[s].phase = "InProgress" /\ o.phase = "InProgress"
      BY <1>6, <3>1, Zenon
    <3>3. snap[s].phase \notin {"Terminating", "Ready"}
      <4>1. None \notin {"clean", "dirty"}
        BY NoneAssumption DEF VolumeStates
      <4> QED BY <1>1, <2>1, <3>1, <4>1, Zenon DEF RInv, Met, Ended, Ready
    <3>4. snap[s].phase \in {"InProgress", "Failed"}
      BY <1>1, <2>1, <3>2, <3>3, Zenon DEF Noticed
    <3> QED BY <1>5, <2>1, <3>2, <3>4
  <2> QED BY <2>3, <2>4
<1> QED BY <1>1, <1>7, <1>8, <1>9, Zenon DEF Noticed

\* A VM snapshot changes no disk snapshot that is there.
LEMMA MachineNoticed ==
    ASSUME TypeOK, RInv, Noticed, NEW s \in VSnaps, MachineReconcile(s)
    PROVE  Noticed'
<1>1. /\ UNCHANGED <<cs, vs>> /\ s \notin Disks /\ Disks \subseteq Snaps
      /\ \E o \in Outcomes : \E result \in CallResults(o.call), made \in SUBSET Own[s] :
           MachineEffect(s, o, result, made)
  BY MachineStep, Owned, Zenon DEF Snaps
<1>2. PICK o \in Outcomes : \E result \in CallResults(o.call), made \in SUBSET Own[s] :
        MachineEffect(s, o, result, made)
  BY <1>1
<1>3. PICK result \in CallResults(o.call), made \in SUBSET Own[s] : MachineEffect(s, o, result, made)
  BY <1>2, Zenon
<1>4. made \cap asked = {} /\ \A x \in Snaps \ ({s} \cup made) : snap'[x] = snap[x]
  BY <1>3, Zenon DEF MachineEffect
<1>5. ASSUME NEW d \in Disks
      PROVE  snap'[d] = snap[d] \/ (cs[d] = None /\ vs[d] = None)
  BY <1>1, <1>4, <1>5, Zenon DEF RInv, Named
<1>6. None # "new"
  BY NoneAssumption DEF VolumeStates
<1> QED BY <1>1, <1>5, <1>6, Zenon DEF Noticed

\* Every step keeps it.
LEMMA NoticedKept ==
    ASSUME TypeOK, RInv, Noticed, [Next]_vars
    PROVE  Noticed'
<1>1. ASSUME NEW d \in Disks, DiskReconcile(d)
      PROVE  Noticed'
  BY <1>1, DiskNoticed
<1>2. ASSUME NEW v \in VSnaps, MachineReconcile(v)
      PROVE  Noticed'
  BY <1>2, MachineNoticed
<1>3. ASSUME NEW d \in Disks, DeleteDisk(d) \/ \E v \in VSnaps : CollectOwned(v, d)
      PROVE  Noticed'
  <2>1. Deletes(d) /\ Disks \subseteq Snaps /\ None # "new" /\ DOMAIN vs = Disks
    BY <1>3, DeletesDisk, NoneAssumption, Zenon DEF Snaps, VolumeStates, TypeOK
  <2>2. UNCHANGED cs /\ \A x \in Disks \ {d} : snap'[x] = snap[x] /\ vs'[x] = vs[x]
    BY <2>1 DEF Deletes
  <2>3. \/ snap'[d] = None /\ vs'[d] = None
        \/ snap'[d].phase = snap[d].phase /\ snap'[d].del /\ snap[d] # None
    BY <2>1 DEF Deletes
  <2> QED BY <2>1, <2>2, <2>3 DEF Noticed
<1>4. ASSUME NEW v \in VSnaps, DeleteMachine(v) \/ CollectOwner(v)
      PROVE  Noticed'
  <2>1. UNCHANGED <<cs, vs>> /\ \A d \in Disks : snap'[d] = snap[d]
    BY <1>4, DropsMachine, Owned, Zenon DEF Drops, Snaps
  <2> QED BY <2>1, Zenon DEF Noticed
<1>5. ASSUME NEW s \in DSnaps \cup VSnaps, Create(s)
      PROVE  Noticed'
  <2>1. UNCHANGED <<cs, vs>> /\ s \notin asked /\ snap' = [snap EXCEPT ![s] = NewObject] /\ None # "new"
    BY <1>5, NoneAssumption DEF Create, VolumeStates
  <2>2. \A d \in Disks : snap'[d] = snap[d] \/ (cs[d] = None /\ vs[d] = None)
    BY <2>1 DEF RInv, Named, TypeOK, Snaps
  <2> QED BY <2>1, <2>2 DEF Noticed
<1>6. ASSUME NEW d \in Disks, TakeSnapshot(d)
      PROVE  Noticed'
  <2>1. UNCHANGED <<cs, snap>> /\ \A x \in Disks : vs'[x] = "new" => vs[x] = "new"
    BY <1>6 DEF TakeSnapshot, TypeOK
  <2> QED BY <2>1 DEF Noticed
<1>7. ASSUME NEW s \in Snaps, SyncSnap(s)
      PROVE  Noticed'
  <2>1. UNCHANGED <<snap, vs>> /\ cs' = [cs EXCEPT ![s] = snap[s]] /\ DOMAIN cs = Snaps /\ Disks \subseteq Snaps
    BY <1>7 DEF SyncSnap, TypeOK, Snaps
  <2>2. \A d \in Disks : cs'[d] = cs[d] \/ cs'[d] = snap[d]
    BY <2>1
  <2>3. \A d \in Disks : vs[d] = "new" => snap[d] # None
    BY NoneAssumption DEF RInv, Volumes, VolumeStates
  <2> QED BY <2>1, <2>2, <2>3, Zenon DEF Noticed
<1>8. ASSUME \/ \E d \in Disks : SyncVolume(d)
             \/ Report \/ Stop \/ Start \/ SyncVM \/ SyncInstance \/ UNCHANGED vars
      PROVE  Noticed'
  <2>1. UNCHANGED <<snap, cs, vs>>
    BY <1>8 DEF SyncVolume, Report, Stop, Start, SyncVM, SyncInstance, vars
  <2> QED BY <2>1 DEF Noticed
<1> QED BY <1>1, <1>2, <1>3, <1>4, <1>5, <1>6, <1>7, <1>8 DEF Next

\* A running guest is thawed by a reconcile only.
LEMMA ThawStep ==
    ASSUME TypeOK, [Next]_vars, guest, ~guest', kv' # None
    PROVE  (\E d \in Disks : DiskReconcile(d)) \/ (\E v \in VSnaps : MachineReconcile(v))
<1>1. Stop => kv' = None
  BY DEF Stop
<1> QED BY <1>1, Zenon DEF Next, vars, TakeSnapshot, SyncVolume, DeleteDisk, DeleteMachine, CollectOwner,
             CollectOwned, Create, SyncSnap, Report, Start, SyncVM, SyncInstance

\* Thawing spares what is in progress, in a single step.
LEMMA ThawSparesStep ==
    ASSUME TypeOK, RInv, Noticed, [Next]_vars, guest, ~guest', kv' # None,
           NEW d \in Disks, vs[d] = "new", ~snap[d].del
    PROVE  snap[d].phase # "InProgress"
<1>1. snap[d] # None /\ d \in Snaps
  BY NoneAssumption DEF RInv, Volumes, VolumeStates, Snaps
<1>4. /\ snap[d].phase = "InProgress" => cs[d] # None /\ cs[d].phase = "InProgress"
      /\ (cs[d] # None => ~cs[d].del) /\ cv[d] \notin {"clean", "dirty"}
  BY <1>1 DEF RInv, Volumes, Noticed
<1>2. ASSUME NEW s \in Disks, DiskReconcile(s)
      PROVE  snap[d].phase # "InProgress"
  <2>1. /\ cs[s] # None
        /\ \E o \in Outcomes : \E result \in CallResults(o.call), fin \in BOOLEAN :
             DiskEffect(s, o, result, fin)
    BY <1>2, DiskStep, Zenon
  <2>2. PICK o \in Outcomes : \E result \in CallResults(o.call), fin \in BOOLEAN :
          DiskEffect(s, o, result, fin)
    BY <2>1
  <2>3. PICK result \in CallResults(o.call), fin \in BOOLEAN : DiskEffect(s, o, result, fin)
    BY <2>2, Zenon
  <2>4. DiskDecides(s, o) /\ Asks(s, o) /\ CallInstance(o, result) /\ s \in Snaps
    BY <2>3, Zenon DEF DiskEffect, DiskDecides, Snaps
  <2>5. o.call = "unfreeze"
    BY <2>4, Called, Zenon
  <2>6. CASE d = s
    BY <1>4, <2>1, <2>4, <2>5, <2>6, Zenon DEF DiskDecides
  <2>7. CASE d # s
    BY <1>1, <1>4, <2>4, <2>5, <2>7, Zenon DEF Asks, InProgress
  <2> QED BY <2>6, <2>7
<1>3. ASSUME NEW s \in VSnaps, MachineReconcile(s)
      PROVE  snap[d].phase # "InProgress"
  <2>1. /\ cs[s] # None
        /\ \E o \in Outcomes : \E result \in CallResults(o.call), made \in SUBSET Own[s] :
             MachineEffect(s, o, result, made)
    BY <1>3, MachineStep, Zenon
  <2>2. PICK o \in Outcomes : \E result \in CallResults(o.call), made \in SUBSET Own[s] :
          MachineEffect(s, o, result, made)
    BY <2>1
  <2>3. PICK result \in CallResults(o.call), made \in SUBSET Own[s] : MachineEffect(s, o, result, made)
    BY <2>2
  <2>4. Asks(s, o) /\ CallInstance(o, result) /\ s \in Snaps /\ d # s
    BY <2>3, Owned, Zenon DEF MachineEffect, MachineDecides
  <2>5. o.call = "unfreeze"
    BY <2>4, Called, Zenon
  <2> QED BY <1>1, <1>4, <2>4, <2>5, Zenon DEF Asks, InProgress
<1> QED BY <1>2, <1>3, ThawStep

\* A running guest is thawed only when no disk snapshot in progress has its
\* volume still to be taken: CanUnfreeze... asks the cache, which has seen every
\* snapshot in progress that has come so far, however far it lags.
THEOREM ThawingSpares == Spec => ThawSpares
<1>1. TypeOK /\ RInv /\ Noticed /\ [Next]_vars =>
        [guest /\ ~guest' /\ kv' # None =>
           \A d \in Disks : vs[d] = "new" /\ ~snap[d].del => snap[d].phase # "InProgress"]_vars
  BY ThawSparesStep
<1>2. Init => Noticed
  <2>1. Init => \A d \in Disks : vs[d] = None /\ cs[d] = None /\ None # "new"
    BY NoneAssumption DEF Init, VolumeStates, Snaps
  <2> QED BY <2>1 DEF Noticed
<1>3. TypeOK /\ RInv /\ Noticed /\ [Next]_vars => Noticed'
  BY NoticedKept
<1> QED BY <1>1, <1>2, <1>3, Requirements, PTL DEF Spec, ThawSpares

-----------------------------------------------------------------------------
\* A frozen guest is attended, as long as no VM snapshot is deleted.

\* A frozen guest that a trusted copy reports is reported frozen.
LEMMA SeenFrozen ==
    ASSUME TypeOK, Honest, Fresh, guest, NEW o \in Outcomes, o.synced => Followed(ck),
           Trusted(Seen(o))
    PROVE  Frozen(Seen(o)) /\ kv # None /\ vm = "Running"
<1>1. ck = kv /\ kv # None /\ vm = "Running"
  BY DEF Fresh, Honest
<1>2. ck.fs = guest /\ Seen(o) # None /\ Seen(o).fs = ck.fs
  BY <1>1, TrustedStatus, SeenFields, Zenon
<1> QED BY <1>1, <1>2 DEF Frozen

\* A reconcile of a disk snapshot keeps it: who froze the guest is in progress,
\* and who is the last to leave thaws it first.
LEMMA DiskAttended ==
    ASSUME TypeOK, RInv, CInv, Attended, Prompt, NEW s \in Disks, DiskReconcile(s)
    PROVE  Attended'
<1>1. /\ UNCHANGED <<cs, cv, ck, vm, asked, power>> /\ cs[s] # None /\ Fresh
      /\ \E o \in Outcomes : \E result \in CallResults(o.call), fin \in BOOLEAN :
           DiskEffect(s, o, result, fin)
  BY DiskStep
<1>0. PICK o \in Outcomes : \E result \in CallResults(o.call), fin \in BOOLEAN :
        DiskEffect(s, o, result, fin)
  BY <1>1
<1>2. PICK result \in CallResults(o.call), fin \in BOOLEAN : DiskEffect(s, o, result, fin)
  BY <1>0
<1>3. /\ snap' \in [Snaps -> Object \cup {None}]
      /\ \A x \in Snaps \ {s} : snap'[x] = snap[x]
      /\ Saved(snap'[s], s, cs[s], o.phase, o.cons, fin)
      /\ fin = KeepsFinalizer(s, cs[s], result = "done")
      /\ s \in Snaps /\ Disks \subseteq Snaps
  BY <1>2, Zenon DEF DiskEffect, Snaps
<1>4. cs = snap /\ snap[s] \in Object /\ snap[s] # None /\ {snap[s].del, snap[s].fin} \subseteq BOOLEAN
  BY <1>1, <1>3, ObjectFields DEF Fresh, TypeOK
<1>5. snap'[s] # None =>
        /\ snap'[s].del <=> snap[s].del
        /\ snap'[s].phase = snap[s].phase \/ snap'[s].phase = o.phase
  <2>1. snap'[s] \in Object \cup {None} /\ s \in Snaps
    BY <1>3, Zenon DEF Snaps, Disks
  <2>2. snap'[s] # None => SavedAs(snap'[s], s, o.phase, o.cons)
    BY <1>1, <1>3, <2>1, SavedFields, Zenon
  <2> QED BY <1>1, <1>3, <2>2, Zenon DEF SavedAs
<1>6. /\ guest' # guest => o.call = IF guest' THEN "freeze" ELSE "unfreeze"
      /\ o.call = "unfreeze" /\ result = "done" => ~guest'
      /\ guest' \in BOOLEAN /\ guest \in BOOLEAN
  BY <1>2, <1>3, Called, Zenon DEF DiskEffect, DiskDecides, TypeOK
<1>7. DiskDecides(s, o) /\ (o.synced => Followed(ck))
  BY <1>2, Zenon DEF DiskEffect, DiskDecides, Asks
<1>8. \A v \in VSnaps \cap asked' : snap'[v] # None /\ ~snap'[v].del
  <2>1. \A v \in VSnaps : v \in Snaps /\ v # s
    BY Owned
  <2> QED BY <1>1, <1>3, <2>1, Zenon DEF Attended
<1>9. \A d \in Disks : snap'[d] # None /\ (Involved(snap'[d]) \/ snap'[d].del) => snap'[d].fin
  <2>1. ~snap[s].del => fin
    BY <1>3, <1>4, Zenon DEF KeepsFinalizer
  <2>2. snap[s].del => snap[s].fin
    BY <1>4, Zenon DEF Attended
  <2>3. snap'[s] # None =>
          \/ snap'[s].fin
          \/ /\ snap'[s].phase = snap[s].phase /\ snap'[s].del = snap[s].del
             /\ snap'[s].fin = snap[s].fin
    <3>1. CASE snap[s].del
      BY <1>3, <1>4, <2>2, <3>1, Zenon DEF Saved
    <3>2. CASE ~snap[s].del
      BY <1>3, <1>4, <2>1, <3>2, Zenon DEF Saved
    <3> QED BY <1>4, <3>1, <3>2, Zenon
  <2> QED BY <1>3, <1>4, <2>3, Zenon DEF Attended, Involved
<1>10. ASSUME guest'
       PROVE  \E x \in Snaps : Involved(snap'[x])
  <2>1. CASE ~guest
    <3>1. o.call = "freeze"
      BY <1>6, <1>10, <2>1, Zenon
    <3>2. /\ ~snap[s].del /\ snap[s].phase \in {"InProgress", "Terminating"} /\ o.phase = "InProgress"
      BY <1>4, <1>7, <3>1, Zenon DEF DiskDecides
    <3>3. snap'[s] # None
      BY <1>3, <1>4, <3>2, ObjectFields, Zenon DEF Saved
    <3> QED BY <1>3, <1>5, <3>2, <3>3, Zenon DEF Involved
  <2>2. CASE guest
    <3>1. PICK x \in Snaps : Involved(snap[x])
      BY <2>2 DEF Attended
    <3>2. CASE x # s
      BY <1>3, <3>1, <3>2, Zenon
    <3>3. CASE x = s /\ snap'[s] = None
      <4>1. cs[s].del /\ ~fin
        BY <1>3, <1>4, <3>3, ObjectFields, Zenon DEF Saved
      <4>2. Trusted(ck) /\ ~(DeletionCall(s, cs[s]) = "unfreeze" /\ result # "done")
        BY <1>3, <4>1, Zenon DEF KeepsFinalizer
      <4>3. o.call = DeletionCall(s, cs[s]) /\ Seen(o) = ck
        BY <1>7, <4>1, Zenon DEF DiskDecides
      <4>4. DeletionCall(s, cs[s]) # "unfreeze"
        BY <1>6, <1>10, <4>2, <4>3
      <4>5. Frozen(ck)
        BY <1>1, <1>7, <2>2, <4>2, <4>3, SeenFrozen DEF CInv
      <4>6. PICK y \in Snaps \ {s} : InProgress(y)
        BY <4>1, <4>2, <4>4, <4>5 DEF DeletionCall, CanUnfreezeWithVirtualDiskSnapshot
      <4> QED BY <1>3, <1>4, <4>6, Zenon DEF InProgress, Involved
    <3>4. CASE x = s /\ snap'[s] # None
      <4>1. CASE snap'[s].phase = "Ready"
        <5>1. o.phase = "Ready" /\ snap[s].phase # "Ready"
          BY <1>5, <3>1, <3>4, <4>1 DEF Involved
        <5>2. Trusted(Seen(o)) /\ (Frozen(Seen(o)) => \E y \in Snaps \ {s} : InProgress(y))
          BY <1>4, <1>7, <5>1, Zenon DEF DiskDecides
        <5>3. Frozen(Seen(o))
          BY <1>1, <1>7, <2>2, <5>2, SeenFrozen DEF CInv
        <5>4. PICK y \in Snaps \ {s} : InProgress(y)
          BY <5>2, <5>3
        <5> QED BY <1>3, <1>4, <5>4, Zenon DEF InProgress, Involved
      <4>2. CASE snap'[s].phase # "Ready"
        <5>1. o.phase \in {"InProgress", "Failed", "Terminating", "Ready"}
          BY <1>4, <1>7, <3>1, <3>4, Zenon DEF DiskDecides
        <5>2. Involved(snap'[s])
          BY <1>5, <3>1, <3>4, <4>2, <5>1, Zenon DEF Involved
        <5> QED BY <1>3, <5>2, Zenon
      <4> QED BY <4>1, <4>2
    <3> QED BY <3>2, <3>3, <3>4
  <2> QED BY <2>1, <2>2
<1> QED BY <1>8, <1>9, <1>10, Zenon DEF Attended, Involved

\* The same of a VM snapshot.
LEMMA MachineAttended ==
    ASSUME TypeOK, RInv, CInv, Attended, Prompt, NEW s \in VSnaps, MachineReconcile(s)
    PROVE  Attended'
<1>1. /\ UNCHANGED <<cs, vs, cv, ck, vm, power>> /\ cs[s] # None /\ Fresh
      /\ \E o \in Outcomes : \E result \in CallResults(o.call), made \in SUBSET Own[s] :
           MachineEffect(s, o, result, made)
  BY MachineStep, Zenon
<1>0. PICK o \in Outcomes : \E result \in CallResults(o.call), made \in SUBSET Own[s] :
        MachineEffect(s, o, result, made)
  BY <1>1, Zenon
<1>2. PICK result \in CallResults(o.call), made \in SUBSET Own[s] : MachineEffect(s, o, result, made)
  BY <1>0, Zenon
<1>3. /\ snap' \in [Snaps -> Object \cup {None}]
      /\ \A x \in Snaps \ ({s} \cup made) : snap'[x] = snap[x]
      /\ \A x \in made : snap'[x] = NewObject
      /\ Saved(snap'[s], s, cs[s], AfterCall(o, result), o.cons, cs[s].fin)
      /\ made \subseteq Disks /\ made \cap asked = {} /\ asked' = asked \cup made
      /\ s \in Snaps /\ s \notin Disks /\ Disks \subseteq Snaps
  BY <1>2, Owned, Zenon DEF MachineEffect, Snaps
<1>4. cs = snap /\ snap[s] \in Object /\ snap[s] # None /\ s \in asked
  BY <1>1, <1>3, ObjectFields, Zenon DEF Fresh, TypeOK, RInv, Named
<1>5. ~snap[s].del
  BY <1>4, Zenon DEF Attended
<1>6. snap'[s] # None
  BY <1>3, <1>4, <1>5, ObjectFields, Zenon DEF Saved
<1>7. ~snap'[s].del /\ (snap'[s].phase = snap[s].phase \/ snap'[s].phase = AfterCall(o, result))
  <2>1. cs[s] # None /\ snap'[s] \in Object \cup {None} /\ s \in Snaps
    BY <1>3, <1>4, Zenon
  <2>2. /\ snap[s] # None => (snap'[s].del <=> snap[s].del)
        /\ \/ snap'[s].phase = snap[s].phase
           \/ snap'[s].phase = AfterCall(o, result)
    <3>1. SavedAs(snap'[s], s, AfterCall(o, result), o.cons)
      BY <1>3, <1>6, <2>1, SavedFields, Zenon
    <3> QED BY <3>1, Zenon DEF SavedAs
  <2> QED BY <1>4, <1>5, <2>2, Zenon
<1>8. /\ guest' # guest => o.call = IF guest' THEN "freeze" ELSE "unfreeze"
      /\ guest' \in BOOLEAN /\ guest \in BOOLEAN
  BY <1>2, <1>3, Called, Zenon DEF MachineEffect, MachineDecides, TypeOK
<1>9. MachineDecides(s, o) /\ (o.synced => Followed(ck))
  BY <1>2, Zenon DEF MachineEffect, MachineDecides, Asks
<1>10. AfterCall(o, result) = o.phase \/ AfterCall(o, result) = "Failed"
  BY DEF AfterCall
<1>11. \A v \in VSnaps \cap asked' : snap'[v] # None /\ ~snap'[v].del
  <2>1. \A v \in VSnaps : v \in Snaps /\ v \notin Disks
    BY Owned, Zenon
  <2>2. \A v \in VSnaps \cap asked' : v \in asked /\ (v # s => snap'[v] = snap[v])
    BY <1>3, <2>1, Zenon
  <2> QED BY <1>6, <1>7, <2>2, Zenon DEF Attended
<1>12. \A d \in Disks : snap'[d] # None /\ (Involved(snap'[d]) \/ snap'[d].del) => snap'[d].fin
  <2>1. \A d \in Disks : snap'[d] = snap[d] \/ snap'[d] = NewObject
    BY <1>3, Zenon
  <2> QED BY <2>1, NewFields, Zenon DEF Attended, Involved
<1>13. ASSUME guest'
       PROVE  \E x \in Snaps : Involved(snap'[x])
  <2>1. CASE ~guest
    <3>1. o.call = "freeze"
      BY <1>8, <1>13, <2>1, Zenon
    <3>2. snap[s].phase \in {"InProgress", "Terminating"} /\ o.phase = "InProgress"
      BY <1>4, <1>9, <3>1, Zenon DEF MachineDecides
    <3> QED BY <1>3, <1>6, <1>7, <1>10, <3>2, Zenon DEF Involved
  <2>2. CASE guest
    <3>1. PICK x \in Snaps : Involved(snap[x])
      BY <2>2 DEF Attended
    <3>0. \A y \in Snaps : snap[y] # None => y \notin made
      BY <1>3, Zenon DEF RInv, Named
    <3>2. CASE x # s
      BY <1>3, <3>0, <3>1, <3>2, Zenon DEF Involved
    <3>3. CASE x = s
      <4>1. CASE snap'[s].phase = "Ready"
        <5>1. o.phase = "Ready" /\ snap[s].phase # "Ready"
          BY <1>7, <1>10, <3>1, <3>3, <4>1 DEF Involved
        <5>2. /\ Trusted(Seen(o))
              /\ vm = "Running" /\ Frozen(Seen(o)) => \E y \in Snaps \ {s} : InProgress(y)
          BY <1>4, <1>9, <5>1, Zenon DEF MachineDecides
        <5>3. Frozen(Seen(o)) /\ vm = "Running"
          BY <1>1, <1>9, <2>2, <5>2, SeenFrozen, Zenon DEF CInv
        <5>4. PICK y \in Snaps \ {s} : InProgress(y)
          BY <5>2, <5>3, Zenon
        <5>5. snap'[y] = snap[y]
          BY <1>3, <1>4, <3>0, <5>4, Zenon DEF InProgress
        <5> QED BY <1>4, <5>4, <5>5, Zenon DEF InProgress, Involved
      <4>2. CASE snap'[s].phase # "Ready"
        <5>1. o.phase \in {"InProgress", "Failed", "Terminating", "Ready"}
          BY <1>4, <1>9, <3>1, <3>3, Zenon DEF MachineDecides
        <5>2. Involved(snap'[s])
          BY <1>6, <1>7, <1>10, <3>1, <3>3, <4>2, <5>1, Zenon DEF Involved
        <5> QED BY <1>3, <5>2, Zenon
      <4> QED BY <4>1, <4>2
    <3> QED BY <3>2, <3>3, Zenon
  <2> QED BY <2>1, <2>2, Zenon
<1> QED BY <1>11, <1>12, <1>13, Zenon DEF Attended, Involved

\* Every step keeps it.
LEMMA AttendedKept ==
    ASSUME TypeOK, RInv, CInv, Attended, Prompt, VSnaps \cap Deletable = {}, [Next]_vars
    PROVE  Attended'
<1>1. ASSUME NEW d \in Disks, DiskReconcile(d)
      PROVE  Attended'
  BY <1>1, DiskAttended
<1>2. ASSUME NEW v \in VSnaps, MachineReconcile(v)
      PROVE  Attended'
  BY <1>2, MachineAttended
<1>3. ASSUME NEW d \in Disks, DeleteDisk(d) \/ \E v \in VSnaps : CollectOwned(v, d)
      PROVE  Attended'
  <2>1. /\ snap[d] # None
        /\ \/ snap'[d] = None /\ ~snap[d].fin
           \/ snap'[d] \in Object /\ snap'[d].phase = snap[d].phase /\ snap'[d].del /\ snap'[d].fin
        /\ \A x \in Snaps \ {d} : snap'[x] = snap[x]
        /\ UNCHANGED <<guest, asked>>
        /\ d \in Snaps /\ Disks \subseteq Snaps
    BY <1>3, DeletesDisk, Zenon DEF Deletes, Snaps
  <2>2. \A v \in VSnaps : v \in Snaps /\ v # d
    BY Owned
  <2>3. \A v \in VSnaps \cap asked' : snap'[v] # None /\ ~snap'[v].del
    BY <2>1, <2>2, Zenon DEF Attended
  <2>4. \A e \in Disks : snap'[e] # None /\ (Involved(snap'[e]) \/ snap'[e].del) => snap'[e].fin
    BY <2>1, Zenon DEF Attended
  <2>5. \A x \in Snaps : Involved(snap[x]) => Involved(snap'[x])
    BY <2>1, ObjectFields, Zenon DEF Attended, Involved
  <2> QED BY <2>1, <2>3, <2>4, <2>5, Zenon DEF Attended, Involved
<1>4. ASSUME NEW v \in VSnaps, DeleteMachine(v) \/ CollectOwner(v)
      PROVE  Attended'
  <2>1. v \in Snaps /\ snap[v] # None /\ (snap[v].del \/ v \in Deletable)
    BY <1>4 DEF DeleteMachine, CollectOwner, Snaps
  <2>2. v \in asked
    BY <2>1 DEF RInv, Named
  <2> QED BY <2>1, <2>2, Zenon DEF Attended
<1>5. ASSUME NEW s \in DSnaps \cup VSnaps, Create(s)
      PROVE  Attended'
  <2>1. /\ s \notin asked /\ asked' = asked \cup {s} /\ snap'[s] = NewObject
        /\ \A x \in Snaps \ {s} : snap'[x] = snap[x]
        /\ UNCHANGED guest /\ s \in Snaps /\ Disks \subseteq Snaps /\ VSnaps \subseteq Snaps
    BY <1>5, Zenon DEF Create, TypeOK, Snaps, Disks
  <2>2. snap[s] = None
    BY <2>1 DEF RInv, Named
  <2>3. \A x \in Snaps : Involved(snap[x]) => Involved(snap'[x])
    BY <2>1, <2>2 DEF Involved
  <2>4. \A v \in VSnaps \cap asked' : snap'[v] # None /\ ~snap'[v].del
    BY <2>1, NewFields, Zenon DEF Attended
  <2>5. \A d \in Disks : snap'[d] # None /\ (Involved(snap'[d]) \/ snap'[d].del) => snap'[d].fin
    BY <2>1, NewFields DEF Attended, Involved
  <2> QED BY <2>1, <2>3, <2>4, <2>5, Zenon DEF Attended, Involved
<1>6. ASSUME UNCHANGED <<snap, asked>>, guest' => guest
      PROVE  Attended'
  BY <1>6, Zenon DEF Attended, Involved
<1>7. ASSUME \/ \E d \in Disks : TakeSnapshot(d) \/ SyncVolume(d)
             \/ \E s \in Snaps : SyncSnap(s)
             \/ Report \/ Stop \/ Start \/ SyncVM \/ SyncInstance \/ UNCHANGED vars
      PROVE  Attended'
  BY <1>6, <1>7 DEF TakeSnapshot, SyncVolume, SyncSnap, Report, Stop, Start, SyncVM, SyncInstance, vars
<1> QED BY <1>1, <1>2, <1>3, <1>4, <1>5, <1>7 DEF Next

\* Once every snapshot is Ready and every cache up to date, the guest is not left
\* frozen, as long as the caches catch up before they are read and no VM snapshot
\* is deleted: whatever fails, and whichever disk snapshots are deleted.
THEOREM GuestThawed ==
    ASSUME Prompt = TRUE, VSnaps \cap Deletable = {}
    PROVE  Spec => []NotLeftFrozen
<1>1. Init => Attended
  BY DEF Init, Attended, Snaps
<1>2. TypeOK /\ RInv /\ CInv /\ Attended /\ [Next]_vars => Attended'
  BY AttendedKept
<1>3. Attended => NotLeftFrozen
  BY Zenon DEF Attended, Involved, NotLeftFrozen
<1> QED BY <1>1, <1>2, <1>3, AtRestWhenTaken, PTL DEF Spec

=============================================================================
