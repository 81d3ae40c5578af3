----------------------------- MODULE IPAMSafety -----------------------------
(***************************************************************************)
(* The safety of bound addresses: what a Bound vmip and its lease agree    *)
(* on, for every number of vmips, namespaces and addresses, and with       *)
(* restarts, as long as the names of vmips are not reused and their specs  *)
(* not edited (Once); and, from that, that the address controllers         *)
(* implement AddressRental.                                                *)
(***************************************************************************)
EXTENDS IPAMProofs

-----------------------------------------------------------------------------
\* How one step may change the reconcile in flight of either worker

\* the vmip worker goes on with the reconcile it is at
VKept ==
  /\ vw # None /\ vw'.n = vw.n /\ vw'.obj = vw.obj /\ vw'.addr = vw.addr
  /\ vw'.ok => vw.ok
  /\ vw'.pc = "lease" <=> vw.pc = "lease"
  /\ vw'.pc # "patch" => vw.pc # "patch"
  /\ vw'.reason = "Bound" => vw.reason = "Bound"
  /\ vw'.pc = "take" => vw.pc = "take" /\ vw'.a = vw.a /\ (vw'.lok => vw.lok)

LEMMA VWorkSteps ==
  ASSUME Once, TypeOK, [Next]_vars, vw' # None
  PROVE  (\E n \in Names : VReconcile(n)) \/ VBound \/ VKept
<1>1. vw # None => vw \in VWork
  BY DEF TypeOK
<1>2. UNCHANGED vw => VKept
  BY DEF VKept
<1>3. \A x : vw' = VWorker(x) \/ vw' = VWorkerL(x) => VKept
  BY VWorkerKeeps, VWorkerLKeeps, IdleWorkers DEF VKept
<1>4. ASSUME NEW n \in Names, NEW s, CreateVMIP(n, s) \/ DeleteVMIP(n) PROVE VKept
  BY <1>3, <1>4, ZenonT(60) DEF CreateVMIP, DeleteVMIP
<1>5. ASSUME NEW n \in Names, UseVMIP(n) \/ SyncVM(n) \/ SyncVMIP(n) PROVE VKept
  BY <1>2, <1>5 DEF UseVMIP, SyncVM, SyncVMIP
<1>6. ASSUME NEW a \in Addrs, SyncLease(a) \/ LReconcile(a) PROVE VKept
  BY <1>2, <1>6 DEF SyncLease, LReconcile
<1>7. ASSUME VTake \/ VTakeRefused \/ VCreate PROVE VKept
  BY <1>1, <1>7, Zenon DEF VTake, VTakeRefused, VCreate, VWork, VKept
<1>8. ASSUME VNoAddress \/ VCreateFails PROVE VKept
  BY <1>1, <1>8, ZenonT(60) DEF VNoAddress, VCreateFails, VWork, VKept
<1>9. ASSUME VStatus \/ VStatusRefused \/ VPatch PROVE VKept
  BY <1>1, <1>9, Zenon DEF VStatus, VStatusRefused, VPatch, VThenPatch, VWork, VKept
<1>10. ASSUME NEW b \in BOOLEAN, LHandle(b) PROVE VKept
  BY <1>2, <1>10 DEF LHandle
<1>11. ASSUME LDelete \/ LStatus \/ LStatusRefused \/ LPatch \/ LPatchRefused \/ LSpec PROVE VKept
  BY <1>2, <1>3, <1>11 DEF LDelete, LStatus, LStatusRefused, LPatch, LPatchRefused, LSpec
<1>12. ~Restart
  BY DEF Restart
<1>13. UNCHANGED vars => VKept
  BY <1>2 DEF vars
<1> QED
  BY ConstantsAssumption, NoEdits, <1>4, <1>5, <1>6, <1>7, <1>8, <1>9, <1>10, <1>11, <1>12, <1>13
  DEF Next, Users, Sync, VController, LController

\* the lease worker goes on with the reconcile it is at
LKept ==
  /\ lw # None /\ lw'.a = lw.a /\ lw'.cur = lw.cur /\ lw'.chg = lw.chg
  /\ lw'.pc = "vmip" <=> lw.pc = "vmip"
  /\ lw'.pc = "delete" => lw.pc = "delete"
  /\ lw'.ok /\ lw'.pc \in {"vmip", "delete", "status"}
       => lw.ok /\ lw.pc \in {"vmip", "delete", "status"}

LEMMA LWorkSteps ==
  ASSUME Once, TypeOK, [Next]_vars, lw' # None
  PROVE  (\E a \in Addrs : LReconcile(a)) \/ (\E b \in BOOLEAN : LHandle(b)) \/ LKept
<1>1. lw # None => lw \in LWork
  BY DEF TypeOK
<1>2. UNCHANGED lw => LKept
  BY DEF LKept
<1>3. \A x : lw' = LWorker(x) => LKept
  BY LWorkerKeeps, IdleWorkers DEF LKept
<1>4. ASSUME NEW n \in Names, NEW s, CreateVMIP(n, s) \/ DeleteVMIP(n) PROVE LKept
  BY <1>2, <1>4, ZenonT(60) DEF CreateVMIP, DeleteVMIP
<1>5. ASSUME NEW n \in Names, UseVMIP(n) \/ SyncVM(n) \/ SyncVMIP(n) \/ VReconcile(n) PROVE LKept
  BY <1>2, <1>5, ZenonT(60) DEF UseVMIP, SyncVM, SyncVMIP, VReconcile
<1>6. ASSUME NEW a \in Addrs, SyncLease(a) PROVE LKept
  BY <1>2, <1>6 DEF SyncLease
<1>7. ASSUME VTake \/ VCreate PROVE LKept
  BY <1>3, <1>7 DEF VTake, VCreate
<1>8. ASSUME VBound \/ VTakeRefused \/ VNoAddress \/ VCreateFails \/ VStatus \/ VStatusRefused \/ VPatch
      PROVE  LKept
  BY <1>2, <1>8, Zenon DEF VBound, VTakeRefused, VNoAddress, VCreateFails, VStatus, VStatusRefused, VPatch
<1>9. ASSUME LDelete PROVE LKept
  BY <1>1, <1>9, Zenon DEF LDelete, LWork, LKept
<1>10. ASSUME LStatus \/ LPatch PROVE LKept
  BY <1>1, <1>10, ZenonT(60) DEF LStatus, LPatch, LWork, LKept
<1>11. ~(LStatusRefused \/ LPatchRefused \/ LSpec \/ Restart)
  BY DEF LStatusRefused, LPatchRefused, LSpec, Restart
<1>12. UNCHANGED vars => LKept
  BY <1>2 DEF vars
<1> QED
  BY ConstantsAssumption, NoEdits, <1>4, <1>5, <1>6, <1>7, <1>8, <1>9, <1>10, <1>11, <1>12
  DEF Next, Users, Sync, VController, LController

\* How one step may change a lease: the vmip worker takes it or creates it, or
\* the lease worker deletes it or writes its status, its metadata or its spec
Taken(a) ==
  /\ vw # None /\ vw.pc = "take" /\ vw.lok /\ vw.a = a
  /\ lease[a] # None /\ lease'[a] # None
  /\ lease'[a].name = vw.n /\ lease'[a].ns = NamespaceOf[vw.n] /\ ~lease'[a].obs
  /\ lease'[a].del = lease[a].del /\ lease'[a].fin = lease[a].fin

Created(a) == vw # None /\ lease[a] = None /\ lease'[a] = NewLease(vw.n, vw.obj.uid)

DeletionWritten(a) ==
  /\ lw.pc = "delete"
  /\ lease'[a] # None => /\ lease'[a].name = lease[a].name /\ lease'[a].ns = lease[a].ns
                         /\ lease'[a].fin /\ ~lease'[a].obs

StatusWritten(a) ==
  /\ lw.pc = "status" /\ lw.ok /\ lw' # None /\ lw'.pc = "patch"
  /\ lw'.a = a /\ lw'.cur = lw.cur /\ lw'.chg = lw.chg
  /\ lease'[a] # None /\ lease'[a].name = lease[a].name /\ lease'[a].ns = lease[a].ns
  /\ lease'[a].cond = lw.chg.cond /\ lease'[a].del = lease[a].del /\ lease'[a].fin = lease[a].fin

MetadataWritten(a) ==
  /\ lw.pc = "patch"
  /\ lease'[a] = None => lease[a].del /\ (lw.chg.fin => ~lease[a].fin)
  /\ lease'[a] # None =>
       /\ lease'[a].name = lease[a].name /\ lease'[a].ns = lease[a].ns
       /\ lease'[a].cond = lease[a].cond /\ lease'[a].obs = lease[a].obs
       /\ lease'[a].del => lease'[a].fin

SpecWritten(a) ==
  /\ lw.pc = "spec" /\ lw.chg.name # lw.cur.name /\ lease'[a] # None
  /\ lease'[a].name = lw.chg.name /\ lease'[a].ns = lease[a].ns /\ ~lease'[a].obs
  /\ lease'[a].del = lease[a].del /\ lease'[a].fin = lease[a].fin

WrittenByL(a) ==
  /\ lw # None /\ lw.a = a /\ lease[a] # None
  /\ DeletionWritten(a) \/ StatusWritten(a) \/ MetadataWritten(a) \/ SpecWritten(a)

\* and the copies that are out of date after it
Outdated(a) ==
  /\ UNCHANGED clease /\ a \notin freshL'
  /\ \A b \in Addrs : b # a => lease'[b] = lease[b]
  /\ vw' # None /\ vw'.lok => vw'.a # a
  /\ lw' # None /\ lw'.a = a /\ lw'.ok => lw'.pc \notin {"vmip", "delete", "status"}

LEMMA PatchedAway ==
  ASSUME TypeOK, lw # None, NEW l \in Lease, Patched(l) = None
  PROVE  l.del /\ (lw.chg.fin => ~l.fin)
<1> DEFINE u == IF LabelsChanged THEN lw.chg.uid ELSE l.uid
           f == IF LFinChanged THEN lw.chg.fin ELSE l.fin
           k == [l EXCEPT !.uid = u]
<1>1. lw.chg \in Lease
  BY LWorkFields DEF TypeOK
<1>2. u \in UIDs \cup {None} /\ f \in BOOLEAN
  BY <1>1, LeaseFields, Zenon
<1>3. k \in Lease /\ k.del = l.del
  BY <1>2, Zenon DEF Lease
<1>4. [k EXCEPT !.fin = f] \in Lease
  BY <1>2, <1>3, ZenonT(60) DEF Lease
<1>5. Patched(l) = Finalized(k, f)
  BY Zenon DEF Patched, Lease
<1> HIDE DEF k
<1>6. k.del /\ ~f
  BY <1>4, <1>5, NoneAssumption DEF Finalized
<1> QED BY <1>1, <1>3, <1>6, LeaseFields, Zenon

LEMMA LeaseSteps ==
  ASSUME Once, TypeOK, CurrentCopies, [Next]_vars, NEW a \in Addrs, lease'[a] # lease[a]
  PROVE  Outdated(a) /\ (Taken(a) \/ Created(a) \/ WrittenByL(a))
<1>1. lw # None => lw \in LWork /\ lw.a \in Addrs
  BY LWorkFields DEF TypeOK
<1>2. vw # None => vw \in VWork /\ vw.n \in Names
  BY VWorkFields DEF TypeOK
<1>3. lease[a] # None => lease[a] \in Lease
  BY DEF TypeOK
<1>4. ASSUME NEW b \in Addrs, NEW l, PutLease(b, l)
      PROVE  a = b /\ lease'[a] = l /\ a \notin freshL' /\ \A c \in Addrs : c # a => lease'[c] = lease[c]
  BY <1>4 DEF PutLease, TypeOK
<1>5. vw' = VWorkerL(a) => (vw' # None /\ vw'.lok => vw'.a # a)
  BY VWorkerLKeeps, IdleWorkers
<1>6. lw' = LWorker(a) => (lw' # None /\ lw'.a = a => ~lw'.ok)
  BY LWorkerKeeps, IdleWorkers
<1>7. ASSUME VTake PROVE Outdated(a) /\ Taken(a)
  <2>1. vw # None /\ vw.pc = "take" /\ vw.lok /\ vw.a \in Addrs /\ lease[vw.a] # None
    BY <1>2, <1>7, VWorkFields DEF VTake, CurrentCopies
  <2> DEFINE l == [lease[vw.a] EXCEPT !.ns = NamespaceOf[vw.n], !.name = vw.n, !.uid = vw.obj.uid, !.obs = FALSE]
  <2>2. PutLease(vw.a, l) /\ lw' = LWorker(vw.a) /\ clease' = clease
    BY <1>7 DEF VTake
  <2>3. a = vw.a /\ lease'[a] = l /\ a \notin freshL' /\ \A b \in Addrs : b # a => lease'[b] = lease[b]
    BY <1>4, <2>1, <2>2
  <2>4. /\ l.name = vw.n /\ l.ns = NamespaceOf[vw.n] /\ ~l.obs
        /\ l.del = lease[a].del /\ l.fin = lease[a].fin
    BY <1>3, <2>1, <2>3, Zenon DEF Lease
  <2>5. l # None
    <3>1. vw.obj.uid \in UIDs /\ NamespaceOf[vw.n] \in {NamespaceOf[n] : n \in Names}
      BY <1>2, <2>1, VWorkFields, VMIPFields
    <3>2. l \in Lease
      BY <1>2, <1>3, <2>1, <2>3, <3>1, Zenon DEF Lease
    <3> QED BY <3>2, NoneAssumption
  <2>6. vw' # None => ~vw'.lok
    BY <1>2, <1>7, <2>1 DEF VTake, VWork
  <2> QED BY <1>6, <2>1, <2>2, <2>3, <2>4, <2>5, <2>6 DEF Outdated, Taken
<1>8. ASSUME VCreate PROVE Outdated(a) /\ Created(a)
  <2>1. PICK ip \in Addrs : /\ lease[ip] = None /\ PutLease(ip, NewLease(vw.n, vw.obj.uid))
                            /\ lw' = LWorker(ip)
    BY <1>8 DEF VCreate
  <2>2. /\ a = ip /\ lease'[a] = NewLease(vw.n, vw.obj.uid) /\ a \notin freshL'
        /\ \A b \in Addrs : b # a => lease'[b] = lease[b]
    BY <1>4, <2>1
  <2>3. vw # None /\ ~vw'.lok /\ clease' = clease
    BY <1>2, <1>8 DEF VCreate, VWork, CurrentCopies
  <2> QED BY <1>6, <2>1, <2>2, <2>3 DEF Outdated, Created
<1>9. ASSUME LDelete PROVE Outdated(a) /\ WrittenByL(a)
  <2>1. lw # None /\ lw.pc = "delete" /\ clease' = clease
    BY <1>9 DEF LDelete
  <2>2. /\ lease[lw.a] # None /\ PutLease(lw.a, Deleted(lease[lw.a]))
        /\ vw' = VWorkerL(lw.a) /\ lw' = [lw EXCEPT !.pc = "status", !.ok = FALSE]
    BY <1>9 DEF LDelete
  <2>3. /\ a = lw.a /\ lease'[a] = Deleted(lease[a]) /\ a \notin freshL'
        /\ \A b \in Addrs : b # a => lease'[b] = lease[b]
    BY <1>1, <1>4, <2>1, <2>2
  <2>4. ~lw'.ok
    BY <1>1, <2>1, <2>2, Zenon DEF LWork
  <2>5. DeletionWritten(a)
    BY <1>3, <2>1, <2>2, <2>3, DeletedKeeps DEF DeletionWritten
  <2> QED BY <1>5, <2>1, <2>2, <2>3, <2>4, <2>5 DEF Outdated, WrittenByL
<1>10. ASSUME LStatus PROVE Outdated(a) /\ WrittenByL(a)
  <2>1. /\ lw # None /\ lw.pc = "status" /\ clease' = clease
        /\ lw' = [lw EXCEPT !.pc = "patch"]
    BY <1>10 DEF LStatus
  <2> DEFINE l == [lease[lw.a] EXCEPT !.cond = lw.chg.cond, !.obs = TRUE]
  <2>2. /\ lease[lw.a] # None /\ lw.ok /\ PutLease(lw.a, l) /\ vw' = VWorkerL(lw.a)
    BY <1>10 DEF LStatus
  <2>3. a = lw.a /\ lease'[a] = l /\ a \notin freshL' /\ \A b \in Addrs : b # a => lease'[b] = lease[b]
    BY <1>1, <1>4, <2>1, <2>2
  <2>4. lw' # None /\ lw'.pc = "patch" /\ lw'.a = lw.a /\ lw'.cur = lw.cur /\ lw'.chg = lw.chg
    <3>1. lw' \in LWork
      BY <1>1, <2>1, Zenon DEF LWork
    <3> QED BY <1>1, <2>1, <3>1, NoneAssumption, Zenon DEF LWork
  <2>5. /\ l.name = lease[a].name /\ l.ns = lease[a].ns /\ l.cond = lw.chg.cond
        /\ l.del = lease[a].del /\ l.fin = lease[a].fin
    BY <1>3, <2>2, <2>3, Zenon DEF Lease
  <2>6. l # None
    <3>1. lw.chg.cond \in {"", "Bound", "Released"}
      BY <1>1, <2>1, LWorkFields, LeaseFields, Zenon
    <3>2. l \in Lease
      BY <1>3, <2>2, <2>3, <3>1, Zenon DEF Lease
    <3> QED BY <3>2, NoneAssumption
  <2> QED BY <1>5, <2>1, <2>2, <2>3, <2>4, <2>5, <2>6 DEF Outdated, WrittenByL, StatusWritten
<1>11. ASSUME LPatch PROVE Outdated(a) /\ WrittenByL(a)
  <2>1. lw # None /\ lw.pc = "patch" /\ clease' = clease
    BY <1>11 DEF LPatch
  <2>2. /\ lease[lw.a] # None /\ PutLease(lw.a, Patched(lease[lw.a]))
        /\ vw' = VWorkerL(lw.a) /\ lw' = [lw EXCEPT !.pc = "spec", !.ok = TRUE]
    BY <1>11 DEF LPatch
  <2>3. /\ a = lw.a /\ lease'[a] = Patched(lease[a]) /\ a \notin freshL'
        /\ \A b \in Addrs : b # a => lease'[b] = lease[b]
    BY <1>1, <1>4, <2>1, <2>2
  <2>4. lw'.pc = "spec"
    BY <1>1, <2>1, <2>2, Zenon DEF LWork
  <2>5. MetadataWritten(a)
    BY <1>3, <2>1, <2>2, <2>3, PatchedKeeps, PatchedAway DEF MetadataWritten
  <2> QED BY <1>5, <2>1, <2>2, <2>3, <2>4, <2>5 DEF Outdated, WrittenByL
<1>12. ASSUME LSpec PROVE Outdated(a) /\ WrittenByL(a)
  <2>1. lw # None /\ lw.pc = "spec" /\ clease' = clease /\ lw' = None
    BY <1>12 DEF LSpec
  <2> DEFINE l == [lease[lw.a] EXCEPT !.name = lw.chg.name, !.obs = FALSE]
  <2>2. lease[lw.a] # None /\ lw.chg.name # lw.cur.name /\ PutLease(lw.a, l) /\ vw' = VWorkerL(lw.a)
    BY <1>12 DEF LSpec
  <2>3. a = lw.a /\ lease'[a] = l /\ a \notin freshL' /\ \A b \in Addrs : b # a => lease'[b] = lease[b]
    BY <1>1, <1>4, <2>1, <2>2
  <2>4. /\ l.name = lw.chg.name /\ l.ns = lease[a].ns /\ ~l.obs
        /\ l.del = lease[a].del /\ l.fin = lease[a].fin
    BY <1>3, <2>2, <2>3, Zenon DEF Lease
  <2>5. l # None
    <3>1. lw.chg.name \in Names \cup {None}
      BY <1>1, <2>1, LWorkFields, LeaseFields, Zenon
    <3>2. l \in Lease
      BY <1>3, <2>2, <2>3, <3>1, Zenon DEF Lease
    <3> QED BY <3>2, NoneAssumption
  <2> QED BY <1>5, <2>1, <2>2, <2>3, <2>4, <2>5 DEF Outdated, WrittenByL, SpecWritten
\* no other step touches a lease
<1>13. ASSUME UNCHANGED lease PROVE FALSE
  BY <1>13
<1>14. ASSUME NEW n \in Names, NEW s,
              CreateVMIP(n, s) \/ DeleteVMIP(n) \/ UseVMIP(n) \/ SyncVM(n) \/ SyncVMIP(n) \/ VReconcile(n)
       PROVE  FALSE
  BY <1>13, <1>14, ZenonT(60) DEF CreateVMIP, DeleteVMIP, UseVMIP, SyncVM, SyncVMIP, VReconcile
<1>15. ASSUME NEW b \in Addrs, SyncLease(b) \/ LReconcile(b) PROVE FALSE
  BY <1>13, <1>15 DEF SyncLease, LReconcile
<1>16. ~VBound /\ ~VTakeRefused /\ ~VNoAddress /\ ~VCreateFails /\ ~VStatus /\ ~VStatusRefused /\ ~VPatch
  BY <1>13, Zenon DEF VBound, VTakeRefused, VNoAddress, VCreateFails, VStatus, VStatusRefused, VPatch
<1>17. ASSUME NEW b \in BOOLEAN, LHandle(b) PROVE FALSE
  BY <1>13, <1>17, SMTT(30) DEF LHandle
<1>18. ~LStatusRefused /\ ~LPatchRefused /\ ~Restart /\ ~UNCHANGED vars
  BY <1>13, SMTT(30) DEF LStatusRefused, LPatchRefused, Restart, vars
<1> QED
  BY ConstantsAssumption, NoEdits, <1>7, <1>8, <1>9, <1>10, <1>11, <1>12, <1>14, <1>15, <1>16, <1>17, <1>18, SMTT(60)
  DEF Next, Users, Sync, VController, LController

\* How one step may change a vmip: it is created, deleted, or its status or its
\* finalizer is written
Appears(n) == inc[n] = 0 /\ vmip'[n] # None /\ vmip'[n].addr = None /\ vmip'[n].reason = ""
MetadataChanged(n) ==
  /\ vmip[n] # None
  /\ vmip'[n] # None => /\ vmip'[n].addr = vmip[n].addr /\ vmip'[n].reason = vmip[n].reason
                        /\ vmip'[n].want = vmip[n].want
StatusChanged(n) ==
  /\ vmip[n] # None /\ vmip'[n] # None
  /\ vw # None /\ vw.n = n /\ vw.ok /\ vw.pc = "update"
  /\ vmip'[n].addr = vw.addr /\ vmip'[n].reason = vw.reason /\ vmip'[n].want = vw.obj.want

LEMMA VMIPSteps ==
  ASSUME Once, TypeOK, [Next]_vars, NEW n \in Names, vmip'[n] # vmip[n]
  PROVE  /\ n \notin freshV' /\ UNCHANGED <<cvmip, lease, clease, lw>>
         /\ vw' # None /\ vw'.n = n /\ vw'.ok => vw'.pc = "patch"
         /\ \A m \in Names : m # n => vmip'[m] = vmip[m]
         /\ Appears(n) \/ MetadataChanged(n) \/ StatusChanged(n)
<1>1. vw # None => vw \in VWork /\ vw.n \in Names /\ vw.obj \in VMIP
  BY VWorkFields DEF TypeOK
<1>2. vmip[n] # None => vmip[n] \in VMIP
  BY DEF TypeOK
<1>3. ASSUME NEW m \in Names, NEW o, PutVMIP(m, o)
      PROVE  n = m /\ vmip'[n] = o /\ n \notin freshV' /\ \A k \in Names : k # n => vmip'[k] = vmip[k]
  BY <1>3 DEF PutVMIP, TypeOK
<1>4. vw' = VWorker(n) => (vw' # None /\ vw'.n = n => ~vw'.ok)
  BY VWorkerKeeps, IdleWorkers
<1> DEFINE Goal == /\ n \notin freshV' /\ UNCHANGED <<cvmip, lease, clease, lw>>
                   /\ vw' # None /\ vw'.n = n /\ vw'.ok => vw'.pc = "patch"
                   /\ \A m \in Names : m # n => vmip'[m] = vmip[m]
                   /\ Appears(n) \/ MetadataChanged(n) \/ StatusChanged(n)
<1>5. ASSUME NEW m \in Names, NEW s \in Requests, CreateVMIP(m, s) PROVE Goal
  <2> DEFINE o == [uid |-> <<m, inc[m] + 1>>, want |-> s, fin |-> FALSE, del |-> FALSE,
                   addr |-> None, reason |-> "", att |-> FALSE, obs |-> FALSE]
  <2>1. PutVMIP(m, o) /\ vw' = VWorker(m) /\ inc[m] < MaxInc /\ UNCHANGED <<cvmip, lease, clease, lw>>
    BY <1>5, ZenonT(60) DEF CreateVMIP
  <2>2. n = m /\ vmip'[n] = o /\ n \notin freshV' /\ \A k \in Names : k # n => vmip'[k] = vmip[k]
    BY <1>3, <2>1, ZenonT(60)
  <2>3. o.addr = None /\ o.reason = ""
    OBVIOUS
  <2>4. inc[n] \in 0 .. 1 /\ inc[n] < 1
    BY <2>1, <2>2, ZenonT(60) DEF TypeOK, Once
  <2>5. inc[n] = 0
    BY <2>4
  <2>6. o # None
    <3>0. inc[m] = 0 /\ MaxInc = 1
      BY <2>2, <2>5, Zenon DEF Once
    <3>1. inc[m] + 1 \in 1 .. MaxInc
      BY <3>0
    <3>2. s \in Addrs \cup {AnyIP}
      BY ConstantsAssumption
    <3>3. o \in VMIP
      BY <3>1, <3>2, ZenonT(60) DEF VMIP, UIDs, Reasons
    <3> QED BY <3>3, NoneAssumption, Zenon
  <2> HIDE DEF o
  <2> QED BY <1>4, <2>1, <2>2, <2>3, <2>5, <2>6, ZenonT(60) DEF Appears
<1>6. ASSUME NEW m \in Names, DeleteVMIP(m) PROVE Goal
  <2>1. /\ vmip[m] # None /\ PutVMIP(m, Deleted(vmip[m])) /\ vw' = VWorker(m)
        /\ UNCHANGED <<cvmip, lease, clease, lw>>
    BY <1>6 DEF DeleteVMIP
  <2>2. /\ n = m /\ vmip'[n] = Deleted(vmip[n]) /\ n \notin freshV'
        /\ \A k \in Names : k # n => vmip'[k] = vmip[k]
    BY <1>3, <2>1
  <2>3. MetadataChanged(n)
    <3>1. vmip'[n] # None => vmip'[n] = [vmip[n] EXCEPT !.del = TRUE, !.obs = FALSE]
      BY <2>2 DEF Deleted
    <3> QED BY <1>2, <2>1, <2>2, <3>1, Zenon DEF MetadataChanged, VMIP
  <2> QED BY <1>4, <2>1, <2>2, <2>3
<1>7. ASSUME VStatus PROVE Goal
  <2>1. vw # None /\ vw.pc = "update" /\ UNCHANGED <<cvmip, lease, clease, lw>>
    BY <1>7 DEF VStatus
  <2>2. vmip[vw.n] # None /\ vw.ok /\ PutVMIP(vw.n, Handled(vw))
    BY <1>7 DEF VStatus
  <2>3. /\ n = vw.n /\ vmip'[n] = Handled(vw) /\ n \notin freshV'
        /\ \A k \in Names : k # n => vmip'[k] = vmip[k]
    BY <1>1, <1>3, <2>1, <2>2
  <2>4. /\ Handled(vw).addr = vw.addr /\ Handled(vw).reason = vw.reason
        /\ Handled(vw).want = vw.obj.want
    BY <1>1, <2>1, ZenonT(60) DEF Handled, VMIP
  <2>5. Handled(vw) # None
    <3>1. vw.addr \in Addrs \cup {None} /\ vw.reason \in Reasons
      BY <1>1, <2>1, VWorkFields
    <3>2. (vw.n \in cInUse) \in BOOLEAN
      OBVIOUS
    <3>3. Handled(vw) \in VMIP
      BY <1>1, <2>1, <3>1, <3>2, Zenon DEF Handled, VMIP
    <3> QED BY <3>3, NoneAssumption
  <2>6. vw' # None => vw'.pc = "patch"
    BY <1>1, <1>7, <2>1 DEF VStatus, VThenPatch, VWork
  <2> QED BY <2>1, <2>2, <2>3, <2>4, <2>5, <2>6, SMTT(30) DEF StatusChanged
<1>8. ASSUME VPatch PROVE Goal
  <2>1. vw # None /\ vw' = None /\ UNCHANGED <<cvmip, lease, clease, lw>>
    BY <1>8 DEF VPatch
  <2>2. vmip[vw.n] # None /\ PutVMIP(vw.n, Finalized(vmip[vw.n], vw.fin))
    BY <1>8 DEF VPatch
  <2>3. /\ n = vw.n /\ vmip'[n] = Finalized(vmip[n], vw.fin) /\ n \notin freshV'
        /\ \A k \in Names : k # n => vmip'[k] = vmip[k]
    BY <1>1, <1>3, <2>1, <2>2
  <2>4. MetadataChanged(n)
    <3>1. vmip'[n] # None => vmip'[n] = [vmip[n] EXCEPT !.fin = vw.fin]
      BY <2>3 DEF Finalized
    <3> QED BY <1>2, <2>2, <2>3, <3>1, Zenon DEF MetadataChanged, VMIP
  <2> QED BY <2>1, <2>3, <2>4
<1>9. ASSUME UNCHANGED vmip PROVE FALSE
  BY <1>9
<1>10. ASSUME NEW m \in Names, UseVMIP(m) \/ SyncVM(m) \/ SyncVMIP(m) \/ VReconcile(m) PROVE FALSE
  BY <1>9, <1>10, ZenonT(60) DEF UseVMIP, SyncVM, SyncVMIP, VReconcile
<1>11. ASSUME NEW b \in Addrs, SyncLease(b) \/ LReconcile(b) PROVE FALSE
  BY <1>9, <1>11 DEF SyncLease, LReconcile
<1>12. ~VBound /\ ~VTake /\ ~VTakeRefused /\ ~VCreate /\ ~VNoAddress /\ ~VCreateFails /\ ~VStatusRefused
  BY <1>9, Zenon DEF VBound, VTake, VTakeRefused, VCreate, VNoAddress, VCreateFails, VStatusRefused
<1>13. ASSUME NEW b \in BOOLEAN, LHandle(b) PROVE FALSE
  BY <1>9, <1>13 DEF LHandle
<1>14. ~LDelete /\ ~LStatus /\ ~LPatch /\ ~LSpec /\ ~LStatusRefused /\ ~LPatchRefused
  BY <1>9 DEF LDelete, LStatus, LPatch, LSpec, LStatusRefused, LPatchRefused
<1>15. ~Restart /\ ~UNCHANGED vars
  BY <1>9 DEF Restart, vars
<1> QED
  BY ConstantsAssumption, NoEdits, <1>5, <1>6, <1>7, <1>8, <1>10, <1>11, <1>12, <1>13, <1>14, <1>15, ZenonT(60)
  DEF Next, Users, Sync, VController, LController

\* How one step may change the cache: the latest version of an object arrives
LEMMA CacheSteps ==
  ASSUME Once, TypeOK, [Next]_vars
  PROVE  /\ \A n \in Names : cvmip'[n] # cvmip[n] => cvmip'[n] = vmip[n] /\ vmip'[n] = vmip[n]
         /\ \A a \in Addrs : clease'[a] # clease[a] =>
              clease'[a] = lease[a] /\ UNCHANGED <<lease, vmip>> /\ (UNCHANGED lw \/ lw' = None)
         /\ \A n \in freshV' : n \in freshV \/ cvmip'[n] = vmip'[n]
<1> DEFINE Goal ==
      /\ \A n \in Names : cvmip'[n] # cvmip[n] => cvmip'[n] = vmip[n] /\ vmip'[n] = vmip[n]
      /\ \A a \in Addrs : clease'[a] # clease[a] =>
           clease'[a] = lease[a] /\ UNCHANGED <<lease, vmip>> /\ (UNCHANGED lw \/ lw' = None)
      /\ \A n \in freshV' : n \in freshV \/ cvmip'[n] = vmip'[n]
<1>1. UNCHANGED <<cvmip, clease>> /\ freshV' \subseteq freshV => Goal
  OBVIOUS
<1>2. ASSUME NEW n \in Names, NEW s, CreateVMIP(n, s) \/ DeleteVMIP(n) PROVE Goal
  BY <1>1, <1>2, ZenonT(60) DEF CreateVMIP, DeleteVMIP, PutVMIP
<1>3. ASSUME NEW n \in Names, UseVMIP(n) \/ SyncVM(n) \/ VReconcile(n) PROVE Goal
  BY <1>1, <1>3, ZenonT(60) DEF UseVMIP, SyncVM, VReconcile
<1>4. ASSUME NEW n \in Names, SyncVMIP(n) PROVE Goal
  BY <1>4 DEF SyncVMIP, TypeOK
<1>5. ASSUME NEW a \in Addrs, SyncLease(a) PROVE Goal
  BY <1>5, SMTT(30) DEF SyncLease, TypeOK
<1>6. ASSUME NEW a \in Addrs, LReconcile(a) PROVE Goal
  BY <1>1, <1>6 DEF LReconcile
<1>7. ASSUME VBound \/ VTake \/ VTakeRefused \/ VCreate \/ VNoAddress \/ VCreateFails \/ VStatusRefused
      PROVE  Goal
  BY <1>1, <1>7, ZenonT(60) DEF VBound, VTake, VTakeRefused, VCreate, VNoAddress, VCreateFails, VStatusRefused
<1>8. ASSUME VStatus \/ VPatch PROVE Goal
  BY <1>1, <1>8 DEF VStatus, VPatch, PutVMIP
<1>9. ASSUME NEW b \in BOOLEAN, LHandle(b) PROVE Goal
  BY <1>1, <1>9 DEF LHandle
<1>10. ASSUME LDelete \/ LStatus \/ LStatusRefused \/ LPatch \/ LPatchRefused \/ LSpec PROVE Goal
  BY <1>1, <1>10, SMTT(30) DEF LDelete, LStatus, LStatusRefused, LPatch, LPatchRefused, LSpec
<1>11. ASSUME Restart PROVE Goal
  BY <1>11, SMTT(30) DEF Restart
<1>12. UNCHANGED vars => Goal
  BY <1>1 DEF vars
<1> QED
  BY ConstantsAssumption, NoEdits, <1>2, <1>3, <1>4, <1>5, <1>6, <1>7, <1>8, <1>9, <1>10, <1>11, <1>12, ZenonT(60)
  DEF Next, Users, Sync, VController, LController

-----------------------------------------------------------------------------
\* The conjuncts of Inv, one after the other

LEMMA NextLeaseHandled ==
  ASSUME Once, TypeOK, LeaseHandled, [Next]_vars PROVE LeaseHandled'
<1> SUFFICES ASSUME lw' # None, lw'.pc # "vmip" PROVE LeaseHandled'
  BY DEF LeaseHandled
<1>1. CASE \E a \in Addrs : LReconcile(a)
  BY <1>1 DEF LReconcile
<1>2. CASE \E b \in BOOLEAN : LHandle(b)
  <2>1. PICK b \in BOOLEAN : LHandle(b)
    BY <1>2
  <2> DEFINE l == LeaseHandlers(lw.a, lw.cur)
  <2>2. lw \in LWork /\ lw.cur \in Lease
    BY <2>1, LWorkFields DEF LHandle, TypeOK
  <2>3. /\ b => Expirable(lw.cur, l)
        /\ lw' = [lw EXCEPT !.pc = IF b THEN "delete" ELSE "status", !.chg = l]
    BY <2>1 DEF LHandle
  <2>4. lw'.cur = lw.cur /\ lw'.chg = l /\ (lw'.pc = "delete" => b)
    BY <2>2, <2>3, ZenonT(60) DEF LWork
  <2>5. CASE IsBound(lw.a, lw.cur)
    <3>1. l.cond = "Bound" /\ l.name = lw.cur.name /\ l.fin
      BY <2>2, <2>5, Zenon DEF LeaseHandlers, Lease
    <3>2. lw.cur.name # None /\ ~b
      BY <2>3, <2>5, <3>1 DEF IsBound, Expirable
    <3> QED BY <2>4, <3>1, <3>2 DEF LeaseHandled
  <2>6. CASE ~IsBound(lw.a, lw.cur)
    <3>1. l.cond = "Released" /\ l.name = None
      BY <2>2, <2>6, ZenonT(60) DEF LeaseHandlers, Lease
    <3> QED BY <2>4, <3>1 DEF LeaseHandled
  <2> QED BY <2>5, <2>6
<1>3. CASE LKept
  BY <1>3, SMTT(30) DEF LKept, LeaseHandled
<1> QED BY <1>1, <1>2, <1>3, LWorkSteps, SMTT(30)

LEMMA NextLeaseWellFormed ==
  ASSUME Once, TypeOK, CurrentCopies, LeaseHandled, LeaseWellFormed, [Next]_vars
  PROVE  LeaseWellFormed'
<1> SUFFICES ASSUME NEW a \in Addrs, lease'[a] # None
             PROVE  /\ lease'[a].name # None => lease'[a].ns = NamespaceOf[lease'[a].name]
                    /\ lease'[a].del => lease'[a].fin
  BY DEF LeaseWellFormed
<1>1. CASE lease'[a] = lease[a]
  BY <1>1 DEF LeaseWellFormed
<1>2. CASE Taken(a)
  BY <1>2 DEF Taken, LeaseWellFormed
<1>3. CASE Created(a)
  <2>1. lease'[a] = NewLease(vw.n, vw.obj.uid)
    BY <1>3 DEF Created
  <2>2. \A n, u : NewLease(n, u).name = n /\ NewLease(n, u).ns = NamespaceOf[n] /\ NewLease(n, u).del = FALSE
    BY SMTT(30) DEF NewLease
  <2> QED BY <2>1, <2>2
<1>4. CASE WrittenByL(a)
  BY <1>4, SMTT(20), ZenonT(20), SMTT(40) DEF WrittenByL, DeletionWritten, StatusWritten, MetadataWritten, SpecWritten,
              LeaseHandled, LeaseWellFormed
<1> QED BY <1>1, <1>2, <1>3, <1>4, LeaseSteps, SMTT(30)

LEMMA NextWorkersCurrent ==
  ASSUME Once, TypeOK, CurrentCopies, AddressAssignedOnce, WorkersCurrent, [Next]_vars
  PROVE  WorkersCurrent'
<1>1. ASSUME NEW n \in freshV' PROVE cvmip'[n] = vmip'[n]
  <2>1. CASE cvmip'[n] = vmip'[n]
    BY <2>1, SMTT(30)
  <2>2. CASE cvmip'[n] # vmip'[n]
    <3>1. n \in freshV /\ n \in Names
      BY <2>2, CacheSteps, SMTT(30) DEF TypeOK
    <3>2. cvmip[n] = vmip[n]
      BY <3>1 DEF WorkersCurrent
    <3> QED BY <3>1, <3>2, CacheSteps, VMIPSteps, SMTT(30)
  <2> QED BY <2>1, <2>2
<1>2. ASSUME vw' # None, vw'.ok, vw'.pc # "patch" PROVE vmip'[vw'.n] = vw'.obj
  <2>1. CASE \E n \in Names : VReconcile(n)
    <3>1. PICK n \in Names : VReconcile(n)
      BY <2>1
    <3>2. vw'.n = n /\ vw'.obj = cvmip[n] /\ (vw'.ok => n \in freshV) /\ vmip' = vmip
      BY <3>1, ZenonT(60) DEF VReconcile
    <3> QED BY <1>2, <3>2 DEF WorkersCurrent
  <2>2. CASE VBound
    <3>1. vw # None /\ vw.pc = "lease" /\ vmip' = vmip /\ StaticAddress(vw.obj)
      BY <2>2 DEF VBound, AddressAssignedOnce
    <3> QED BY <1>2, <2>2, <3>1, BoundOutcome, ZenonT(60) DEF WorkersCurrent
  <2>3. CASE VKept
    <3>1. vmip[vw.n] = vw.obj /\ vw'.n = vw.n /\ vw'.obj = vw.obj /\ vw.n \in Names
      BY <1>2, <2>3, VWorkFields, SMTT(30) DEF VKept, WorkersCurrent, TypeOK
    <3> QED BY <1>2, <3>1, VMIPSteps, SMTT(30)
  <2> QED BY <1>2, <2>1, <2>2, <2>3, VWorkSteps
<1>3. ASSUME vw' # None, vw'.pc = "take", vw'.lok PROVE Unoccupied(vw.n, lease[vw.a])'
  <2>1. CASE \E n \in Names : VReconcile(n)
    <3>1. PICK n \in Names : VReconcile(n)
      BY <2>1
    <3>2. vw'.pc = "lease"
      BY <3>1, ZenonT(60) DEF VReconcile
    <3> QED BY <1>3, <3>2
  <2>2. CASE VBound
    <3>1. vw # None /\ lease' = lease /\ StaticAddress(vw.obj)
      BY <2>2 DEF VBound, AddressAssignedOnce
    <3> QED BY <1>3, <2>2, <3>1, BoundOutcome, SMTT(30) DEF Unoccupied
  <2>3. CASE VKept
    <3>1. /\ Unoccupied(vw.n, lease[vw.a]) /\ vw'.n = vw.n /\ vw'.a = vw.a
          /\ vw # None /\ vw.lok
      BY <1>3, <2>3, SMTT(30) DEF VKept, WorkersCurrent
    <3>2. vw.a \in Addrs
      BY <3>1, VWorkFields, SMTT(30) DEF CurrentCopies, TypeOK
    <3>3. lease'[vw.a] = lease[vw.a]
      BY <1>3, <3>1, <3>2, LeaseSteps, SMTT(30) DEF Outdated
    <3> QED BY <3>1, <3>3, SMTT(30) DEF Unoccupied
  <2> QED BY <1>3, <2>1, <2>2, <2>3, VWorkSteps, SMTT(30)
<1>4. ASSUME lw' # None, lw'.ok, lw'.pc \in {"vmip", "delete", "status"}
      PROVE  lease'[lw'.a] = lw'.cur /\ clease'[lw'.a] = lw'.cur
  <2>1. CASE \E a \in Addrs : LReconcile(a)
    <3>1. PICK a \in Addrs : LReconcile(a)
      BY <2>1
    <3>2. /\ lw'.a = a /\ lw'.cur = clease[a] /\ (lw'.ok => a \in freshL)
          /\ UNCHANGED <<lease, clease>>
      BY <3>1, ZenonT(60) DEF LReconcile
    <3> QED BY <1>4, <3>2 DEF CurrentCopies
  <2>2. CASE \E b \in BOOLEAN : LHandle(b)
    <3>1. PICK b \in BOOLEAN : LHandle(b)
      BY <2>2
    <3>2. lw # None /\ lw \in LWork /\ lw.pc = "vmip" /\ UNCHANGED <<lease, clease>>
      BY <3>1 DEF LHandle, TypeOK
    <3>3. lw'.a = lw.a /\ lw'.cur = lw.cur /\ lw'.ok = lw.ok
      BY <3>1, <3>2 DEF LHandle, LWork
    <3> QED BY <1>4, <3>2, <3>3 DEF WorkersCurrent
  <2>3. CASE LKept
    <3>1. /\ lease[lw.a] = lw.cur /\ clease[lw.a] = lw.cur
          /\ lw'.a = lw.a /\ lw'.cur = lw.cur /\ lw.a \in Addrs
      BY <1>4, <2>3, LWorkFields, SMTT(30) DEF LKept, WorkersCurrent, TypeOK
    <3>2. lease'[lw.a] = lease[lw.a]
      BY <1>4, <3>1, LeaseSteps DEF Outdated
    <3> QED BY <3>1, <3>2, CacheSteps
  <2> QED BY <1>4, <2>1, <2>2, <2>3, LWorkSteps
<1> QED BY <1>1, <1>2, <1>3, <1>4, SMTT(20), ZenonT(20), SMTT(40) DEF WorkersCurrent

LEMMA NextAddressAssignedOnce ==
  ASSUME Once, TypeOK, CurrentCopies, MentionsKnown, WorkersCurrent, AddressAssignedOnce, [Next]_vars
  PROVE  AddressAssignedOnce'
\* a vmip keeps its address once it has one
<1>1. ASSUME NEW n \in Names, vmip[n] # None, vmip'[n] # None
      PROVE  vmip'[n].want = vmip[n].want /\ vmip[n].addr \in {None, vmip'[n].addr}
  <2>1. CASE Appears(n)
    <3>1. inc[n] = 1 /\ inc[n] = 0
      BY <1>1, <2>1, ZenonT(60) DEF Appears, MentionsKnown
    <3> QED BY <3>1, OneNotZero, Zenon
  <2>2. CASE MetadataChanged(n)
    BY <1>1, <2>2, ZenonT(60) DEF MetadataChanged
  <2>3. CASE StatusChanged(n)
    <3>1. vmip[n] = vw.obj
      BY <2>3, Zenon DEF StatusChanged, WorkersCurrent
    <3> QED BY <2>3, <3>1, Zenon DEF StatusChanged, AddressAssignedOnce
  <2> QED BY <1>1, <2>1, <2>2, <2>3, VMIPSteps, Zenon
<1>2. ASSUME NEW n \in Names, vmip'[n] # None PROVE StaticAddress(vmip'[n])
  <2>1. CASE vmip'[n] = vmip[n]
    BY <1>2, <2>1 DEF AddressAssignedOnce
  <2>2. CASE Appears(n)
    BY <2>2, ZenonT(60) DEF Appears, StaticAddress
  <2>3. CASE MetadataChanged(n)
    BY <1>2, <2>3, SMTT(30) DEF MetadataChanged, StaticAddress, AddressAssignedOnce
  <2>4. CASE StatusChanged(n)
    BY <2>4, SMTT(30) DEF StatusChanged, StaticAddress, AddressAssignedOnce
  <2> QED BY <2>1, <2>2, <2>3, <2>4, VMIPSteps, SMTT(20), ZenonT(20), SMTT(40)
<1>3. ASSUME NEW n \in Names, cvmip'[n] # None PROVE StaticAddress(cvmip'[n])
  BY <1>3, CacheSteps, SMTT(30) DEF AddressAssignedOnce
<1>4. ASSUME NEW n \in Names, vmip'[n] # None, cvmip'[n] # None
      PROVE  cvmip'[n].addr \in {None, vmip'[n].addr}
  <2>1. CASE cvmip'[n] # cvmip[n]
    BY <2>1, CacheSteps, SMTT(30)
  <2>2. CASE cvmip'[n] = cvmip[n] /\ vmip[n] # None
    BY <1>1, <1>4, <2>2 DEF AddressAssignedOnce
  <2>3. CASE cvmip'[n] = cvmip[n] /\ vmip[n] = None
    <3>1. Appears(n)
      BY <1>4, <2>3, VMIPSteps DEF MetadataChanged, StatusChanged
    <3>2. inc[n] = 1 /\ inc[n] = 0
      BY <1>4, <2>3, <3>1, ZenonT(60) DEF Appears, MentionsKnown
    <3> QED BY <3>2, SMTT(30)
  <2> QED BY <2>1, <2>2, <2>3
<1>5. ASSUME vw' # None
      PROVE  /\ StaticAddress(vw'.obj)
             /\ vw'.pc # "lease" /\ vw'.obj.addr # None => vw'.addr = vw'.obj.addr
             /\ vw'.pc # "lease" /\ vw'.obj.want # AnyIP => vw'.addr \in {None, vw'.obj.want}
             /\ vw'.pc # "lease" /\ vw'.reason = "Bound" => vw'.addr # None
  <2>1. CASE \E n \in Names : VReconcile(n)
    <3>1. PICK n \in Names : VReconcile(n)
      BY <2>1
    <3>2. vw'.pc = "lease" /\ vw'.obj = cvmip[n] /\ cvmip[n] # None
      BY <3>1, ZenonT(60) DEF VReconcile
    <3> QED BY <3>2 DEF AddressAssignedOnce
  <2>2. CASE VBound
    <3>1. vw # None /\ StaticAddress(vw.obj)
      BY <2>2, SMTT(30) DEF VBound, AddressAssignedOnce
    <3> QED BY <2>2, <3>1, BoundOutcome, ConstantsAssumption, ZenonT(60)
  <2>3. CASE VKept
    BY <2>3, SMTT(30) DEF VKept, AddressAssignedOnce
  <2> QED BY <1>5, <2>1, <2>2, <2>3, VWorkSteps, SMTT(30)
<1>6. ASSUME NEW n \in Names, vmip'[n] # None, vmip'[n].reason = "Bound" PROVE vmip'[n].addr # None
  <2>1. CASE vmip'[n] = vmip[n]
    BY <1>6, <2>1, SMTT(30) DEF AddressAssignedOnce
  <2>2. CASE Appears(n) \/ MetadataChanged(n)
    BY <1>6, <2>2, SMTT(30) DEF Appears, MetadataChanged, AddressAssignedOnce
  <2>3. CASE StatusChanged(n)
    BY <1>6, <2>3 DEF StatusChanged, AddressAssignedOnce
  <2> QED BY <2>1, <2>2, <2>3, VMIPSteps, SMTT(30)
<1> QED BY <1>2, <1>3, <1>4, <1>5, <1>6, ZenonT(60) DEF AddressAssignedOnce, StaticAddress

\* Why a claim stays safe: the lease worker finds the vmip in the cache, with
\* no other address, and therefore does not release the lease
LEMMA SafeStays ==
  ASSUME Once, TypeOK, CurrentCopies, Inv, [Next]_vars, NEW n \in Names, NEW a \in Addrs,
         vmip[n] # None, vmip[n].addr \in {None, a}, Safe(n, a)
  PROVE  Safe(n, a)'
<1> USE DEF Inv
<1>1. n # None
  BY ConstantsAssumption
<1>2. Known(n)
  BY <1>1, SMTT(30) DEF MentionsKnown, Safe
<1>3. cvmip[n] # None /\ cvmip[n].addr \in {None, a}
  BY <1>2 DEF Known, AddressAssignedOnce
<1>4. lease'[a] # None /\ lease'[a].name = n
  <2>1. CASE lease'[a] = lease[a]
    BY <2>1, SMTT(30) DEF Safe
  <2>2. CASE Taken(a)
    BY <1>1, <2>2, SMTT(30) DEF Taken, WorkersCurrent, Unoccupied, Safe
  <2>3. CASE Created(a)
    BY <2>3 DEF Created, Safe
  <2>4. CASE WrittenByL(a)
    <3>1. lw # None /\ lw.a = a /\ lw.cur.name = n /\ lease[a].name = n /\ (lease[a].del => lease[a].fin)
      BY <2>4, ZenonT(60) DEF WrittenByL, Safe, LeaseWellFormed
    <3>2. lw.pc # "vmip" => lw.pc # "delete" /\ lw.chg.name = n /\ lw.chg.fin
      BY <3>1, SMTT(30) DEF Safe
    <3> QED BY <2>4, <3>1, <3>2, ZenonT(60)
            DEF WrittenByL, DeletionWritten, StatusWritten, MetadataWritten, SpecWritten
  <2> QED BY <2>1, <2>2, <2>3, <2>4, LeaseSteps, ZenonT(60)
<1>5. clease'[a] # None /\ clease'[a].name = n
  <2>1. clease'[a] = clease[a] \/ clease'[a] = lease[a]
    BY CacheSteps, Zenon
  <2> QED BY <2>1, Zenon DEF Safe
<1>6. ASSUME lw' # None, lw'.a = a
      PROVE  /\ lw'.cur.name = n
             /\ lw'.pc # "vmip" => lw'.pc # "delete" /\ lw'.chg.name = n /\ lw'.chg.fin
  <2>1. CASE \E b \in Addrs : LReconcile(b)
    <3>1. PICK b \in Addrs : LReconcile(b)
      BY <2>1
    <3>2. lw'.a = b /\ lw'.cur = clease[b] /\ lw'.pc = "vmip"
      BY <3>1, ZenonT(60) DEF LReconcile
    <3> QED BY <1>6, <3>2 DEF Safe
  <2>2. CASE \E b \in BOOLEAN : LHandle(b)
    <3>1. PICK b \in BOOLEAN : LHandle(b)
      BY <2>2
    <3> DEFINE l == LeaseHandlers(lw.a, lw.cur)
    <3>2. lw # None /\ lw \in LWork /\ lw.cur \in Lease
      BY <3>1, LWorkFields DEF LHandle, TypeOK
    <3>3. /\ b => Expirable(lw.cur, l)
          /\ lw' = [lw EXCEPT !.pc = IF b THEN "delete" ELSE "status", !.chg = l]
      BY <3>1 DEF LHandle
    <3>4. lw'.a = lw.a /\ lw'.cur = lw.cur /\ lw'.chg = l /\ (lw'.pc = "delete" => b)
      BY <3>2, <3>3, ZenonT(60) DEF LWork
    <3>5. lw.a = a /\ lw.cur.name = n
      BY <1>6, <3>2, <3>4 DEF Safe
    <3>6. IsBound(lw.a, lw.cur)
      BY <1>1, <1>3, <3>5 DEF IsBound
    <3>7. l.cond = "Bound" /\ l.name = lw.cur.name /\ l.fin
      BY <3>2, <3>6, Zenon DEF LeaseHandlers, Lease
    <3>8. ~b
      BY <3>3, <3>7, SMTT(30) DEF Expirable
    <3> QED BY <3>4, <3>5, <3>7, <3>8, ZenonT(60)
  <2>3. CASE LKept
    BY <1>6, <2>3, SMTT(30) DEF LKept, Safe
  <2> QED BY <1>6, <2>1, <2>2, <2>3, LWorkSteps
<1> QED BY <1>4, <1>5, <1>6 DEF Safe

\* a claim is not made up: the lease worker is the one who starts it
LEMMA NextClaimsAreSafe ==
  ASSUME Once, TypeOK, CurrentCopies, Inv, [Next]_vars
  PROVE  ClaimsAreSafe'
<1> USE DEF Inv
<1> SUFFICES ASSUME NEW n \in Names, NEW a \in Addrs, vmip'[n] # None, vmip'[n].addr \in {None, a},
                    Claim(n, a)'
             PROVE  Safe(n, a)'
  BY DEF ClaimsAreSafe
<1>1. n # None
  BY ConstantsAssumption
<1>2. ~Appears(n)
  <2> SUFFICES ASSUME Appears(n) PROVE FALSE
    OBVIOUS
  <2>0. inc[n] = 0
    BY ZenonT(60) DEF Appears
  <2>5. inc[n] # 1
    BY <2>0
  <2>1. vmip'[n] # vmip[n] /\ vmip'[n].reason = ""
    BY <2>5, ZenonT(60) DEF Appears, MentionsKnown
  <2>2. /\ UNCHANGED <<lease, clease>>
        /\ vw' # None /\ vw'.n = n /\ vw'.ok => vw'.pc = "patch"
    BY <2>1, VMIPSteps, ZenonT(60)
  <2>3. BoundCopy(lease[a], n) \/ BoundCopy(clease[a], n)
    BY <2>1, <2>2, ZenonT(60) DEF Claim, BoundCopy
  <2>4. inc[n] = 1
    BY <1>1, <2>3, ZenonT(60) DEF BoundCopy, MentionsKnown, Known
  <2> QED BY <2>4, <2>5
<1>3. vmip[n] # None /\ vmip[n].addr \in {None, a}
  <2>1. CASE vmip'[n] = vmip[n]
    BY <2>1, ZenonT(60)
  <2>2. CASE MetadataChanged(n)
    BY <2>2 DEF MetadataChanged
  <2>3. CASE StatusChanged(n)
    BY <2>3, ZenonT(60) DEF StatusChanged, WorkersCurrent, AddressAssignedOnce
  <2> QED BY <1>2, <2>1, <2>2, <2>3, VMIPSteps, ZenonT(60)
<1>4. ASSUME Claim(n, a) PROVE Safe(n, a)'
  <2>1. Safe(n, a)
    BY <1>3, <1>4 DEF ClaimsAreSafe
  <2> QED BY <1>3, <2>1, SafeStays, ZenonT(60)
<1>5. CASE BoundCopy(lease[a], n)'
  <2>1. lease'[a] # None /\ lease'[a].name = n /\ lease'[a].cond = "Bound" /\ lease'[a].obs
    BY <1>5, SMTT(30) DEF BoundCopy
  <2>2. CASE lease'[a] = lease[a]
    BY <1>4, <2>1, <2>2, Zenon DEF Claim, BoundCopy
  <2>3. CASE Taken(a) \/ DeletionWritten(a) \/ SpecWritten(a)
    BY <2>1, <2>3, ZenonT(60) DEF Taken, DeletionWritten, SpecWritten
  <2>4. CASE Created(a)
    <3>1. \A m, u : NewLease(m, u).obs = FALSE
      BY Zenon DEF NewLease
    <3> QED BY <2>1, <2>4, <3>1 DEF Created
  <2>5. CASE WrittenByL(a) /\ MetadataWritten(a)
    BY <1>4, <2>1, <2>5, ZenonT(60) DEF WrittenByL, MetadataWritten, Claim, BoundCopy
  <2>6. CASE WrittenByL(a) /\ StatusWritten(a) /\ Outdated(a)
    <3>1. lw # None /\ lw.a = a /\ lease[a] = lw.cur /\ clease[a] = lw.cur /\ lw.cur.name = n
      BY <2>1, <2>6, ZenonT(60) DEF WrittenByL, StatusWritten, WorkersCurrent
    <3>2. lw.chg.name = n /\ lw.chg.fin
      BY <2>1, <2>6, <3>1, ZenonT(60) DEF StatusWritten, LeaseHandled
    <3>3. lw'.a = a /\ lw'.cur = lw.cur /\ lw'.chg = lw.chg /\ lw'.pc = "patch"
      BY <2>6, ZenonT(60) DEF StatusWritten
    <3>4. clease'[a] = lw.cur /\ lw.cur # None
      BY <2>6, <3>1, Zenon DEF Outdated, WrittenByL
    <3> QED BY <2>1, <3>1, <3>2, <3>3, <3>4, ZenonT(60) DEF Safe
  <2> QED BY <2>2, <2>3, <2>4, <2>5, <2>6, LeaseSteps, ZenonT(60) DEF WrittenByL
<1>6. CASE BoundCopy(clease[a], n)'
  BY <1>4, <1>6, CacheSteps, ZenonT(60) DEF Claim, BoundCopy
<1>7. CASE vmip'[n].reason = "Bound" /\ vmip'[n].addr = a
  <2>1. CASE vmip'[n] = vmip[n]
    BY <1>4, <1>7, <2>1, Zenon DEF Claim
  <2>2. CASE MetadataChanged(n)
    BY <1>4, <1>7, <2>2, ZenonT(60) DEF MetadataChanged, Claim
  <2>3. CASE StatusChanged(n)
    BY <1>4, <1>7, <2>3, ZenonT(60) DEF StatusChanged, Claim
  <2> QED BY <1>2, <2>1, <2>2, <2>3, VMIPSteps, ZenonT(60)
<1>8. CASE /\ vw' # None /\ vw'.n = n /\ vw'.ok /\ vw'.pc \notin {"lease", "patch"}
           /\ vw'.reason = "Bound" /\ vw'.addr = a
  <2>1. CASE \E m \in Names : VReconcile(m)
    <3>1. PICK m \in Names : VReconcile(m)
      BY <2>1
    <3>2. vw'.pc = "lease"
      BY <3>1, ZenonT(60) DEF VReconcile
    <3> QED BY <1>8, <3>2
  <2>2. CASE VBound
    <3>1. vw # None /\ StaticAddress(vw.obj)
      BY <2>2, ZenonT(60) DEF VBound, AddressAssignedOnce
    <3>2. BoundCopy(clease[a], n) \/ BoundCopy(lease[a], n)
      BY <1>8, <2>2, <3>1, BoundOutcome, ZenonT(60)
    <3> QED BY <1>4, <3>2, ZenonT(60) DEF Claim
  <2>3. CASE VKept
    BY <1>4, <1>8, <2>3, ZenonT(60) DEF VKept, Claim
  <2> QED BY <1>8, <2>1, <2>2, <2>3, VWorkSteps
<1> QED BY <1>5, <1>6, <1>7, <1>8, SMTT(30) DEF Claim

-----------------------------------------------------------------------------
LEMMA InitInv == Init => Inv
<1> SUFFICES ASSUME Init PROVE Inv
  OBVIOUS
<1>1. /\ \A n \in Names : vmip[n] = None /\ cvmip[n] = None
      /\ \A a \in Addrs : lease[a] = None /\ clease[a] = None
      /\ vw = None /\ lw = None
  BY SMTT(30) DEF Init
<1>2. MentionsKnown /\ LeaseWellFormed /\ LeaseHandled /\ AddressAssignedOnce
  BY <1>1 DEF MentionsKnown, LeaseWellFormed, LeaseHandled, AddressAssignedOnce
<1>3. WorkersCurrent
  BY <1>1 DEF Init, WorkersCurrent
<1>4. ClaimsAreSafe
  BY <1>1, Zenon DEF ClaimsAreSafe
<1> QED BY <1>2, <1>3, <1>4 DEF Inv

LEMMA NextInv == Once /\ TypeOK /\ CurrentCopies /\ Inv /\ [Next]_vars => Inv'
<1> SUFFICES ASSUME Once, TypeOK, CurrentCopies, Inv, [Next]_vars PROVE Inv'
  OBVIOUS
<1> USE DEF Inv
<1>1. MentionsKnown'
  BY NextMentionsKnown
<1>2. LeaseWellFormed' /\ LeaseHandled'
  BY NextLeaseWellFormed, NextLeaseHandled
<1>3. WorkersCurrent' /\ AddressAssignedOnce'
  BY NextWorkersCurrent, NextAddressAssignedOnce
<1>4. ClaimsAreSafe'
  BY NextClaimsAreSafe, SMTT(30)
<1> QED BY <1>1, <1>2, <1>3, <1>4

\* A Bound vmip claims its address, so the lease of that address refers to it
LEMMA InvBound == TypeOK /\ Inv => BoundHasLease
<1> SUFFICES ASSUME TypeOK, Inv, NEW n \in Names, Bound(n)
             PROVE  /\ lease[vmip[n].addr] # None
                    /\ lease[vmip[n].addr].name = n
                    /\ lease[vmip[n].addr].ns = NamespaceOf[n]
  BY SMTT(30) DEF BoundHasLease
<1>1. vmip[n].addr \in Addrs
  BY VMIPFields, ZenonT(60) DEF Bound, Inv, AddressAssignedOnce, TypeOK
<1>2. Safe(n, vmip[n].addr)
  BY <1>1, Zenon DEF Bound, Inv, ClaimsAreSafe, Claim
<1>3. n # None
  BY ConstantsAssumption
<1> QED BY <1>1, <1>2, <1>3 DEF Safe, Inv, LeaseWellFormed

\* BindStep's promise "The vmip can be Bound only if the assigned Lease has a
\* fully populated and matching reference" holds in every state: no
\* interleaving of the two controllers, no stale cache and no restart leaves a
\* vmip Bound to an address whose lease is gone or refers to somebody else.
\* Assumed is that no name is used twice and that no spec is edited.
THEOREM BoundSafe == ASSUME Once PROVE Spec => []BoundHasLease
<1>1. Init => TypeOK /\ CurrentCopies /\ Inv
  BY InitTypeOK, InitCurrentCopies, InitInv
<1>2. TypeOK /\ CurrentCopies /\ Inv /\ [Next]_vars => (TypeOK /\ CurrentCopies /\ Inv)'
  BY NextTypeOK, NextCurrentCopies, NextInv
<1>3. TypeOK /\ Inv => BoundHasLease
  BY InvBound
<1> QED BY <1>1, <1>2, <1>3, PTL DEF Spec

\* so two vmips are never Bound to one address
BoundExclusive ==
  \A m, n \in Names : Bound(m) /\ Bound(n) /\ vmip[m].addr = vmip[n].addr => m = n

COROLLARY BoundAddressesDiffer == ASSUME Once PROVE Spec => []BoundExclusive
<1>1. BoundHasLease => BoundExclusive
  BY DEF BoundHasLease, BoundExclusive
<1> QED BY <1>1, BoundSafe, PTL

LEMMA ReferenceStep ==
  ASSUME Once, TypeOK, CurrentCopies, Inv, [Next]_vars, NEW a \in Addrs,
         lease[a] # None, lease'[a] # None
  PROVE  /\ lease'[a].ns = lease[a].ns
         /\ lease[a].name # None => lease'[a].name \in {None, lease[a].name}
<1>1. CASE lease'[a] = lease[a]
  BY <1>1, SMTT(30)
<1>2. CASE Taken(a)
  BY <1>2, ZenonT(60) DEF Taken, Inv, WorkersCurrent, Unoccupied
<1>3. CASE Created(a)
  BY <1>3 DEF Created
<1>4. CASE WrittenByL(a)
  <2>1. lw.pc # "vmip" => lw.chg.name \in {None, lw.cur.name}
    BY <1>4 DEF WrittenByL, Inv, LeaseHandled
  <2> QED BY <1>4, <2>1, ZenonT(60) DEF WrittenByL, DeletionWritten, StatusWritten, MetadataWritten, SpecWritten
<1> QED BY <1>1, <1>2, <1>3, <1>4, LeaseSteps, ZenonT(60)

\* TakeLeaseStep never overwrites the reference another vmip has put into the
\* lease, and the lease controller only ever empties it
THEOREM ReferenceSafe == ASSUME Once PROVE Spec => ReferenceNotOverwritten
<1>1. Init => TypeOK /\ CurrentCopies /\ Inv
  BY InitTypeOK, InitCurrentCopies, InitInv
<1>2. TypeOK /\ CurrentCopies /\ Inv /\ [Next]_vars => (TypeOK /\ CurrentCopies /\ Inv)'
  BY NextTypeOK, NextCurrentCopies, NextInv
<1> DEFINE Kept(a) == /\ lease'[a].ns = lease[a].ns
                      /\ lease[a].name # None => lease'[a].name \in {None, lease[a].name}
           Step == \A a \in Addrs : lease[a] # None /\ lease'[a] # None => Kept(a)
<1>3. TypeOK /\ CurrentCopies /\ Inv /\ [Next]_vars => Step
  BY ReferenceStep
<1> QED BY <1>1, <1>2, <1>3, PTL DEF Spec, ReferenceNotOverwritten

-----------------------------------------------------------------------------
\* The address controllers implement AddressRental.

Held(n, a) == Bound(n) /\ vmip[n].addr = a

\* what the mapping has to say: as no two vmips are Bound to one address,
\* Holder names the one that is
HolderExact ==
  \A a \in Addrs :
    /\ \A n \in Names : Holder[a] = n <=> Held(n, a)
    /\ Holder[a] = None <=> \A n \in Names : ~Held(n, a)
    /\ Holder[a] = None \/ Holder[a] \in Names

LEMMA HolderIs == TypeOK /\ BoundExclusive => HolderExact
<1> SUFFICES ASSUME TypeOK, BoundExclusive, NEW a \in Addrs
             PROVE  /\ \A n \in Names : Holder[a] = n <=> Held(n, a)
                    /\ Holder[a] = None <=> \A n \in Names : ~Held(n, a)
                    /\ Holder[a] = None \/ Holder[a] \in Names
  BY DEF HolderExact
<1>0. \A n \in Names : n # None
  BY ConstantsAssumption
<1>1. CASE Holders(a) = {}
  <2>1. Holder[a] = None
    BY <1>1 DEF Holder
  <2>2. \A n \in Names : ~Held(n, a)
    BY <1>1 DEF Holders, Held
  <2> QED BY <1>0, <2>1, <2>2
<1>2. CASE Holders(a) # {}
  <2> DEFINE h == CHOOSE n \in Holders(a) : TRUE
  <2>1. Holder[a] = h
    BY <1>2 DEF Holder
  <2>2. h \in Holders(a)
    BY <1>2
  <2> HIDE DEF h
  <2>3. h \in Names /\ Held(h, a)
    BY <2>2 DEF Holders, Held
  <2>4. \A n \in Names : Held(n, a) => n = h
    BY <2>3 DEF BoundExclusive, Held
  <2> QED BY <1>0, <2>1, <2>3, <2>4
<1> QED BY <1>1, <1>2

\* Everything the steps below need of a state
Good == /\ TypeOK /\ CurrentCopies /\ Inv
        /\ BoundHasLease /\ BoundExclusive /\ HolderExact

LEMMA InitGood == Once /\ Init => TypeOK /\ CurrentCopies /\ Inv
  BY InitTypeOK, InitCurrentCopies, InitInv

LEMMA InvGood == TypeOK /\ CurrentCopies /\ Inv => Good
<1>1. BoundHasLease => BoundExclusive
  BY DEF BoundHasLease, BoundExclusive
<1> QED BY <1>1, InvBound, HolderIs DEF Good

LEMMA HolderKept ==
  ASSUME Good, Good', \A n \in Names, a \in Addrs : Held(n, a)' <=> Held(n, a)
  PROVE  Holder' = Holder
<1>1. \A a \in Addrs : Holder'[a] = Holder[a]
  <2> SUFFICES ASSUME NEW a \in Addrs PROVE Holder'[a] = Holder[a]
    OBVIOUS
  <2>1. CASE Holder[a] = None
    BY <2>1 DEF Good, HolderExact
  <2>2. CASE Holder[a] \in Names
    BY <2>2 DEF Good, HolderExact
  <2> QED BY <2>1, <2>2 DEF Good, HolderExact
<1> QED BY <1>1 DEF Holder

\* A write of a lease starts the rent, ends it, or leaves it as it is
LEMMA LeaseWrites ==
  ASSUME Once, Good, Good', [Next]_vars, NEW a \in Addrs, lease'[a] # lease[a]
  PROVE  [Rental!RentalNext]_<<Rent, Holder>>
<1>1. \A n \in Names : vmip'[n] = vmip[n]
  BY VMIPSteps, Zenon DEF Good
<1>2. Holder' = Holder
  <2>1. \A n \in Names, b \in Addrs : Held(n, b)' <=> Held(n, b)
    BY <1>1 DEF Held, Bound
  <2> QED BY <2>1, HolderKept
<1>3. Outdated(a) /\ (Taken(a) \/ Created(a) \/ WrittenByL(a))
  BY LeaseSteps DEF Good
<1>4. Rent' = [Rent EXCEPT ![a] = IF lease'[a] = None THEN None ELSE lease'[a].ns]
  BY <1>3, Zenon DEF Rent, Outdated
<1>5. Rent \in [Addrs -> {Rent[b] : b \in Addrs}] /\ DOMAIN Rent = Addrs
  BY DEF Rent
<1>6. CASE lease[a] = None
  <2>1. vw # None /\ lease'[a] = NewLease(vw.n, vw.obj.uid)
    BY <1>3, <1>6, Zenon DEF Taken, Created, WrittenByL
  <2>2. vw.n \in Names /\ lease'[a] # None
    BY <1>6, <2>1, VWorkFields DEF Good, TypeOK
  <2>2a. lease'[a].ns = NamespaceOf[vw.n]
    <3>1. NewLease(vw.n, vw.obj.uid).ns = NamespaceOf[vw.n]
      BY Zenon DEF NewLease
    <3> QED BY <2>1, <3>1, Zenon
  <2>3. Rental!StartRent(a)
    BY <1>2, <1>4, <1>6, <2>2, <2>2a, ZenonT(60) DEF Rental!StartRent, Rent
  <2> QED BY <2>3 DEF Rental!RentalNext
<1>7. CASE lease[a] # None /\ lease'[a] = None
  <2>1. Rent[a] # None
    <3>1. lease[a] \in Lease
      BY <1>7 DEF Good, TypeOK
    <3>2. lease[a].ns # None
      BY <3>1, ConstantsAssumption, LeaseFields, ZenonT(60)
    <3> QED BY <1>7, <3>2 DEF Rent
  <2>2. \A n \in Names : ~Held(n, a)'
    BY <1>7, Zenon DEF Good, BoundHasLease, Held
  <2>3. Holder[a] = None
    BY <1>2, <2>2, Zenon DEF Good, HolderExact
  <2>4. Rental!EndRent(a)
    BY <1>2, <1>4, <1>7, <2>1, <2>3 DEF Rental!EndRent
  <2> QED BY <2>4, ZenonT(20) DEF Rental!RentalNext
<1>8. CASE lease[a] # None /\ lease'[a] # None
  <2>1. lease'[a].ns = lease[a].ns
    BY <1>8, ReferenceStep DEF Good
  <2>2. Rent' = Rent
    BY <1>4, <1>8, <2>1, ZenonT(60) DEF Rent
  <2> QED BY <1>2, <2>2
<1> QED BY <1>6, <1>7, <1>8

\* A write of a vmip makes it hold an address, gives the address back, or
\* changes nothing about it
LEMMA VMIPWrites ==
  ASSUME Once, Good, Good', [Next]_vars, NEW n \in Names, vmip'[n] # vmip[n]
  PROVE  [Rental!RentalNext]_<<Rent, Holder>>
<1>1. /\ UNCHANGED lease
      /\ \A m \in Names : m # n => vmip'[m] = vmip[m]
      /\ Appears(n) \/ MetadataChanged(n) \/ StatusChanged(n)
  BY VMIPSteps DEF Good
<1>2. Rent' = Rent
  BY <1>1 DEF Rent
<1>3. \A m \in Names, a \in Addrs : m # n => (Held(m, a)' <=> Held(m, a))
  BY <1>1, SMTT(30) DEF Held, Bound
<1>4. Bound(n) => vmip[n].addr \in Addrs
  BY VMIPFields, ZenonT(20) DEF Bound, Good, Inv, AddressAssignedOnce, TypeOK
<1>5. Bound(n)' => vmip'[n].addr \in Addrs
  <2>1. vmip'[n] \in VMIP \cup {None}
    BY Zenon DEF Good, TypeOK
  <2>2. Bound(n)' => vmip'[n] # None /\ vmip'[n].addr # None
    BY Zenon DEF Bound, Good, Inv, AddressAssignedOnce
  <2> QED BY <2>1, <2>2, VMIPFields, Zenon
<1>6. CASE ~Bound(n) /\ ~Bound(n)'
  <2>1. \A m \in Names, a \in Addrs : Held(m, a)' <=> Held(m, a)
    BY <1>3, <1>6, Zenon DEF Held
  <2> QED BY <1>2, <2>1, HolderKept, Zenon
<1>7. CASE Bound(n) /\ Bound(n)'
  <2>1. vmip'[n].addr = vmip[n].addr
    <3>1. vmip[n].addr # None
      BY <1>4, <1>7, ConstantsAssumption
    <3>2. CASE Appears(n)
      BY <1>7, <3>2, Zenon DEF Appears, Bound
    <3>3. CASE MetadataChanged(n)
      BY <1>7, <3>3, SMTT(30) DEF MetadataChanged, Bound
    <3>4. CASE StatusChanged(n)
      BY <1>7, <3>1, <3>4, ZenonT(20) DEF StatusChanged, Good, Inv, AddressAssignedOnce, WorkersCurrent
    <3> QED BY <1>1, <3>2, <3>3, <3>4
  <2>2. \A m \in Names, a \in Addrs : Held(m, a)' <=> Held(m, a)
    BY <1>3, <1>7, <2>1 DEF Held
  <2> QED BY <1>2, <2>2, HolderKept
<1>8. CASE Bound(n) /\ ~Bound(n)'
  <2>0. PICK a \in Addrs : a = vmip[n].addr
    BY <1>4, <1>8
  <2>1. Holder[a] = n /\ Holder[a] # None
    BY <1>8, <2>0, ConstantsAssumption, Zenon DEF Good, HolderExact, Held
  <2>2. \A m \in Names : ~Held(m, a)'
    <3>1. \A m \in Names : Held(m, a) => m = n
      BY <1>8, <2>0, Zenon DEF Good, BoundExclusive, Held
    <3> QED BY <1>3, <1>8, <2>1, <3>1 DEF Held
  <2>3. Holder'[a] = None
    BY <2>1, <2>2 DEF Good, HolderExact
  <2>4. ASSUME NEW b \in Addrs, b # a
        PROVE  Holder'[b] = Holder[b]
    <3>1. \A m \in Names : Held(m, b)' <=> Held(m, b)
      BY <1>3, <1>8, <2>0, <2>4 DEF Held
    <3> QED BY <3>1 DEF Good, HolderExact
  <2>5. Holder' = [Holder EXCEPT ![a] = None]
    <3>1. DOMAIN Holder = Addrs /\ Holder = [b \in Addrs |-> Holder[b]]
      BY DEF Holder
    <3>2. DOMAIN Holder' = Addrs /\ Holder' = [b \in Addrs |-> Holder'[b]]
      BY DEF Holder
    <3> QED BY <2>1, <2>3, <2>4, <3>1, <3>2
  <2>6. Rental!Yield(a)
    BY <1>2, <2>1, <2>5 DEF Rental!Yield
  <2> QED BY <2>1, <2>6, Zenon DEF Rental!RentalNext
<1>9. CASE ~Bound(n) /\ Bound(n)'
  <2>0. PICK a \in Addrs : a = vmip'[n].addr
    BY <1>5, <1>9
  <2>1. Rent[a] = NamespaceOf[n]
    BY <1>1, <1>9, <2>0, Zenon DEF Good, BoundHasLease, Rent
  <2>2. Holder'[a] = n
    BY <1>9, <2>0, Zenon DEF Good, HolderExact, Held
  <2>3. Holder[a] = None
    <3>1. \A m \in Names : Held(m, a)' => m = n
      BY <1>9, <2>0 DEF Good, BoundExclusive, Held
    <3>2. \A m \in Names : ~Held(m, a)
      BY <1>3, <1>9, <2>1, <3>1 DEF Held
    <3> QED BY <2>1, <3>2, Zenon DEF Good, HolderExact
  <2>4. \A b \in Addrs : Holder[b] # n
    BY <1>9 DEF Good, HolderExact, Held
  <2>5. ASSUME NEW b \in Addrs, b # a
        PROVE  Holder'[b] = Holder[b]
    <3>1. \A m \in Names : Held(m, b)' <=> Held(m, b)
      BY <1>3, <1>9, <2>0, <2>5 DEF Held
    <3> QED BY <3>1 DEF Good, HolderExact
  <2>6. Holder' = [Holder EXCEPT ![a] = n]
    <3>1. DOMAIN Holder = Addrs /\ Holder = [b \in Addrs |-> Holder[b]]
      BY DEF Holder
    <3>2. DOMAIN Holder' = Addrs /\ Holder' = [b \in Addrs |-> Holder'[b]]
      BY DEF Holder
    <3> QED BY <2>1, <2>2, <2>5, <3>1, <3>2
  <2>7. Rental!Hold(a, n)
    BY <1>2, <2>1, <2>3, <2>4, <2>6 DEF Rental!Hold
  <2> QED BY <2>1, <2>7 DEF Rental!RentalNext
<1> QED BY <1>6, <1>7, <1>8, <1>9

LEMMA OtherSteps ==
  ASSUME Good, Good', \A a \in Addrs : lease'[a] = lease[a], \A n \in Names : vmip'[n] = vmip[n]
  PROVE  UNCHANGED <<Rent, Holder>>
<1>1. Rent' = Rent
  BY DEF Rent
<1>2. \A n \in Names, a \in Addrs : Held(n, a)' <=> Held(n, a)
  BY DEF Held, Bound
<1> QED BY <1>1, <1>2, HolderKept

\* The two controllers, with their caches, retries and restarts, implement the
\* rental: at every step an address is rented by one namespace, held by at most
\* one vmip of it, and given up only when it is held by none.
THEOREM Refinement == ASSUME Once PROVE Spec => ImplementsRental
<1> DEFINE I == TypeOK /\ CurrentCopies /\ Inv
<1>1. Init => I
  BY InitTypeOK, InitCurrentCopies, InitInv
<1>2. I /\ [Next]_vars => I'
  BY NextTypeOK, NextCurrentCopies, NextInv
<1>3. I => Good
  BY InvGood
<1>4. Init => Rental!RentalInit
  <2> SUFFICES ASSUME Init PROVE Rental!RentalInit
    OBVIOUS
  <2>1. \A a \in Addrs : Holders(a) = {}
    BY DEF Init, Holders, Bound
  <2> QED BY <2>1 DEF Init, Rental!RentalInit, Rent, Holder
<1>5. Good /\ Good' /\ [Next]_vars => [Rental!RentalNext]_<<Rent, Holder>>
  <2> SUFFICES ASSUME Good, Good', [Next]_vars PROVE [Rental!RentalNext]_<<Rent, Holder>>
    OBVIOUS
  <2>1. CASE \E a \in Addrs : lease'[a] # lease[a]
    BY <2>1, LeaseWrites
  <2>2. CASE \E n \in Names : vmip'[n] # vmip[n]
    BY <2>2, VMIPWrites
  <2>3. CASE (\A a \in Addrs : lease'[a] = lease[a]) /\ \A n \in Names : vmip'[n] = vmip[n]
    BY <2>3, OtherSteps
  <2> QED BY <2>1, <2>2, <2>3, Zenon
<1> HIDE DEF I
<1> QED BY <1>1, <1>2, <1>3, <1>4, <1>5, PTL DEF Spec, ImplementsRental, Rental!RentalSpec
=============================================================================
