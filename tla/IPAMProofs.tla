----------------------------- MODULE IPAMProofs -----------------------------
(* Machine-checked facts about IPAM, for every number of vmips, namespaces  *)
(* and addresses.                                                           *)
EXTENDS IPAM, TLAPS

LEMMA InitTypeOK == Init => TypeOK
  BY ConstantsAssumption DEF Init, TypeOK

\* The types of the fields, and the updates of the workers' records

LEMMA VMIPFields ==
  ASSUME NEW o \in VMIP
  PROVE  /\ o.uid \in UIDs /\ o.want \in Addrs \cup {AnyIP} /\ o.fin \in BOOLEAN
         /\ o.del \in BOOLEAN /\ o.addr \in Addrs \cup {None} /\ o.reason \in Reasons
         /\ o.att \in BOOLEAN /\ o.obs \in BOOLEAN
  BY Zenon DEF VMIP

LEMMA LeaseFields ==
  ASSUME NEW l \in Lease
  PROVE  /\ l.ns \in {NamespaceOf[n] : n \in Names} /\ l.name \in Names \cup {None}
         /\ l.uid \in UIDs \cup {None} /\ l.fin \in BOOLEAN /\ l.del \in BOOLEAN
         /\ l.cond \in {"", "Bound", "Released"} /\ l.obs \in BOOLEAN
  BY Zenon DEF Lease

VPcs == {"lease", "take", "create", "update", "patch"}
LPcs == {"vmip", "delete", "status", "patch", "spec"}

LEMMA VWorkFields ==
  ASSUME NEW w \in VWork
  PROVE  /\ w.pc \in VPcs /\ w.n \in Names /\ w.obj \in VMIP /\ w.ok \in BOOLEAN
         /\ w.a \in Addrs \cup {None} /\ w.lok \in BOOLEAN /\ w.addr \in Addrs \cup {None}
         /\ w.reason \in Reasons /\ w.fin \in BOOLEAN
  BY Zenon DEF VWork, VPcs

LEMMA LWorkFields ==
  ASSUME NEW w \in LWork
  PROVE  w.pc \in LPcs /\ w.a \in Addrs /\ w.cur \in Lease /\ w.chg \in Lease /\ w.ok \in BOOLEAN
  BY Zenon DEF LWork, LPcs

\* an object of the API server after the deletion or finalizer part of a write
LEMMA DeletedVMIP == ASSUME NEW o \in VMIP PROVE Deleted(o) \in VMIP \cup {None}
<1>1. [o EXCEPT !.del = TRUE, !.obs = FALSE] \in VMIP
  BY Zenon DEF VMIP
<1> QED BY <1>1, Zenon DEF Deleted

LEMMA FinalizedVMIP ==
  ASSUME NEW o \in VMIP, NEW b \in BOOLEAN PROVE Finalized(o, b) \in VMIP \cup {None}
<1>1. [o EXCEPT !.fin = b] \in VMIP
  BY Zenon DEF VMIP
<1> QED BY <1>1, Zenon DEF Finalized

LEMMA DeletedLease == ASSUME NEW l \in Lease PROVE Deleted(l) \in Lease \cup {None}
<1>1. [l EXCEPT !.del = TRUE, !.obs = FALSE] \in Lease
  BY Zenon DEF Lease
<1> QED BY <1>1, Zenon DEF Deleted

LEMMA FinalizedLease ==
  ASSUME NEW l \in Lease, NEW b \in BOOLEAN PROVE Finalized(l, b) \in Lease \cup {None}
<1>1. [l EXCEPT !.fin = b] \in Lease
  BY Zenon DEF Lease
<1> QED BY <1>1, Zenon DEF Finalized

\* marking a worker's copy as out of date
LEMMA VWorkerOK == ASSUME TypeOK, NEW n PROVE VWorker(n) \in VWork \cup {None}
<1>1. vw \in VWork => [vw EXCEPT !.ok = FALSE] \in VWork
  BY Zenon DEF VWork
<1> QED BY <1>1, Zenon DEF TypeOK, VWorker

LEMMA VWorkerLOK == ASSUME TypeOK, NEW a PROVE VWorkerL(a) \in VWork \cup {None}
<1>1. vw \in VWork => [vw EXCEPT !.lok = FALSE] \in VWork
  BY Zenon DEF VWork
<1> QED BY <1>1, Zenon DEF TypeOK, VWorkerL

LEMMA LWorkerOK == ASSUME TypeOK, NEW a PROVE LWorker(a) \in LWork \cup {None}
<1>1. lw \in LWork => [lw EXCEPT !.ok = FALSE] \in LWork
  BY Zenon DEF LWork
<1> QED BY <1>1, Zenon DEF TypeOK, LWorker

\* a write of an object
LEMMA PutVMIPOK ==
  ASSUME TypeOK, NEW n \in Names, NEW o \in VMIP \cup {None}, PutVMIP(n, o)
  PROVE  vmip' \in [Names -> VMIP \cup {None}] /\ freshV' \in SUBSET Names
  BY DEF PutVMIP, TypeOK

LEMMA PutLeaseOK ==
  ASSUME TypeOK, NEW a \in Addrs, NEW l \in Lease \cup {None}, PutLease(a, l)
  PROVE  lease' \in [Addrs -> Lease \cup {None}] /\ freshL' \in SUBSET Addrs
  BY DEF PutLease, TypeOK

\* TypeOK is not inductive: TakeLeaseStep writes the lease it found, so it has
\* to be known that a copy held as current is a copy of a lease that exists.
CurrentCopies ==
  /\ \A a \in freshL : clease[a] = lease[a]
  /\ vw # None /\ vw.lok => vw.pc = "take" /\ vw.a # None /\ lease[vw.a] # None

LEMMA NextTypeOK == TypeOK /\ CurrentCopies /\ [Next]_vars => TypeOK'
<1> SUFFICES ASSUME TypeOK, CurrentCopies, [Next]_vars PROVE TypeOK'
  OBVIOUS
<1>1. ASSUME NEW n \in Names, NEW s \in Requests, CreateVMIP(n, s) PROVE TypeOK'
  <2>0. inc[n] \in 0 .. MaxInc /\ inc[n] < MaxInc
    BY <1>1, Zenon DEF CreateVMIP, TypeOK
  <2>1. inc[n] + 1 \in 1 .. MaxInc /\ inc[n] + 1 \in 0 .. MaxInc
    BY <2>0, ConstantsAssumption
  <2>5. inc' \in [Names -> 0 .. MaxInc]
    BY <1>1, <2>1, Zenon DEF CreateVMIP, TypeOK
  <2> DEFINE o == [uid |-> <<n, inc[n] + 1>>, want |-> s, fin |-> FALSE, del |-> FALSE,
                   addr |-> None, reason |-> "", att |-> FALSE, obs |-> FALSE]
  <2>2. s \in Addrs \cup {AnyIP}
    BY ConstantsAssumption
  <2>3. o \in VMIP
    BY <2>1, <2>2, Zenon DEF VMIP, UIDs, Reasons
  <2>4. PutVMIP(n, o) /\ vw' = VWorker(n)
    BY <1>1, Zenon DEF CreateVMIP
  <2> HIDE DEF o
  <2> QED BY <1>1, <2>5, <2>3, <2>4, PutVMIPOK, VWorkerOK, Zenon DEF CreateVMIP, TypeOK
<1>2. ASSUME NEW n \in Names, NEW s \in Requests, UpdateVMIP(n, s) PROVE TypeOK'
  <2>1. edits' \in 0 .. MaxEdits
    BY <1>2, ConstantsAssumption DEF UpdateVMIP, TypeOK
  <2>2. vmip[n] \in VMIP
    BY <1>2 DEF UpdateVMIP, TypeOK
  <2>4. s \in Addrs \cup {AnyIP}
    BY ConstantsAssumption
  <2>3. [vmip[n] EXCEPT !.want = s, !.obs = FALSE] \in VMIP
    BY <2>2, <2>4, Zenon DEF VMIP
  <2> QED BY <1>2, <2>1, <2>3, PutVMIPOK, VWorkerOK DEF UpdateVMIP, TypeOK
<1>3. ASSUME NEW n \in Names, DeleteVMIP(n) PROVE TypeOK'
  <2>1. vmip[n] \in VMIP
    BY <1>3 DEF DeleteVMIP, TypeOK
  <2> QED BY <1>3, <2>1, DeletedVMIP, PutVMIPOK, VWorkerOK DEF DeleteVMIP, TypeOK
<1>4. ASSUME NEW n \in Shared, UseVMIP(n) PROVE TypeOK'
  BY <1>4, ConstantsAssumption DEF UseVMIP, TypeOK
<1>5. ASSUME NEW n \in Names, SyncVMIP(n) PROVE TypeOK'
  BY <1>5 DEF SyncVMIP, TypeOK
<1>6. ASSUME NEW n \in Names, SyncVM(n) PROVE TypeOK'
  BY <1>6 DEF SyncVM, TypeOK
<1>7. ASSUME NEW a \in Addrs, SyncLease(a) PROVE TypeOK'
  BY <1>7 DEF SyncLease, TypeOK
<1>8. ASSUME NEW n \in Names, VReconcile(n) PROVE TypeOK'
  <2>1. cvmip[n] \in VMIP
    BY <1>8, Zenon DEF VReconcile, TypeOK
  <2>2. (n \in freshV) \in BOOLEAN
    OBVIOUS
  <2>3. vw' \in VWork
    BY <1>8, <2>1, <2>2, Zenon DEF VReconcile, VWork, Reasons
  <2> QED BY <1>8, <2>3, Zenon DEF VReconcile, TypeOK
<1>9. ASSUME VBound PROVE TypeOK'
  <2>1. vw \in VWork
    BY <1>9 DEF VBound, TypeOK
  <2>2. ASSUME NEW pc \in VPcs, NEW a \in Addrs \cup {None}, NEW addr \in Addrs \cup {None},
               NEW r \in Reasons
        PROVE  Outcome(pc, a, addr, r) \in VWork
    BY <2>1, ZenonT(60) DEF Outcome, VWork, VPcs
  <2>3. GetLease(vw.obj) \subseteq Addrs
    <3>1. AssignedIPAddress(vw.obj) # None => AssignedIPAddress(vw.obj) \in Addrs
      BY <2>1, VWorkFields, VMIPFields DEF AssignedIPAddress
    <3> QED BY <3>1 DEF GetLease, Labelled
  <2>4. vw.obj.addr \in Addrs \cup {None}
    BY <2>1, VWorkFields, VMIPFields
  <2>5. BoundHandler(vw.n, vw.obj) \in VWork
    BY <2>2, <2>3, <2>4, Zenon DEF BoundHandler, BindStep, TakeLeaseStep, CreateLeaseStep, VPcs, Reasons
  <2> QED BY <1>9, <2>5 DEF VBound, TypeOK
<1>10. ASSUME VTake PROVE TypeOK'
  <2>1. vw \in VWork
    BY <1>10 DEF VTake, TypeOK
  <2>2. vw.n \in Names /\ vw.obj.uid \in UIDs /\ vw.a \in Addrs
    BY <1>10, <2>1, VWorkFields, VMIPFields DEF VTake, CurrentCopies
  <2>3. [vw EXCEPT !.pc = "update", !.a = None, !.lok = FALSE] \in VWork
    BY <2>1, Zenon DEF VWork
  <2>4. [lease[vw.a] EXCEPT !.ns = NamespaceOf[vw.n], !.name = vw.n, !.uid = vw.obj.uid,
                            !.obs = FALSE] \in Lease
    <3>1. lease[vw.a] \in Lease
      BY <1>10, <2>2 DEF VTake, TypeOK, CurrentCopies
    <3> QED BY <2>2, <3>1, Zenon DEF Lease
  <2> QED BY <1>10, <2>2, <2>3, <2>4, PutLeaseOK, LWorkerOK DEF VTake, TypeOK
<1>11. ASSUME VTakeRefused PROVE TypeOK'
  <2>1. vw \in VWork
    BY <1>11 DEF VTakeRefused, TypeOK
  <2>2. [vw EXCEPT !.pc = "update", !.a = None, !.lok = FALSE] \in VWork
    BY <2>1, Zenon DEF VWork
  <2> QED BY <1>11, <2>2 DEF VTakeRefused, TypeOK
<1>12. ASSUME VCreate PROVE TypeOK'
  <2>1. vw \in VWork
    BY <1>12 DEF VCreate, TypeOK
  <2>2. [vw EXCEPT !.pc = "update"] \in VWork
    BY <2>1, Zenon DEF VWork
  <2>3. NewLease(vw.n, vw.obj.uid) \in Lease
    <3>1. vw.n \in Names /\ vw.obj.uid \in UIDs
      BY <2>1, VWorkFields, VMIPFields
    <3> QED BY <3>1, Zenon DEF NewLease, Lease
  <2>4. PICK ip \in Addrs : PutLease(ip, NewLease(vw.n, vw.obj.uid)) /\ lw' = LWorker(ip)
    BY <1>12 DEF VCreate
  <2> QED BY <1>12, <2>2, <2>3, <2>4, PutLeaseOK, LWorkerOK DEF VCreate, TypeOK
<1>13. ASSUME VNoAddress \/ VCreateFails PROVE TypeOK'
  <2>1. vw \in VWork
    BY <1>13, ZenonT(60) DEF VNoAddress, VCreateFails, TypeOK
  <2>2. PICK r \in Reasons : vw' = [vw EXCEPT !.pc = "update", !.reason = r]
    BY <1>13, Zenon DEF VNoAddress, VCreateFails, Reasons
  <2>3. vw' \in VWork
    BY <2>1, <2>2, Zenon DEF VWork
  <2> QED BY <1>13, <2>3, ZenonT(60) DEF VNoAddress, VCreateFails, TypeOK
<1>14. ASSUME VStatus PROVE TypeOK'
  <2>1. vw \in VWork
    BY <1>14 DEF VStatus, TypeOK
  <2>2. Handled(vw) \in VMIP
    <3>1. /\ vw.obj \in VMIP /\ vw.addr \in Addrs \cup {None} /\ vw.reason \in Reasons
      BY <2>1, VWorkFields
    <3>2. (vw.n \in cInUse) \in BOOLEAN
      OBVIOUS
    <3> QED BY <3>1, <3>2, Zenon DEF Handled, VMIP
  <2>3. ASSUME NEW b \in BOOLEAN PROVE VThenPatch(vw.obj, b) \in VWork \cup {None}
    <3>1. [vw EXCEPT !.pc = "patch", !.fin = b] \in VWork
      BY <2>1, Zenon DEF VWork
    <3> QED BY <3>1, Zenon DEF VThenPatch
  <2>4. vw' \in VWork \cup {None}
    <3>1. KeepFinalizer(vw.obj, Handled(vw).att) \in BOOLEAN
      BY DEF KeepFinalizer
    <3> QED BY <1>14, <2>3, <3>1 DEF VStatus
  <2>5. vmip' \in [Names -> VMIP \cup {None}] /\ freshV' \in SUBSET Names
    <3>1. CASE UNCHANGED <<vmip, freshV>>
      BY <3>1 DEF TypeOK
    <3>2. CASE PutVMIP(vw.n, Handled(vw))
      BY <2>1, <2>2, <3>2, VWorkFields, PutVMIPOK
    <3> QED BY <1>14, <3>1, <3>2 DEF VStatus
  <2> QED BY <1>14, <2>4, <2>5 DEF VStatus, TypeOK
<1>15. ASSUME VStatusRefused PROVE TypeOK'
  BY <1>15 DEF VStatusRefused, TypeOK
<1>16. ASSUME VPatch PROVE TypeOK'
  <2>1. vw.n \in Names /\ vw.fin \in BOOLEAN
    BY <1>16, VWorkFields DEF VPatch, TypeOK
  <2>2. vmip' \in [Names -> VMIP \cup {None}] /\ freshV' \in SUBSET Names
    <3>1. CASE vmip[vw.n] = None
      BY <1>16, <3>1 DEF VPatch, TypeOK
    <3>2. CASE vmip[vw.n] # None
      <4>1. vmip[vw.n] \in VMIP
        BY <2>1, <3>2 DEF TypeOK
      <4> QED BY <1>16, <2>1, <3>2, <4>1, FinalizedVMIP, PutVMIPOK DEF VPatch
    <3> QED BY <3>1, <3>2
  <2> QED BY <1>16, <2>2 DEF VPatch, TypeOK
<1>17. ASSUME NEW a \in Addrs, LReconcile(a) PROVE TypeOK'
  <2>1. clease[a] \in Lease
    BY <1>17 DEF LReconcile, TypeOK
  <2>2. (a \in freshL) \in BOOLEAN
    OBVIOUS
  <2>3. lw' \in LWork
    BY <1>17, <2>1, <2>2, Zenon DEF LReconcile, LWork
  <2> QED BY <1>17, <2>3 DEF LReconcile, TypeOK
<1>18. ASSUME NEW expired \in BOOLEAN, LHandle(expired) PROVE TypeOK'
  <2>1. lw \in LWork
    BY <1>18 DEF LHandle, TypeOK
  <2>2. LeaseHandlers(lw.a, lw.cur) \in Lease
    <3>1. lw.cur \in Lease
      BY <2>1, LWorkFields
    <3>2. CASE IsBound(lw.a, lw.cur)
      <4>1. lw.cur.name \in Names /\ cvmip[lw.cur.name] \in VMIP
        BY <3>1, <3>2, LeaseFields, Zenon DEF IsBound, TypeOK
      <4>2. cvmip[lw.cur.name].uid \in UIDs
        BY <4>1, VMIPFields
      <4> QED BY <3>1, <3>2, <4>2, Zenon DEF LeaseHandlers, Lease
    <3>3. CASE ~IsBound(lw.a, lw.cur)
      BY <3>1, <3>3, ZenonT(60) DEF LeaseHandlers, Lease
    <3> QED BY <3>2, <3>3
  <2>3. ASSUME NEW pc \in LPcs, NEW l \in Lease PROVE [lw EXCEPT !.pc = pc, !.chg = l] \in LWork
    BY <2>1, Zenon DEF LWork, LPcs
  <2>4. lw' \in LWork
    BY <1>18, <2>2, <2>3, Zenon DEF LHandle, LPcs
  <2> QED BY <1>18, <2>4 DEF LHandle, TypeOK
<1>19. ASSUME LDelete PROVE TypeOK'
  <2>1. lw \in LWork
    BY <1>19 DEF LDelete, TypeOK
  <2>2. /\ [lw EXCEPT !.pc = "status", !.ok = FALSE] \in LWork
        /\ [lw EXCEPT !.pc = "status"] \in LWork
    BY <2>1, Zenon DEF LWork
  <2>3. lw.a \in Addrs /\ lease[lw.a] \in Lease \cup {None}
    BY <2>1, LWorkFields DEF TypeOK
  <2>4. CASE lease[lw.a] # None /\ ~lease[lw.a].del
    BY <1>19, <2>2, <2>3, <2>4, DeletedLease, PutLeaseOK, VWorkerLOK DEF LDelete, TypeOK
  <2>5. CASE ~(lease[lw.a] # None /\ ~lease[lw.a].del)
    BY <1>19, <2>2, <2>5 DEF LDelete, TypeOK
  <2> QED BY <2>4, <2>5
<1>20. ASSUME LStatus PROVE TypeOK'
  <2>1. lw \in LWork
    BY <1>20 DEF LStatus, TypeOK
  <2>2. [lw EXCEPT !.pc = "patch"] \in LWork
    BY <2>1, Zenon DEF LWork
  <2>3. lw.a \in Addrs /\ lw.chg.cond \in {"", "Bound", "Released"}
    BY <2>1, LWorkFields, LeaseFields, Zenon
  <2>4. ASSUME NEW l \in Lease PROVE [l EXCEPT !.cond = lw.chg.cond, !.obs = TRUE] \in Lease
    BY <2>3, Zenon DEF Lease
  <2>5. CASE ~LStatusChanged \/ lease[lw.a] = None
    BY <1>20, <2>2, <2>5 DEF LStatus, TypeOK
  <2>6. CASE ~(~LStatusChanged \/ lease[lw.a] = None)
    <3>1. lease[lw.a] \in Lease
      BY <2>3, <2>6, Zenon DEF TypeOK
    <3> QED BY <1>20, <2>2, <2>3, <2>4, <2>6, <3>1, PutLeaseOK, VWorkerLOK, Zenon DEF LStatus, TypeOK
  <2> QED BY <2>5, <2>6
<1>21. ASSUME LStatusRefused PROVE TypeOK'
  BY <1>21 DEF LStatusRefused, TypeOK
<1>22. ASSUME LPatchRefused PROVE TypeOK'
  BY <1>22 DEF LPatchRefused, TypeOK
<1>23. ASSUME LPatch PROVE TypeOK'
  <2>1. lw \in LWork
    BY <1>23 DEF LPatch, TypeOK
  <2>2. /\ [lw EXCEPT !.pc = "spec"] \in LWork
        /\ [lw EXCEPT !.pc = "spec", !.ok = TRUE] \in LWork
    BY <2>1, Zenon DEF LWork
  <2>3. lw.a \in Addrs /\ lw.chg.uid \in UIDs \cup {None} /\ lw.chg.fin \in BOOLEAN
    BY <2>1, LWorkFields, LeaseFields, Zenon
  <2>4. ASSUME NEW l \in Lease PROVE Patched(l) \in Lease \cup {None}
    <3>1. (IF LFinChanged THEN lw.chg.fin ELSE l.fin) \in BOOLEAN
      BY <2>3, LeaseFields, Zenon
    <3>2. [l EXCEPT !.uid = IF LabelsChanged THEN lw.chg.uid ELSE @] \in Lease
      BY <2>3, Zenon DEF Lease
    <3> QED BY <3>1, <3>2, FinalizedLease DEF Patched
  <2>5. CASE lease[lw.a] # None /\ (LabelsChanged \/ LFinChanged)
    <3>1. lease[lw.a] \in Lease
      BY <2>3, <2>5 DEF TypeOK
    <3> QED BY <1>23, <2>2, <2>3, <2>4, <2>5, <3>1, PutLeaseOK, VWorkerLOK DEF LPatch, TypeOK
  <2>6. CASE ~(lease[lw.a] # None /\ (LabelsChanged \/ LFinChanged))
    BY <1>23, <2>2, <2>6 DEF LPatch, TypeOK
  <2> QED BY <2>5, <2>6
<1>25. ASSUME LSpec PROVE TypeOK'
  <2>1. lw.a \in Addrs /\ lw.chg.name \in Names \cup {None}
    BY <1>25, LWorkFields, LeaseFields, Zenon DEF LSpec, TypeOK
  <2>2. ASSUME NEW l \in Lease PROVE [l EXCEPT !.name = lw.chg.name, !.obs = FALSE] \in Lease
    BY <2>1, ZenonT(60) DEF Lease
  <2>3. CASE lw.chg.name # lw.cur.name /\ lease[lw.a] # None /\ lw.ok
    <3>1. lease[lw.a] \in Lease
      BY <2>1, <2>3 DEF TypeOK
    <3> QED BY <1>25, <2>1, <2>2, <2>3, <3>1, PutLeaseOK, VWorkerLOK, ZenonT(60) DEF LSpec, TypeOK
  <2>4. CASE ~(lw.chg.name # lw.cur.name /\ lease[lw.a] # None /\ lw.ok)
    BY <1>25, <2>4 DEF LSpec, TypeOK
  <2> QED BY <2>3, <2>4
<1>26. ASSUME Restart PROVE TypeOK'
  BY <1>26 DEF Restart, TypeOK
<1>24. CASE UNCHANGED vars
  BY <1>24 DEF vars, TypeOK
<1> QED
  BY ConstantsAssumption, <1>1, <1>2, <1>3, <1>4, <1>5, <1>6, <1>7, <1>8, <1>9, <1>10, <1>11, <1>12, <1>13,
     <1>14, <1>15, <1>16, <1>17, <1>18, <1>19, <1>20, <1>21, <1>22, <1>23, <1>24, <1>25, <1>26
  DEF Next, Users, Sync, VController, LController

LEMMA InitCurrentCopies == Init => CurrentCopies
  BY DEF Init, CurrentCopies

LEMMA NextCurrentCopies == TypeOK /\ CurrentCopies /\ [Next]_vars => CurrentCopies'
<1> SUFFICES ASSUME TypeOK, CurrentCopies, [Next]_vars PROVE CurrentCopies'
  OBVIOUS
<1> DEFINE Held == vw # None /\ vw.lok => vw.pc = "take" /\ vw.a # None /\ lease[vw.a] # None
\* a write of a lease makes the cached copy stale, and that of the vmip worker
<1>1. ASSUME NEW a \in Addrs, NEW l, PutLease(a, l), vw' = VWorkerL(a), UNCHANGED clease
      PROVE  CurrentCopies'
  <2>1. \A b \in freshL' : clease'[b] = lease'[b]
    BY <1>1 DEF PutLease, CurrentCopies, TypeOK
  <2>2. Held'
    <3>1. CASE vw # None /\ vw.a = a
      <4>1. vw \in VWork
        BY <3>1 DEF TypeOK
      <4>2. vw' # None => ~vw'.lok
        BY <1>1, <3>1, <4>1 DEF VWorkerL, VWork
      <4> QED BY <4>2
    <3>2. CASE ~(vw # None /\ vw.a = a)
      BY <1>1, <3>2 DEF VWorkerL, PutLease, CurrentCopies, TypeOK
    <3> QED BY <3>1, <3>2
  <2> QED BY <2>1, <2>2 DEF CurrentCopies
\* a step that touches no lease, and after which the worker holds no lease
<1>2. ASSUME UNCHANGED <<lease, clease, freshL>>, vw' # None => ~vw'.lok
      PROVE  CurrentCopies'
  BY <1>2 DEF CurrentCopies
<1>3. ASSUME UNCHANGED <<lease, clease, freshL, vw>> PROVE CurrentCopies'
  BY <1>3 DEF CurrentCopies
<1>4. ASSUME NEW n, UNCHANGED <<lease, clease, freshL>>, vw' = VWorker(n) PROVE CurrentCopies'
  <2>1. CASE vw = None
    BY <1>4, <2>1 DEF VWorker, CurrentCopies
  <2>2. CASE vw # None
    <3>1. vw \in VWork
      BY <2>2 DEF TypeOK
    <3>2. vw'.lok = vw.lok /\ vw'.a = vw.a /\ vw'.pc = vw.pc
      BY <1>4, <3>1, ZenonT(60) DEF VWorker, VWork
    <3> QED BY <1>4, <2>2, <3>2 DEF CurrentCopies
  <2> QED BY <2>1, <2>2
<1>5. ASSUME NEW n \in Names, NEW s \in Requests, CreateVMIP(n, s) PROVE CurrentCopies'
  BY <1>4, <1>5, Zenon DEF CreateVMIP
<1>6. ASSUME NEW n \in Names, NEW s \in Requests, UpdateVMIP(n, s)
      PROVE  CurrentCopies'
  BY <1>4, <1>6 DEF UpdateVMIP
<1>7. ASSUME NEW n \in Names, DeleteVMIP(n) PROVE CurrentCopies'
  BY <1>4, <1>7 DEF DeleteVMIP
<1>8. ASSUME NEW n \in Names, UseVMIP(n) \/ SyncVMIP(n) \/ SyncVM(n) PROVE CurrentCopies'
  BY <1>3, <1>8 DEF UseVMIP, SyncVMIP, SyncVM
<1>9. ASSUME NEW a \in Addrs, SyncLease(a) PROVE CurrentCopies'
  BY <1>9 DEF SyncLease, CurrentCopies, TypeOK
<1>10. ASSUME NEW n \in Names, VReconcile(n) PROVE CurrentCopies'
  BY <1>2, <1>10, Zenon DEF VReconcile
<1>11. ASSUME VBound PROVE CurrentCopies'
  <2>1. vw \in VWork
    BY <1>11 DEF VBound, TypeOK
  <2>2. ASSUME NEW pc, NEW a, NEW addr, NEW r
        PROVE  /\ Outcome(pc, a, addr, r).lok <=> a # None /\ LeaseIsCurrent(vw.obj, a)
               /\ Outcome(pc, a, addr, r).a = a /\ Outcome(pc, a, addr, r).pc = pc
    BY <2>1, ZenonT(60) DEF Outcome, VWork
  <2> DEFINE a == CHOOSE x \in GetLease(vw.obj) : TRUE
  <2> HIDE DEF a
  <2>3. CASE vw' = Outcome("take", a, a, "NotReady") /\ a \in GetLease(vw.obj)
    <3>1. a \in Addrs => FoundInCache(vw.obj, a) \/ lease[a] # None
      BY <2>3 DEF GetLease, Labelled, FoundInCache
    <3>2. LeaseIsCurrent(vw.obj, a) /\ a \in Addrs => lease[a] # None
      BY <3>1 DEF LeaseIsCurrent, FoundInCache, CurrentCopies
    <3>3. a # None => a \in Addrs
      BY <2>1, <2>3, VWorkFields, VMIPFields DEF GetLease, AssignedIPAddress, Labelled
    <3> QED BY <1>11, <2>2, <2>3, <3>2, <3>3 DEF VBound, CurrentCopies
  <2>4. CASE \E pc, addr, r : vw' = Outcome(pc, None, addr, r)
    BY <1>2, <1>11, <2>2, <2>4 DEF VBound
  <2>5. vw' = BoundHandler(vw.n, vw.obj)
    BY <1>11 DEF VBound
  <2> QED
    BY <2>3, <2>4, <2>5
    DEF BoundHandler, BindStep, TakeLeaseStep, CreateLeaseStep, a
<1>12. ASSUME VTake PROVE CurrentCopies'
  <2>1. vw \in VWork /\ vw.a \in Addrs
    BY <1>12, VWorkFields DEF VTake, TypeOK, CurrentCopies
  <2>2. ~vw'.lok
    BY <1>12, <2>1, Zenon DEF VTake, VWork
  <2> QED BY <1>12, <2>1, <2>2 DEF VTake, PutLease, CurrentCopies, TypeOK
<1>13. ASSUME VTakeRefused PROVE CurrentCopies'
  <2>1. vw \in VWork
    BY <1>13 DEF VTakeRefused, TypeOK
  <2>2. ~vw'.lok
    BY <1>13, <2>1, Zenon DEF VTakeRefused, VWork
  <2> QED BY <1>2, <1>13, <2>2 DEF VTakeRefused
<1>14. ASSUME VCreate PROVE CurrentCopies'
  <2>1. vw \in VWork
    BY <1>14 DEF VCreate, TypeOK
  <2>2. vw'.lok = vw.lok /\ ~vw.lok
    BY <1>14, <2>1 DEF VCreate, VWork, CurrentCopies
  <2>3. PICK ip \in Addrs : PutLease(ip, NewLease(vw.n, vw.obj.uid))
    BY <1>14 DEF VCreate
  <2> QED BY <1>14, <2>2, <2>3 DEF VCreate, PutLease, CurrentCopies, TypeOK
<1>15. ASSUME VNoAddress \/ VCreateFails PROVE CurrentCopies'
  <2>1. vw \in VWork
    BY <1>15, Zenon DEF VNoAddress, VCreateFails, TypeOK
  <2>2. PICK r \in Reasons : vw' = [vw EXCEPT !.pc = "update", !.reason = r]
    BY <1>15, Zenon DEF VNoAddress, VCreateFails, Reasons
  <2>3. vw'.lok = vw.lok /\ ~vw.lok
    BY <1>15, <2>1, <2>2, Zenon DEF VNoAddress, VCreateFails, VWork, CurrentCopies
  <2> QED BY <1>2, <1>15, <2>3, ZenonT(60) DEF VNoAddress, VCreateFails
<1>16. ASSUME VStatus PROVE CurrentCopies'
  <2>1. vw \in VWork
    BY <1>16 DEF VStatus, TypeOK
  <2>2. vw' # None => ~vw'.lok
    BY <1>16, <2>1 DEF VStatus, VThenPatch, VWork, CurrentCopies
  <2> QED BY <1>2, <1>16, <2>2 DEF VStatus
<1>17. ASSUME VStatusRefused \/ VPatch PROVE CurrentCopies'
  BY <1>2, <1>17 DEF VStatusRefused, VPatch
<1>18. ASSUME NEW a \in Addrs, LReconcile(a) PROVE CurrentCopies'
  BY <1>3, <1>18 DEF LReconcile
<1>19. ASSUME NEW expired \in BOOLEAN, LHandle(expired) PROVE CurrentCopies'
  BY <1>3, <1>19 DEF LHandle
<1>20. ASSUME LDelete PROVE CurrentCopies'
  BY <1>1, <1>3, <1>20, LWorkFields DEF LDelete, TypeOK
<1>21. ASSUME LStatus PROVE CurrentCopies'
  BY <1>1, <1>3, <1>21, LWorkFields DEF LStatus, TypeOK
<1>22. ASSUME LStatusRefused \/ LPatchRefused PROVE CurrentCopies'
  BY <1>3, <1>22 DEF LStatusRefused, LPatchRefused
<1>23. ASSUME LPatch PROVE CurrentCopies'
  BY <1>1, <1>3, <1>23, LWorkFields DEF LPatch, TypeOK
<1>24. ASSUME LSpec PROVE CurrentCopies'
  BY <1>1, <1>3, <1>24, LWorkFields DEF LSpec, TypeOK
<1>25. ASSUME Restart PROVE CurrentCopies'
  BY <1>25 DEF Restart, CurrentCopies
<1>26. CASE UNCHANGED vars
  BY <1>3, <1>26 DEF vars
<1> QED
  BY ConstantsAssumption, <1>5, <1>6, <1>7, <1>8, <1>9, <1>10, <1>11, <1>12, <1>13, <1>14,
     <1>15, <1>16, <1>17, <1>18, <1>19, <1>20, <1>21, <1>22, <1>23, <1>24, <1>25, <1>26
  DEF Next, Users, Sync, VController, LController

\* Every object, cached copy and in-flight reconcile of the address controllers
\* is well formed, whatever the names, the addresses and the bounds are.
THEOREM TypeCorrect == Spec => []TypeOK
  BY InitTypeOK, NextTypeOK, InitCurrentCopies, NextCurrentCopies, PTL DEF Spec

-----------------------------------------------------------------------------
\* The rest of this module prepares IPAMSafety: what the controllers know of a
\* vmip they know for ever, as long as names are not reused and specs not edited.

Once == MaxInc = 1 /\ MaxEdits = 0

\* what the incarnation numbers of an absent and of a known vmip differ by
LEMMA OneNotZero == 1 # 0
OBVIOUS

\* without an edit left nobody changes the spec of a vmip
LEMMA NoEdits == ASSUME Once, TypeOK, NEW n, NEW s PROVE ~UpdateVMIP(n, s)
<1>1. edits \in 0 .. MaxEdits /\ MaxEdits = 0
  BY DEF TypeOK, Once
<1>2. ~(edits < MaxEdits)
  BY <1>1
<1> QED BY <1>2 DEF UpdateVMIP

\* marking a copy as out of date leaves the rest of the worker's record alone
LEMMA VWorkerKeeps ==
  ASSUME TypeOK, NEW n, vw # None
  PROVE  /\ VWorker(n) # None /\ VWorker(n).pc = vw.pc /\ VWorker(n).n = vw.n
         /\ VWorker(n).obj = vw.obj /\ VWorker(n).a = vw.a /\ VWorker(n).lok = vw.lok
         /\ VWorker(n).addr = vw.addr /\ VWorker(n).reason = vw.reason
         /\ VWorker(n).ok => vw.ok /\ vw.n # n
<1>1. vw \in VWork
  BY DEF TypeOK
<1>2. VWorker(n) # None
  BY VWorkerOK, NoneAssumption, <1>1, ZenonT(60) DEF VWorker, VWork
<1>3. VWorker(n).ok => vw.ok /\ vw.n # n
  BY <1>1, Zenon DEF VWorker, VWork
<1> QED BY <1>1, <1>2, <1>3, Zenon DEF VWorker, VWork

LEMMA VWorkerLKeeps ==
  ASSUME TypeOK, NEW a, vw # None
  PROVE  /\ VWorkerL(a) # None /\ VWorkerL(a).pc = vw.pc /\ VWorkerL(a).n = vw.n
         /\ VWorkerL(a).obj = vw.obj /\ VWorkerL(a).a = vw.a /\ VWorkerL(a).ok = vw.ok
         /\ VWorkerL(a).addr = vw.addr /\ VWorkerL(a).reason = vw.reason
         /\ VWorkerL(a).lok => vw.lok /\ vw.a # a
<1>1. vw \in VWork
  BY DEF TypeOK
<1>2. VWorkerL(a) # None
  BY NoneAssumption, <1>1, ZenonT(60) DEF VWorkerL, VWork
<1>3. VWorkerL(a).lok => vw.lok /\ vw.a # a
  BY <1>1, Zenon DEF VWorkerL, VWork
<1> QED BY <1>1, <1>2, <1>3, Zenon DEF VWorkerL, VWork

LEMMA LWorkerKeeps ==
  ASSUME TypeOK, NEW a, lw # None
  PROVE  /\ LWorker(a) # None /\ LWorker(a).pc = lw.pc /\ LWorker(a).a = lw.a
         /\ LWorker(a).cur = lw.cur /\ LWorker(a).chg = lw.chg
         /\ LWorker(a).ok => lw.ok /\ lw.a # a
<1>1. lw \in LWork
  BY DEF TypeOK
<1>2. LWorker(a) # None
  BY NoneAssumption, <1>1, ZenonT(60) DEF LWorker, LWork
<1>3. LWorker(a).ok => lw.ok /\ lw.a # a
  BY <1>1, Zenon DEF LWorker, LWork
<1> QED BY <1>1, <1>2, <1>3, Zenon DEF LWorker, LWork

LEMMA IdleWorkers ==
  ASSUME NEW x
  PROVE  /\ vw = None => VWorker(x) = None /\ VWorkerL(x) = None
         /\ lw = None => LWorker(x) = None
  BY DEF VWorker, VWorkerL, LWorker

\* what the writes of the lease controller leave of a lease
LEMMA DeletedKeeps ==
  ASSUME NEW l \in Lease, Deleted(l) # None
  PROVE  l.fin /\ Deleted(l).name = l.name /\ Deleted(l).ns = l.ns /\ ~Deleted(l).obs /\ Deleted(l).fin
  BY Zenon DEF Deleted, Lease

LEMMA PatchedKeeps ==
  ASSUME NEW l \in Lease, Patched(l) # None
  PROVE  /\ Patched(l).name = l.name /\ Patched(l).ns = l.ns /\ Patched(l).cond = l.cond
         /\ Patched(l).obs = l.obs /\ Patched(l).del = l.del
         /\ Patched(l).del => Patched(l).fin
<1> DEFINE u == IF LabelsChanged THEN lw.chg.uid ELSE l.uid
           f == IF LFinChanged THEN lw.chg.fin ELSE l.fin
           k == [l EXCEPT !.uid = u]
<1>1. Patched(l) = Finalized(k, f)
  BY Zenon DEF Patched, Lease
<1>2. /\ k.name = l.name /\ k.ns = l.ns /\ k.cond = l.cond /\ k.obs = l.obs /\ k.del = l.del
      /\ k \in [{"ns", "name", "uid", "fin", "del", "cond", "obs"} -> {k[x] : x \in {"ns", "name", "uid", "fin", "del", "cond", "obs"}}]
  BY ZenonT(60) DEF Lease
<1> HIDE DEF k, f
<1> QED BY <1>1, <1>2 DEF Finalized

-----------------------------------------------------------------------------
\* Once the controllers know a vmip they know it for ever: its name is not
\* used again, and the cache follows the API server
LEMMA KnownStable ==
  ASSUME Once, TypeOK, [Next]_vars, NEW n \in Names, Known(n)
  PROVE  Known(n)'
\* a write of a vmip that exists
<1>1. ASSUME NEW m \in Names, NEW o, vmip[m] # None, PutVMIP(m, o), UNCHANGED <<cvmip, inc>>
      PROVE  Known(n)'
  BY <1>1 DEF PutVMIP, Known, TypeOK
<1>2. ASSUME UNCHANGED <<vmip, cvmip, inc>> PROVE Known(n)'
  BY <1>2 DEF Known
<1>3. ASSUME NEW m \in Names, NEW s, CreateVMIP(m, s) PROVE Known(n)'
  <2>1. inc[m] < 1 /\ inc[n] = 1
    BY <1>3, Zenon DEF CreateVMIP, Known, Once
  <2>2. m # n
    BY <2>1
  <2> QED BY <1>3, <2>2, Zenon DEF CreateVMIP, PutVMIP, Known, TypeOK
<1>4. ASSUME NEW m \in Names, DeleteVMIP(m) PROVE Known(n)'
  BY <1>1, <1>4 DEF DeleteVMIP
<1>5. ASSUME NEW m \in Names, SyncVMIP(m) PROVE Known(n)'
  BY <1>5 DEF SyncVMIP, Known, TypeOK
<1>6. ASSUME VStatus \/ VPatch PROVE Known(n)'
  <2>1. vw.n \in Names
    BY <1>6, VWorkFields DEF VStatus, VPatch, TypeOK
  <2> QED BY <1>1, <1>2, <1>6, <2>1 DEF VStatus, VPatch
<1>7. ASSUME Restart PROVE Known(n)'
  BY <1>7, Zenon DEF Restart, Known
<1>8. ASSUME NEW m \in Names, UseVMIP(m) \/ SyncVM(m) \/ VReconcile(m) PROVE Known(n)'
  BY <1>2, <1>8, Zenon DEF UseVMIP, SyncVM, VReconcile
<1>9. ASSUME NEW a \in Addrs, SyncLease(a) \/ LReconcile(a) PROVE Known(n)'
  BY <1>2, <1>9 DEF SyncLease, LReconcile
<1>10. ASSUME VBound \/ VTake \/ VTakeRefused \/ VCreate \/ VNoAddress \/ VCreateFails \/ VStatusRefused
       PROVE  Known(n)'
  BY <1>2, <1>10, Zenon DEF VBound, VTake, VTakeRefused, VCreate, VNoAddress, VCreateFails, VStatusRefused
<1>11. ASSUME NEW b \in BOOLEAN, LHandle(b) PROVE Known(n)'
  BY <1>2, <1>11 DEF LHandle
<1>12. ASSUME LDelete \/ LStatus \/ LStatusRefused \/ LPatch \/ LPatchRefused \/ LSpec
       PROVE  Known(n)'
  BY <1>2, <1>12 DEF LDelete, LStatus, LStatusRefused, LPatch, LPatchRefused, LSpec
<1>13. CASE UNCHANGED vars
  BY <1>2, <1>13 DEF vars
<1> QED
  BY ConstantsAssumption, NoEdits, <1>3, <1>4, <1>5, <1>6, <1>7, <1>8, <1>9, <1>10, <1>11, <1>12, <1>13
  DEF Next, Users, Sync, VController, LController

LEMMA InitMentionsKnown == Init => MentionsKnown
  BY DEF Init, MentionsKnown

LEMMA NextMentionsKnown ==
  Once /\ TypeOK /\ CurrentCopies /\ LeaseHandled /\ MentionsKnown /\ [Next]_vars => MentionsKnown'
<1> SUFFICES ASSUME Once, TypeOK, CurrentCopies, LeaseHandled, MentionsKnown, [Next]_vars
             PROVE  MentionsKnown'
  OBVIOUS
<1> DEFINE Counted == \A n \in Names : vmip[n] # None \/ cvmip[n] # None => inc[n] = 1
           InLease == \A a \in Addrs : lease[a] # None /\ lease[a].name # None => Known(lease[a].name)
           InCache == \A a \in Addrs : clease[a] # None /\ clease[a].name # None => Known(clease[a].name)
           InL == lw # None /\ lw.cur.name # None => Known(lw.cur.name)
           InV == vw # None => Known(vw.n)
<1>0. Counted /\ InLease /\ InCache /\ InL /\ InV
  BY DEF MentionsKnown
<1>1. ASSUME NEW n \in Names, Known(n) PROVE Known(n)'
  BY <1>1, KnownStable
<1>2. \A a \in Addrs :
        /\ lease[a] # None => lease[a] \in Lease /\ lease[a].name \in Names \cup {None}
        /\ clease[a] # None => clease[a].name \in Names \cup {None}
  BY LeaseFields, ZenonT(60) DEF TypeOK
<1>3. lw # None => lw \in LWork /\ lw.a \in Addrs /\ lw.cur.name \in Names \cup {None}
  BY LWorkFields, LeaseFields, Zenon DEF TypeOK
<1>4. vw # None => vw \in VWork /\ vw.n \in Names /\ vw.obj.uid \in UIDs
  BY VWorkFields, VMIPFields DEF TypeOK
\* what was mentioned before is still known
<1>5. /\ UNCHANGED lease => InLease'
      /\ UNCHANGED clease => InCache'
      /\ (lw' # None => lw # None /\ lw'.cur = lw.cur) => InL'
      /\ (vw' # None => vw # None /\ vw'.n = vw.n) => InV'
  BY <1>0, <1>1, <1>2, <1>3, <1>4 DEF Known
<1>6. \A a : (lw' = LWorker(a) => InL') /\ (vw' = VWorkerL(a) => InV') /\ (vw' = VWorker(a) => InV')
  BY <1>5, LWorkerKeeps, VWorkerLKeeps, VWorkerKeeps, IdleWorkers, SMTT(20), ZenonT(20), SMTT(40)
\* a write of one lease
<1>7. ASSUME NEW a \in Addrs, NEW l, PutLease(a, l),
             l # None /\ l.name # None => l.name \in Names /\ Known(l.name)
      PROVE  InLease'
  BY <1>0, <1>1, <1>2, <1>7 DEF PutLease, TypeOK, Known
<1>8. ASSUME NEW n \in Names, NEW o, vmip[n] # None, PutVMIP(n, o), UNCHANGED <<cvmip, inc>>
      PROVE  Counted'
  BY <1>0, <1>8 DEF PutVMIP, TypeOK
<1>9. UNCHANGED <<vmip, cvmip, inc>> => Counted'
  BY <1>0
<1>10. Counted' /\ InLease' /\ InCache' /\ InL' /\ InV' => MentionsKnown'
  BY DEF MentionsKnown
<1>11. ASSUME NEW n \in Names, NEW s, CreateVMIP(n, s) PROVE MentionsKnown'
  <2>0. inc[n] \in 0 .. 1 /\ inc[n] < 1
    BY <1>11, Zenon DEF CreateVMIP, TypeOK, Once
  <2>1. inc[n] + 1 = 1
    BY <2>0
  <2>2. Counted'
    BY <1>0, <1>11, <2>1, ZenonT(60) DEF CreateVMIP, PutVMIP, TypeOK
  <2> QED BY <1>5, <1>6, <1>10, <1>11, <2>2, Zenon DEF CreateVMIP
<1>12. ASSUME NEW n \in Names, DeleteVMIP(n) PROVE MentionsKnown'
  BY <1>5, <1>6, <1>8, <1>10, <1>12, Zenon DEF DeleteVMIP
<1>13. ASSUME NEW n \in Names, UseVMIP(n) \/ SyncVM(n) PROVE MentionsKnown'
  BY <1>5, <1>9, <1>10, <1>13 DEF UseVMIP, SyncVM
<1>14. ASSUME NEW n \in Names, SyncVMIP(n) PROVE MentionsKnown'
  <2>1. Counted'
    BY <1>0, <1>14 DEF SyncVMIP, TypeOK
  <2> QED BY <1>5, <1>10, <1>14, <2>1 DEF SyncVMIP
<1>15. ASSUME NEW a \in Addrs, SyncLease(a) PROVE MentionsKnown'
  <2>1. InCache'
    BY <1>0, <1>1, <1>2, <1>15, Zenon DEF SyncLease, TypeOK, Known
  <2> QED BY <1>5, <1>9, <1>10, <1>15, <2>1, Zenon DEF SyncLease
<1>16. ASSUME NEW n \in Names, VReconcile(n) PROVE MentionsKnown'
  <2>1. vw'.n = n /\ Known(n)
    BY <1>0, <1>16, ZenonT(60) DEF VReconcile, Known
  <2> QED BY <1>1, <1>5, <1>9, <1>10, <1>16, <2>1, Zenon DEF VReconcile
<1>17. ASSUME VBound PROVE MentionsKnown'
  <2>1. vw'.n = vw.n
    BY <1>4, <1>17, ZenonT(60) DEF VBound, BoundHandler, CreateLeaseStep, BindStep, TakeLeaseStep, Outcome, VWork
  <2> QED BY <1>5, <1>9, <1>10, <1>17, <2>1, Zenon DEF VBound
<1>18. ASSUME VTakeRefused \/ VNoAddress \/ VCreateFails \/ VStatusRefused PROVE MentionsKnown'
  <2>1. vw' # None => vw # None /\ vw'.n = vw.n
    BY <1>4, <1>18, Zenon DEF VTakeRefused, VNoAddress, VCreateFails, VStatusRefused, VWork
  <2> QED BY <1>5, <1>9, <1>10, <1>18, <2>1, ZenonT(60) DEF VTakeRefused, VNoAddress, VCreateFails, VStatusRefused
<1>19. ASSUME VTake PROVE MentionsKnown'
  <2>4. vw # None /\ vw.lok /\ vw'.n = vw.n
    BY <1>4, <1>19 DEF VTake, VWork
  <2>1. vw.a \in Addrs /\ lease[vw.a] \in Lease
    BY <1>2, <1>4, <2>4, VWorkFields DEF CurrentCopies
  <2>2. [lease[vw.a] EXCEPT !.ns = NamespaceOf[vw.n], !.name = vw.n, !.uid = vw.obj.uid, !.obs = FALSE].name = vw.n
    BY <2>1, Zenon DEF Lease
  <2>3. InLease'
    BY <1>0, <1>4, <1>7, <1>19, <2>1, <2>2, ZenonT(60) DEF VTake
  <2> QED BY <1>5, <1>6, <1>9, <1>10, <1>19, <2>3, <2>4 DEF VTake
<1>20. ASSUME VCreate PROVE MentionsKnown'
  <2>1. vw'.n = vw.n
    BY <1>4, <1>20 DEF VCreate, VWork
  <2>2. PICK ip \in Addrs : PutLease(ip, NewLease(vw.n, vw.obj.uid)) /\ lw' = LWorker(ip)
    BY <1>20 DEF VCreate
  <2>3. NewLease(vw.n, vw.obj.uid).name = vw.n
    BY DEF NewLease
  <2>4. InLease'
    BY <1>0, <1>4, <1>7, <1>20, <2>2, <2>3 DEF VCreate
  <2> QED BY <1>5, <1>6, <1>9, <1>10, <1>20, <2>1, <2>2, <2>4 DEF VCreate
<1>21. ASSUME VStatus \/ VPatch PROVE MentionsKnown'
  <2>1. vw' # None => vw'.n = vw.n
    BY <1>4, <1>21, ZenonT(60) DEF VStatus, VPatch, VThenPatch, VWork
  <2>2. Counted'
    BY <1>4, <1>8, <1>9, <1>21, Zenon DEF VStatus, VPatch
  <2> QED BY <1>5, <1>10, <1>21, <2>1, <2>2, Zenon DEF VStatus, VPatch
<1>22. ASSUME NEW a \in Addrs, LReconcile(a) PROVE MentionsKnown'
  <2>1. lw'.cur = clease[a] /\ clease[a] # None
    BY <1>22 DEF LReconcile
  <2>2. InL'
    BY <1>0, <1>1, <1>2, <2>1, SMTT(20), ZenonT(20), SMTT(40) DEF Known
  <2> QED BY <1>5, <1>9, <1>10, <1>22, <2>2, Zenon DEF LReconcile
<1>23. ASSUME NEW b \in BOOLEAN, LHandle(b) PROVE MentionsKnown'
  <2>1. lw'.cur = lw.cur
    BY <1>3, <1>23 DEF LHandle, LWork
  <2> QED BY <1>5, <1>9, <1>10, <1>23, <2>1 DEF LHandle
<1>24. ASSUME LStatusRefused \/ LPatchRefused PROVE MentionsKnown'
  BY <1>5, <1>9, <1>10, <1>24, Zenon DEF LStatusRefused, LPatchRefused
<1>25. ASSUME LDelete PROVE MentionsKnown'
  <2>1. lw'.cur = lw.cur
    BY <1>3, <1>25, Zenon DEF LDelete, LWork
  <2>2. lw.a \in Addrs /\ (lease[lw.a] # None => lease[lw.a] \in Lease)
    BY <1>2, <1>3, <1>25 DEF LDelete
  <2>3. InLease'
    BY <1>0, <1>2, <1>5, <1>7, <1>25, <2>2, DeletedKeeps DEF LDelete
  <2> QED BY <1>5, <1>6, <1>9, <1>10, <1>25, <2>1, <2>3 DEF LDelete
<1>26. ASSUME LStatus PROVE MentionsKnown'
  <2>1. lw'.cur = lw.cur
    BY <1>3, <1>26 DEF LStatus, LWork
  <2>2. lw.a \in Addrs /\ (lease[lw.a] # None => lease[lw.a] \in Lease)
    BY <1>2, <1>3, <1>26 DEF LStatus
  <2>4. lease[lw.a] # None => [lease[lw.a] EXCEPT !.cond = lw.chg.cond, !.obs = TRUE].name = lease[lw.a].name
    BY <2>2, Zenon DEF Lease
  <2>3. InLease'
    BY <1>0, <1>2, <1>5, <1>7, <1>26, <2>2, <2>4, ZenonT(60) DEF LStatus
  <2> QED BY <1>5, <1>6, <1>9, <1>10, <1>26, <2>1, <2>3 DEF LStatus
<1>27. ASSUME LPatch PROVE MentionsKnown'
  <2>1. lw'.cur = lw.cur
    BY <1>3, <1>27, Zenon DEF LPatch, LWork
  <2>2. lw.a \in Addrs /\ (lease[lw.a] # None => lease[lw.a] \in Lease)
    BY <1>2, <1>3, <1>27 DEF LPatch
  <2>3. InLease'
    BY <1>0, <1>2, <1>5, <1>7, <1>27, <2>2, PatchedKeeps DEF LPatch
  <2> QED BY <1>5, <1>6, <1>9, <1>10, <1>27, <2>1, <2>3 DEF LPatch
<1>28. ASSUME LSpec PROVE MentionsKnown'
  <2>1. CASE lw.chg.name # lw.cur.name /\ lease[lw.a] # None /\ lw.ok
    <3>0. lw # None /\ lw.pc # "vmip"
      BY <1>28 DEF LSpec
    <3>1. lw.chg.name = None /\ lease[lw.a] \in Lease
      BY <1>2, <1>3, <2>1, <3>0 DEF LeaseHandled
    <3>2. [lease[lw.a] EXCEPT !.name = lw.chg.name, !.obs = FALSE].name = None
      BY <3>1, Zenon DEF Lease
    <3>3. InLease'
      BY <1>3, <1>7, <1>28, <2>1, <3>2, Zenon DEF LSpec
    <3> QED BY <1>5, <1>6, <1>9, <1>10, <1>28, <2>1, <3>3 DEF LSpec
  <2>2. CASE ~(lw.chg.name # lw.cur.name /\ lease[lw.a] # None /\ lw.ok)
    BY <1>5, <1>9, <1>10, <1>28, <2>2 DEF LSpec
  <2> QED BY <2>1, <2>2
<1>29. ASSUME Restart PROVE MentionsKnown'
  <2>1. InLease' /\ InCache'
    BY <1>0, <1>1, <1>2, <1>5, <1>29 DEF Restart
  <2>2. Counted'
    BY <1>0, <1>29 DEF Restart
  <2> QED BY <1>5, <1>10, <1>29, <2>1, <2>2 DEF Restart
<1>30. CASE UNCHANGED vars
  BY <1>5, <1>9, <1>10, <1>30 DEF vars
<1> QED
  BY ConstantsAssumption, NoEdits, <1>11, <1>12, <1>13, <1>14, <1>15, <1>16, <1>17, <1>18, <1>19, <1>20,
     <1>21, <1>22, <1>23, <1>24, <1>25, <1>26, <1>27, <1>28, <1>29, <1>30, SMTT(30)
  DEF Next, Users, Sync, VController, LController

-----------------------------------------------------------------------------
\* What the Bound handler decides from the copies it reads: it means to take a
\* lease only if the copy is unoccupied, it reports Bound only if some copy of
\* the lease says so, and it never gives up an address assigned before
LEMMA FoundLease ==
  ASSUME TypeOK, NEW o \in VMIP, NEW a \in GetLease(o)
  PROVE  /\ a \in Addrs
         /\ FoundInCache(o, a) \/ lease[a] # None
         /\ o.want # AnyIP => a = o.want
         /\ o.want = AnyIP /\ o.addr # None => a = o.addr
<1>1. AssignedIPAddress(o) \in Addrs \cup {None}
  BY VMIPFields DEF AssignedIPAddress
<1>2. AssignedIPAddress(o) = None => o.want = AnyIP /\ o.addr = None
  BY VMIPFields, ConstantsAssumption DEF AssignedIPAddress
<1>3. CASE AssignedIPAddress(o) # None
  <2>1. a = AssignedIPAddress(o) /\ (clease[a] # None \/ lease[a] # None)
    BY <1>3 DEF GetLease
  <2> QED BY <1>1, <1>3, <2>1 DEF AssignedIPAddress, FoundInCache
<1>4. CASE AssignedIPAddress(o) = None
  <2>1. a \in Labelled(clease, o.uid) \/ a \in Labelled(lease, o.uid)
    BY <1>4, SMTT(30) DEF GetLease
  <2> QED BY <1>2, <1>4, <2>1 DEF Labelled, FoundInCache
<1> QED BY <1>3, <1>4

LEMMA BoundOutcome ==
  ASSUME TypeOK, CurrentCopies, VBound, StaticAddress(vw.obj)
  PROVE  /\ vw'.n = vw.n /\ vw'.obj = vw.obj /\ vw'.ok = vw.ok
         /\ vw'.pc \in {"take", "create", "update"}
         /\ vw'.pc = "take" /\ vw'.lok => Unoccupied(vw.n, lease[vw'.a])
         /\ vw'.reason = "Bound" =>
              /\ vw'.addr \in Addrs /\ vw.obj.addr \in {None, vw'.addr}
              /\ BoundCopy(clease[vw'.addr], vw.n) \/ BoundCopy(lease[vw'.addr], vw.n)
         /\ vw.obj.addr # None => vw'.addr = vw.obj.addr
         /\ vw.obj.want # AnyIP => vw'.addr \in {None, vw.obj.want}
<1> DEFINE o == vw.obj
<1>1. vw \in VWork /\ o \in VMIP /\ vw.n \in Names /\ vw' = BoundHandler(vw.n, o)
  BY VWorkFields DEF VBound, TypeOK
<1>2. ASSUME NEW pc, NEW a, NEW addr, NEW r, vw' = Outcome(pc, a, addr, r)
      PROVE  /\ vw'.n = vw.n /\ vw'.obj = o /\ vw'.ok = vw.ok /\ vw'.pc = pc /\ vw'.a = a
             /\ vw'.lok => LeaseIsCurrent(o, a)
             /\ vw'.addr = addr /\ vw'.reason = r
  BY <1>1, <1>2, ZenonT(60) DEF Outcome, VWork
<1>3. CASE GetLease(o) = {}
  <2>1. vw' = CreateLeaseStep(o)
    BY <1>1, <1>3 DEF BoundHandler
  <2>2. CASE o.addr # None
    <3>1. vw' = Outcome("update", None, o.addr, "Lost")
      BY <2>1, <2>2 DEF CreateLeaseStep
    <3>2. /\ vw'.n = vw.n /\ vw'.obj = o /\ vw'.ok = vw.ok /\ vw'.pc = "update"
          /\ vw'.addr = o.addr /\ vw'.reason = "Lost"
      BY <1>2, <3>1, Zenon
    <3> QED BY <2>2, <3>2, Zenon DEF StaticAddress
  <2>3. CASE o.addr = None
    <3>1. vw' = Outcome("create", None, None, "NotReady")
      BY <2>1, <2>3 DEF CreateLeaseStep
    <3>2. /\ vw'.n = vw.n /\ vw'.obj = o /\ vw'.ok = vw.ok /\ vw'.pc = "create"
          /\ vw'.addr = None /\ vw'.reason = "NotReady"
      BY <1>2, <3>1, Zenon
    <3> QED BY <2>3, <3>2, Zenon
  <2> QED BY <2>2, <2>3, Zenon
<1>4. CASE GetLease(o) # {} /\ \E a, b \in GetLease(o) : a # b
  <2>1. vw' = Outcome("update", None, o.addr, "NotReady")
    BY <1>1, <1>4, SMTT(30) DEF BoundHandler
  <2>2. /\ vw'.n = vw.n /\ vw'.obj = o /\ vw'.ok = vw.ok /\ vw'.pc = "update"
        /\ vw'.addr = o.addr /\ vw'.reason = "NotReady"
    BY <1>2, <2>1, Zenon
  <2> QED BY <2>2, Zenon DEF StaticAddress
<1>5. CASE GetLease(o) # {} /\ ~\E a, b \in GetLease(o) : a # b
  <2> DEFINE a == CHOOSE x \in GetLease(o) : TRUE
             l == LeaseCopy(o, a)
  <2>1. a \in GetLease(o)
    BY <1>5
  <2>2. /\ a \in Addrs /\ (FoundInCache(o, a) \/ lease[a] # None)
        /\ o.want # AnyIP => a = o.want
        /\ o.want = AnyIP /\ o.addr # None => a = o.addr
    BY <1>1, <2>1, FoundLease
  <2>3. o.addr \in {None, a}
    BY <2>2 DEF StaticAddress
  <2>4. vw' = IF HasReference(vw.n, l) THEN BindStep(a, l) ELSE TakeLeaseStep(vw.n, a, l)
    BY <1>1, <1>5 DEF BoundHandler
  <2>5. l # None /\ (l = clease[a] \/ l = lease[a]) /\ (LeaseIsCurrent(o, a) => l = lease[a])
    BY <2>2, Zenon DEF LeaseCopy, LeaseIsCurrent, FoundInCache, CurrentCopies
  <2> HIDE DEF a, l
  <2>6. CASE HasReference(vw.n, l)
    <3>1. PICK r : /\ vw' = Outcome("update", None, a, r)
                   /\ r = "Bound" => l.cond = "Bound" /\ l.obs
      BY <2>4, <2>6 DEF BindStep
    <3>2. r = "Bound" => BoundCopy(l, vw.n)
      BY <2>5, <2>6, <3>1 DEF BoundCopy, HasReference
    <3>3. /\ vw'.n = vw.n /\ vw'.obj = o /\ vw'.ok = vw.ok /\ vw'.pc = "update"
          /\ vw'.addr = a /\ vw'.reason = r
      BY <1>2, <3>1, Zenon
    <3> QED BY <2>2, <2>3, <2>5, <3>2, <3>3, Zenon
  <2>7. CASE ~HasReference(vw.n, l) /\ Unoccupied(vw.n, l)
    <3>1. vw' = Outcome("take", a, a, "NotReady")
      BY <2>4, <2>7 DEF TakeLeaseStep
    <3>2. /\ vw'.n = vw.n /\ vw'.obj = o /\ vw'.ok = vw.ok /\ vw'.pc = "take"
          /\ vw'.addr = a /\ vw'.reason = "NotReady"
      BY <1>2, <3>1, Zenon
    <3>3. vw'.a = a /\ (vw'.lok => l = lease[a])
      BY <1>2, <2>5, <3>1, Zenon
    <3> QED BY <2>2, <2>3, <2>7, <3>2, <3>3, Zenon
  <2>8. CASE ~HasReference(vw.n, l) /\ ~Unoccupied(vw.n, l)
    <3>1. vw' = Outcome("update", None, a, "NotReady")
      BY <2>4, <2>8 DEF TakeLeaseStep
    <3>2. /\ vw'.n = vw.n /\ vw'.obj = o /\ vw'.ok = vw.ok /\ vw'.pc = "update"
          /\ vw'.addr = a /\ vw'.reason = "NotReady"
      BY <1>2, <3>1, Zenon
    <3> QED BY <2>2, <2>3, <3>2, Zenon
  <2> QED BY <2>6, <2>7, <2>8, Zenon
<1> QED BY <1>3, <1>4, <1>5, Zenon

-----------------------------------------------------------------------------
\* A Bound vmip keeps its address, also when its spec is edited and its name was
\* used before.

\* a vmip that has the reason "Bound" has the address it asks for
Settled(o) == o.reason = "Bound" => o.addr # None /\ (o.want # AnyIP => o.want = o.addr)

\* what the vmip worker is about to write keeps the address of a Bound vmip and
\* reports Bound only with the address asked for; its copy is what its flag says
WriteSettled ==
  vw # None =>
    /\ vw.ok /\ vw.pc # "patch" => vmip[vw.n] = vw.obj
    /\ vw.pc \notin {"lease", "patch"} =>
         /\ vw.obj.reason = "Bound" /\ Settled(vw.obj) => vw.addr = vw.obj.addr
         /\ vw.reason = "Bound" => vw.addr # None /\ (vw.obj.want # AnyIP => vw.obj.want = vw.addr)

SettledInv ==
  /\ \A n \in Names : vmip[n] # None => Settled(vmip[n])
  /\ \A n \in freshV : cvmip[n] = vmip[n]
  /\ WriteSettled

\* what the Bound handler decides, of any copy
LEMMA BoundSettles ==
  ASSUME TypeOK, VBound
  PROVE  /\ vw'.n = vw.n /\ vw'.obj = vw.obj /\ vw'.ok = vw.ok
         /\ vw.obj.reason = "Bound" /\ Settled(vw.obj) => vw'.addr = vw.obj.addr
         /\ vw'.reason = "Bound" => vw'.addr # None /\ (vw.obj.want # AnyIP => vw.obj.want = vw'.addr)
<1> DEFINE o == vw.obj
<1>1. vw \in VWork /\ o \in VMIP /\ vw.n \in Names /\ vw' = BoundHandler(vw.n, o)
  BY VWorkFields DEF VBound, TypeOK
<1>2. ASSUME NEW pc, NEW a, NEW addr, NEW r, vw' = Outcome(pc, a, addr, r)
      PROVE  /\ vw'.n = vw.n /\ vw'.obj = o /\ vw'.ok = vw.ok
             /\ vw'.addr = addr /\ vw'.reason = r
  BY <1>1, <1>2, ZenonT(60) DEF Outcome, VWork
<1>3. CASE GetLease(o) = {}
  <2>1. vw' = CreateLeaseStep(o)
    BY <1>1, <1>3 DEF BoundHandler
  <2>2. CASE o.addr # None
    <3>1. vw' = Outcome("update", None, o.addr, "Lost")
      BY <2>1, <2>2 DEF CreateLeaseStep
    <3> QED BY <1>2, <3>1
  <2>3. CASE o.addr = None
    <3>1. vw' = Outcome("create", None, None, "NotReady")
      BY <2>1, <2>3 DEF CreateLeaseStep
    <3> QED BY <1>2, <3>1, <2>3
  <2> QED BY <2>2, <2>3
<1>4. CASE GetLease(o) # {} /\ \E a, b \in GetLease(o) : a # b
  <2>1. vw' = Outcome("update", None, o.addr, "NotReady")
    BY <1>1, <1>4, SMTT(30) DEF BoundHandler
  <2> QED BY <1>2, <2>1
<1>5. CASE GetLease(o) # {} /\ ~\E a, b \in GetLease(o) : a # b
  <2> DEFINE a == CHOOSE x \in GetLease(o) : TRUE
             l == LeaseCopy(o, a)
  <2>1. a \in GetLease(o)
    BY <1>5
  <2>2. /\ a \in Addrs /\ (o.want # AnyIP => a = o.want)
        /\ o.want = AnyIP /\ o.addr # None => a = o.addr
    BY <1>1, <2>1, FoundLease
  <2>3. /\ a # None
        /\ o.reason = "Bound" /\ Settled(o) => a = o.addr
    BY <2>2, ConstantsAssumption, Zenon DEF Settled
  <2>4. vw' = IF HasReference(vw.n, l) THEN BindStep(a, l) ELSE TakeLeaseStep(vw.n, a, l)
    BY <1>1, <1>5 DEF BoundHandler
  <2> HIDE DEF a, l
  <2>5. PICK pc, b, r : vw' = Outcome(pc, b, a, r)
    BY <2>4, ZenonT(60) DEF BindStep, TakeLeaseStep
  <2>6. /\ vw'.n = vw.n /\ vw'.obj = o /\ vw'.ok = vw.ok /\ vw'.addr = a /\ vw'.reason = r
    BY <1>2, <2>5, Zenon
  <2> QED BY <2>2, <2>3, <2>6, Zenon
<1> QED BY <1>3, <1>4, <1>5

\* the step of BoundAddressStable
AddressKept ==
  \A n \in Names : Bound(n) /\ vmip'[n] # None /\ vmip'[n].uid = vmip[n].uid
                   => vmip'[n].addr = vmip[n].addr

\* every step keeps SettledInv and the address of every Bound vmip
LEMMA NextSettled == TypeOK /\ SettledInv /\ [Next]_vars => SettledInv' /\ AddressKept
<1> SUFFICES ASSUME TypeOK, SettledInv, [Next]_vars PROVE SettledInv' /\ AddressKept
  OBVIOUS
<1> DEFINE Goal == SettledInv' /\ AddressKept
<1>1. vw # None => vw \in VWork /\ vw.n \in Names /\ vw.obj \in VMIP
  BY VWorkFields DEF TypeOK
<1>2. \A n \in Names : vmip[n] # None => vmip[n] \in VMIP
  BY DEF TypeOK
<1>3. ASSUME UNCHANGED <<vmip, cvmip, freshV>>, WriteSettled' PROVE Goal
  BY <1>3 DEF SettledInv, AddressKept, Settled
<1>4. ASSUME UNCHANGED vmip, UNCHANGED vw \/ \E a : vw' = VWorkerL(a) PROVE WriteSettled'
  <2>1. CASE UNCHANGED vw
    BY <1>4, <2>1, Zenon DEF SettledInv, WriteSettled, Settled
  <2>2. CASE \E a : vw' = VWorkerL(a)
    BY <1>4, <2>2, VWorkerLKeeps, IdleWorkers DEF SettledInv, WriteSettled, Settled
  <2> QED BY <1>4, <2>1, <2>2
\* a write that settles: of a user, who makes the worker's copy out of date
<1>5. ASSUME NEW m \in Names, NEW o, PutVMIP(m, o), vw' = VWorker(m), UNCHANGED cvmip,
             o # None => Settled(o), vmip[m] # None /\ o # None => o.addr = vmip[m].addr
      PROVE  Goal
  <2>1. /\ vmip'[m] = o /\ freshV' = freshV \ {m}
        /\ \A n \in Names : n # m => vmip'[n] = vmip[n]
    BY <1>5 DEF PutVMIP, TypeOK
  <2>2. \A n \in Names : vmip'[n] # None => Settled(vmip'[n])
    BY <1>5, <2>1 DEF SettledInv
  <2>3. \A n \in freshV' : n \in Names /\ cvmip'[n] = vmip'[n]
    BY <1>5, <2>1 DEF SettledInv, TypeOK
  <2>4. WriteSettled'
    <3>1. SUFFICES ASSUME vw' # None PROVE WriteSettled'
      BY DEF WriteSettled
    <3>2. /\ vw # None /\ vw'.pc = vw.pc /\ vw'.n = vw.n /\ vw'.obj = vw.obj
          /\ vw'.addr = vw.addr /\ vw'.reason = vw.reason /\ (vw'.ok => vw.ok /\ vw.n # m)
      BY <1>5, <3>1, VWorkerKeeps, IdleWorkers, Zenon
    <3> QED BY <1>1, <2>1, <3>2, Zenon DEF SettledInv, WriteSettled, Settled
  <2>5. AddressKept
    BY <1>5, <2>1 DEF AddressKept, Bound
  <2> QED BY <2>2, <2>3, <2>4, <2>5, Zenon DEF SettledInv
<1>6. ASSUME NEW n \in Names, NEW s, CreateVMIP(n, s) PROVE Goal
  <2> DEFINE o == [uid |-> <<n, inc[n] + 1>>, want |-> s, fin |-> FALSE, del |-> FALSE,
                   addr |-> None, reason |-> "", att |-> FALSE, obs |-> FALSE]
  <2>1. PutVMIP(n, o) /\ vw' = VWorker(n) /\ UNCHANGED cvmip /\ vmip[n] = None
    BY <1>6, ZenonT(60) DEF CreateVMIP
  <2>2. Settled(o)
    BY DEF Settled
  <2> HIDE DEF o
  <2> QED BY <1>5, <2>1, <2>2
<1>7. ASSUME NEW n \in Names, NEW s, UpdateVMIP(n, s) PROVE Goal
  <2> DEFINE o == [vmip[n] EXCEPT !.want = s, !.obs = FALSE]
  <2>1. /\ vmip[n] # None /\ vmip[n].want # s /\ ValidateUpdate(vmip[n], s)
        /\ PutVMIP(n, o) /\ vw' = VWorker(n) /\ UNCHANGED cvmip
    BY <1>7 DEF UpdateVMIP
  <2>2. o.want = s /\ o.addr = vmip[n].addr /\ o.reason = vmip[n].reason
    BY <1>2, <2>1, ZenonT(60) DEF VMIP
  <2>3. vmip[n].reason = "Bound" => s = vmip[n].addr /\ vmip[n].addr # None
    BY <2>1 DEF ValidateUpdate, SettledInv, Settled
  <2>4. Settled(o)
    BY <2>2, <2>3 DEF Settled
  <2> HIDE DEF o
  <2> QED BY <1>5, <2>1, <2>2, <2>4
<1>8. ASSUME NEW n \in Names, DeleteVMIP(n) PROVE Goal
  <2>1. /\ vmip[n] # None /\ PutVMIP(n, Deleted(vmip[n])) /\ vw' = VWorker(n) /\ UNCHANGED cvmip
    BY <1>8 DEF DeleteVMIP
  <2>2. Deleted(vmip[n]) # None => /\ Deleted(vmip[n]).want = vmip[n].want
                                   /\ Deleted(vmip[n]).addr = vmip[n].addr
                                   /\ Deleted(vmip[n]).reason = vmip[n].reason
    BY <1>2, <2>1, ZenonT(60) DEF Deleted, VMIP
  <2>3. Deleted(vmip[n]) # None => Settled(Deleted(vmip[n]))
    BY <2>1, <2>2, Zenon DEF SettledInv, Settled
  <2> QED BY <1>5, <2>1, <2>2, <2>3
\* the cache follows
<1>9. ASSUME NEW n \in Names, SyncVMIP(n) PROVE Goal
  <2>1. UNCHANGED <<vmip, vw>> /\ \A k \in freshV' : cvmip'[k] = vmip'[k]
    BY <1>9 DEF SyncVMIP, SettledInv, TypeOK
  <2> QED BY <1>4, <2>1, Zenon DEF SettledInv, AddressKept, Settled
<1>10. ASSUME NEW n \in Names, UseVMIP(n) \/ SyncVM(n) PROVE Goal
  BY <1>3, <1>4, <1>10, ZenonT(60) DEF UseVMIP, SyncVM
<1>11. ASSUME NEW a \in Addrs, SyncLease(a) \/ LReconcile(a) PROVE Goal
  BY <1>3, <1>4, <1>11, ZenonT(60) DEF SyncLease, LReconcile
\* the worker reads, decides and calls
<1>12. ASSUME NEW n \in Names, VReconcile(n) PROVE Goal
  <2>1. /\ UNCHANGED <<vmip, cvmip, freshV>>
        /\ vw'.n = n /\ vw'.pc = "lease" /\ vw'.obj = cvmip[n] /\ (vw'.ok => n \in freshV)
    BY <1>12, Zenon DEF VReconcile
  <2>2. WriteSettled'
    BY <2>1, Zenon DEF SettledInv, WriteSettled
  <2> QED BY <1>3, <2>1, <2>2
<1>13. ASSUME VBound PROVE Goal
  <2>1. UNCHANGED <<vmip, cvmip, freshV>> /\ vw # None /\ vw.pc = "lease"
    BY <1>13 DEF VBound
  <2>2. WriteSettled'
    BY <1>13, <2>1, BoundSettles, Zenon DEF SettledInv, WriteSettled, Settled
  <2> QED BY <1>3, <2>1, <2>2
<1>14. ASSUME VTake \/ VTakeRefused \/ VCreate \/ VNoAddress \/ VCreateFails PROVE Goal
  <2>1. UNCHANGED <<vmip, cvmip, freshV>> /\ vw # None /\ vw.pc \in {"take", "create"}
    BY <1>14, ZenonT(60) DEF VTake, VTakeRefused, VCreate, VNoAddress, VCreateFails
  <2>2. /\ vw'.n = vw.n /\ vw'.obj = vw.obj /\ vw'.ok = vw.ok /\ vw'.addr = vw.addr
        /\ vw'.reason = "Bound" => vw.reason = "Bound"
    BY <1>1, <1>14, <2>1, ZenonT(60) DEF VTake, VTakeRefused, VCreate, VNoAddress, VCreateFails, VWork
  <2>3. WriteSettled'
    BY <2>1, <2>2, Zenon DEF SettledInv, WriteSettled, Settled
  <2> QED BY <1>3, <2>1, <2>3
\* the status: written on the copy the address was decided for
<1>15. ASSUME VStatus PROVE Goal
  <2>1. vw # None /\ vw.pc = "update" /\ UNCHANGED cvmip /\ (vw' # None => vw'.pc = "patch")
    BY <1>1, <1>15 DEF VStatus, VThenPatch, VWork
  <2>2. WriteSettled'
    BY <2>1 DEF WriteSettled
  <2>3. CASE UNCHANGED <<vmip, freshV>>
    BY <1>3, <2>1, <2>2, <2>3
  <2>4. CASE vmip[vw.n] # None /\ vw.ok /\ PutVMIP(vw.n, Handled(vw))
    <3> DEFINE m == vw.n
               o == Handled(vw)
    <3>1. /\ vmip'[m] = o /\ freshV' = freshV \ {m} /\ m \in Names
          /\ \A n \in Names : n # m => vmip'[n] = vmip[n]
      BY <1>1, <2>1, <2>4 DEF PutVMIP, TypeOK
    <3>2. o.want = vmip[m].want /\ o.addr = vw.addr /\ o.reason = vw.reason /\ vmip[m] = vw.obj
      BY <1>1, <2>1, <2>4, ZenonT(60) DEF Handled, VMIP, SettledInv, WriteSettled
    <3>3. Settled(vmip[m])
      BY <1>1, <2>1, <2>4 DEF SettledInv
    <3>4. Settled(o) /\ (vmip[m].reason = "Bound" => o.addr = vmip[m].addr)
      BY <2>1, <3>2, <3>3, Zenon DEF SettledInv, WriteSettled, Settled
    <3> HIDE DEF m, o
    <3>5. \A n \in Names : vmip'[n] # None => Settled(vmip'[n])
      BY <3>1, <3>4, Zenon DEF SettledInv
    <3>6. \A n \in freshV' : cvmip'[n] = vmip'[n]
      BY <2>1, <3>1 DEF SettledInv, TypeOK
    <3>7. AddressKept
      BY <3>1, <3>4 DEF AddressKept, Bound
    <3> QED BY <2>2, <3>5, <3>6, <3>7 DEF SettledInv
  <2> QED BY <1>15, <2>3, <2>4, Zenon DEF VStatus
<1>16. ASSUME VStatusRefused PROVE Goal
  BY <1>3, <1>16 DEF VStatusRefused, WriteSettled
<1>17. ASSUME VPatch PROVE Goal
  <2>1. vw # None /\ vw' = None /\ UNCHANGED cvmip
    BY <1>17 DEF VPatch
  <2>2. WriteSettled'
    BY <2>1 DEF WriteSettled
  <2>3. CASE UNCHANGED <<vmip, freshV>>
    BY <1>3, <2>1, <2>2, <2>3
  <2>4. CASE vmip[vw.n] # None /\ PutVMIP(vw.n, Finalized(vmip[vw.n], vw.fin))
    <3> DEFINE m == vw.n
               o == Finalized(vmip[m], vw.fin)
    <3>1. /\ vmip'[m] = o /\ freshV' = freshV \ {m} /\ m \in Names
          /\ \A n \in Names : n # m => vmip'[n] = vmip[n]
      BY <1>1, <2>1, <2>4 DEF PutVMIP, TypeOK
    <3>2. o # None => o = [vmip[m] EXCEPT !.fin = vw.fin]
      BY DEF Finalized
    <3>3. o # None => o.want = vmip[m].want /\ o.addr = vmip[m].addr /\ o.reason = vmip[m].reason
      BY <1>2, <2>4, <3>1, <3>2, ZenonT(60) DEF VMIP
    <3>4. o # None => Settled(o)
      BY <2>4, <3>1, <3>3, Zenon DEF SettledInv, Settled
    <3> HIDE DEF m, o
    <3>5. \A n \in Names : vmip'[n] # None => Settled(vmip'[n])
      BY <3>1, <3>4, Zenon DEF SettledInv
    <3>6. \A n \in freshV' : cvmip'[n] = vmip'[n]
      BY <2>1, <3>1 DEF SettledInv, TypeOK
    <3>7. AddressKept
      BY <3>1, <3>3 DEF AddressKept, Bound
    <3> QED BY <2>2, <3>5, <3>6, <3>7 DEF SettledInv
  <2> QED BY <1>17, <2>3, <2>4 DEF VPatch
\* the lease controller leaves vmips alone
<1>18. ASSUME NEW b \in BOOLEAN, LHandle(b) PROVE Goal
  BY <1>3, <1>4, <1>18 DEF LHandle
<1>19. ASSUME LDelete \/ LStatus \/ LStatusRefused \/ LPatch \/ LPatchRefused \/ LSpec PROVE Goal
  BY <1>3, <1>4, <1>19 DEF LDelete, LStatus, LStatusRefused, LPatch, LPatchRefused, LSpec
<1>20. ASSUME Restart PROVE Goal
  BY <1>20, Zenon DEF Restart, SettledInv, WriteSettled, AddressKept, Settled
<1>21. ASSUME UNCHANGED vars PROVE Goal
  BY <1>3, <1>4, <1>21 DEF vars
<1> QED
  BY ConstantsAssumption, <1>6, <1>7, <1>8, <1>9, <1>10, <1>11, <1>12, <1>13, <1>14, <1>15, <1>16,
     <1>17, <1>18, <1>19, <1>20, <1>21, ZenonT(60)
  DEF Next, Users, Sync, VController, LController

\* The address of a Bound vmip does not change as long as the object lives, whatever
\* edits the webhook admits from its cache: ValidateUpdate lets a Bound vmip ask only
\* for the address it has, and the Bound handler keeps that one. No assumption on the
\* reuse of names or the number of edits.
THEOREM AddressStable == Spec => BoundAddressStable
<1>1. Init => SettledInv
  BY DEF Init, SettledInv, WriteSettled
<1>2. AddressKept => (\A n \in Names : Bound(n) /\ vmip'[n] # None /\ vmip'[n].uid = vmip[n].uid
                                       => vmip'[n].addr = vmip[n].addr)
  BY DEF AddressKept
<1> QED BY <1>1, <1>2, InitTypeOK, InitCurrentCopies, NextTypeOK, NextCurrentCopies, NextSettled, PTL
        DEF Spec, BoundAddressStable

-----------------------------------------------------------------------------
\* One vmip, one label: as long as the vmip, or its copy in the cache, is there,
\* one address is leased at most, and the lease carries the label; when both have
\* gone, the reconcile that is left may lease another one, but nobody labels the
\* first one again.

\* nothing has happened yet
Untouched ==
  /\ \A n \in Names : vmip[n] = None /\ cvmip[n] = None
  /\ \A a \in Addrs : lease[a] = None /\ clease[a] = None
  /\ vw = None /\ lw = None

Gone(n) == vmip[n] = None /\ cvmip[n] = None

\* the label of the only vmip, and a lease that is not released
Uid(n) == <<n, 1>>
Carries(l, n) == l.name = n /\ l.uid = Uid(n)

\* a copy of the vmip asks for s and has no other address than a, which is leased
CopyOf(o, n, a, s) ==
  o # None => o.uid = Uid(n) /\ o.want = s /\ (o.addr # None => o.addr = a /\ lease[a] # None)

\* while the vmip is there no address other than a was ever leased: the leases,
\* the vmip and its cached copy, and either worker
LeasedOnly(n, a) ==
  /\ \A b \in Addrs : lease[b] # None => b = a /\ Carries(lease[b], n) /\ ~lease[b].del
  /\ \A b \in Addrs : clease[b] # None => b = a /\ Carries(clease[b], n) /\ lease[a] # None
AsksOnly(n, a, s) ==
  /\ s # AnyIP => s = a
  /\ CopyOf(vmip[n], n, a, s) /\ CopyOf(cvmip[n], n, a, s)
BindsOnly(n, a, s) ==
  vw # None =>
    /\ CopyOf(vw.obj, n, a, s) /\ vw.pc # "take"
    /\ vw.addr # None => vw.addr = a /\ lease[a] # None
    /\ vw.pc = "create" => lease[a] = None
KeepsOnly(n, a) ==
  lw # None =>
    /\ lw.a = a /\ lease[a] # None /\ Carries(lw.cur, n) /\ lw.pc # "delete"
    /\ lw.pc # "vmip" => Carries(lw.chg, n) /\ lw.chg.fin
OnlyLease(n, a, s) == LeasedOnly(n, a) /\ AsksOnly(n, a, s) /\ BindsOnly(n, a, s) /\ KeepsOnly(n, a)

\* when it has gone, the reconcile left over labels at most one lease, and only
\* when no other has the label
Marked(n) ==
  /\ \A a \in Addrs : lease[a] # None => lease[a].uid \in {None, Uid(n)}
  /\ \A a, b \in Labelled(lease, Uid(n)) : a = b
MarksLast(n) ==
  vw # None =>
    /\ vw.obj.uid = Uid(n)
    /\ vw.pc = "lease" /\ AssignedIPAddress(vw.obj) # None
         => Labelled(lease, Uid(n)) \subseteq {AssignedIPAddress(vw.obj)}
    /\ vw.pc = "take" => Labelled(lease, Uid(n)) \subseteq {vw.a}
    /\ vw.pc = "create" => Labelled(lease, Uid(n)) = {}
MarksNone == lw # None /\ lw.pc # "vmip" => lw.chg.uid \in {None, lw.cur.uid}
Leftover(n) == Marked(n) /\ MarksLast(n) /\ MarksNone

\* nothing happens before the vmip arrives in the cache
Unnoticed(n) == (\A a \in Addrs : lease[a] = None) /\ vw = None /\ lw = None

Lonely(n) ==
  /\ \A m \in Names \ {n} : vmip[m] = None /\ cvmip[m] = None
  /\ vw # None => vw.n = n

LabelInv ==
  /\ (\A n \in Names : inc[n] = 0) => Untouched
  /\ \A n \in Names : Alone(n) =>
       /\ Lonely(n)
       /\ ~Gone(n) /\ cvmip[n] = None => Unnoticed(n)
       /\ \/ Gone(n) /\ Leftover(n)
          \/ \E a \in Addrs, s \in Addrs \cup {AnyIP} : OnlyLease(n, a, s)

\* the workers are where they were, or have stopped
VSame == vw' # None => /\ vw # None /\ vw'.n = vw.n /\ vw'.obj = vw.obj /\ vw'.pc = vw.pc
                       /\ vw'.addr = vw.addr /\ vw'.a = vw.a
LSame == lw' # None => /\ lw # None /\ lw'.a = lw.a /\ lw'.cur = lw.cur /\ lw'.chg = lw.chg
                       /\ lw'.pc = lw.pc

\* outdating the copies of the workers does not move them
LEMMA SameWorkers ==
  ASSUME TypeOK
  PROVE  /\ (UNCHANGED vw \/ \E x : vw' = VWorker(x) \/ vw' = VWorkerL(x)) => VSame
         /\ (UNCHANGED lw \/ \E x : lw' = LWorker(x)) => LSame
  BY VWorkerKeeps, VWorkerLKeeps, LWorkerKeeps, IdleWorkers, SMTT(20), ZenonT(20), SMTT(40) DEF VSame, LSame

\* Where the vmip worker may go from where it was, the Bound handler apart.
VMoved == vw' # None => /\ vw # None /\ vw'.n = vw.n /\ vw'.obj = vw.obj /\ vw'.addr = vw.addr
                        /\ vw'.pc \in {"update", "patch"}

LEMMA MovedOn ==
  ASSUME TypeOK, VTake \/ VTakeRefused \/ VCreate \/ VNoAddress \/ VCreateFails
                 \/ VStatus \/ VStatusRefused \/ VPatch
  PROVE  VMoved
<1>1. vw # None /\ vw \in VWork
  BY ZenonT(60) DEF TypeOK, VTake, VTakeRefused, VCreate, VNoAddress, VCreateFails, VStatus, VStatusRefused, VPatch
<1>2. CASE VTake \/ VTakeRefused
  <2>1. vw' = [vw EXCEPT !.pc = "update", !.a = None, !.lok = FALSE]
    BY <1>2 DEF VTake, VTakeRefused
  <2>2. vw'.n = vw.n /\ vw'.obj = vw.obj /\ vw'.addr = vw.addr /\ vw'.pc = "update"
    BY <1>1, <2>1, ZenonT(60) DEF VWork
  <2> QED BY <1>1, <2>2 DEF VMoved
<1>3. CASE VCreate
  <2>1. vw' = [vw EXCEPT !.pc = "update"]
    BY <1>3 DEF VCreate
  <2>2. vw'.n = vw.n /\ vw'.obj = vw.obj /\ vw'.addr = vw.addr /\ vw'.pc = "update"
    BY <1>1, <2>1, ZenonT(60) DEF VWork
  <2> QED BY <1>1, <2>2 DEF VMoved
<1>4. CASE VNoAddress \/ VCreateFails
  <2>1. PICK r : vw' = [vw EXCEPT !.pc = "update", !.reason = r]
    BY <1>4, ZenonT(60) DEF VNoAddress, VCreateFails
  <2>2. vw'.n = vw.n /\ vw'.obj = vw.obj /\ vw'.addr = vw.addr /\ vw'.pc = "update"
    BY <1>1, <2>1, ZenonT(60) DEF VWork
  <2> QED BY <1>1, <2>2 DEF VMoved
<1>5. CASE VStatus
  <2>1. vw' # None => \E f : vw' = [vw EXCEPT !.pc = "patch", !.fin = f]
    BY <1>5, Zenon DEF VStatus, VThenPatch
  <2>2. ASSUME NEW f, vw' = [vw EXCEPT !.pc = "patch", !.fin = f]
        PROVE  vw'.n = vw.n /\ vw'.obj = vw.obj /\ vw'.addr = vw.addr /\ vw'.pc = "patch"
    BY <1>1, <2>2, ZenonT(60) DEF VWork
  <2> QED BY <1>1, <2>1, <2>2, Zenon DEF VMoved
<1>6. CASE VStatusRefused \/ VPatch
  BY <1>6, Zenon DEF VStatusRefused, VPatch, VMoved
<1> QED BY <1>2, <1>3, <1>4, <1>5, <1>6

\* Where the Bound handler may go while one address is leased at most.
LEMMA BoundOnly ==
  ASSUME TypeOK, NEW n \in Names, NEW a \in Addrs, NEW s, LeasedOnly(n, a), BindsOnly(n, a, s),
         s # AnyIP => s = a, vw # None => vw.n = n, VBound
  PROVE  BindsOnly(n, a, s)' /\ vw'.n = n
<1> DEFINE o == vw.obj
<1>1. vw # None /\ vw \in VWork /\ o \in VMIP /\ vw.n = n /\ vw' = BoundHandler(n, o) /\ UNCHANGED lease
  BY VWorkFields DEF VBound, TypeOK
<1>2. /\ o # None /\ o.uid = Uid(n) /\ o.want = s
      /\ o.addr # None => o.addr = a /\ lease[a] # None
  BY <1>1, NoneAssumption, Zenon DEF BindsOnly, CopyOf
<1>3. ASSUME NEW pc \in {"update", "create"}, NEW addr, NEW r, vw' = Outcome(pc, None, addr, r),
             addr # None => addr = a /\ lease[a] # None, pc = "create" => lease[a] = None
      PROVE  BindsOnly(n, a, s)' /\ vw'.n = n
  <2>1. vw'.n = n /\ vw'.obj = o /\ vw'.pc = pc /\ vw'.addr = addr
    BY <1>1, <1>3, ZenonT(60) DEF Outcome, VWork
  <2> HIDE DEF o
  <2> QED BY <1>1, <1>2, <1>3, <2>1, Zenon DEF BindsOnly, CopyOf
<1>4. /\ \A x \in GetLease(o) : x = a /\ lease[a] # None
      /\ GetLease(o) = {} /\ o.addr = None => lease[a] = None
  <2>1. CASE AssignedIPAddress(o) # None
    <3>1. AssignedIPAddress(o) = a
      BY <1>2, <2>1, Zenon DEF AssignedIPAddress
    <3>2. GetLease(o) = {x \in {a} : clease[x] # None \/ lease[x] # None}
      BY <2>1, <3>1, Zenon DEF GetLease
    <3> QED BY <3>2, Zenon DEF LeasedOnly
  <2>2. CASE AssignedIPAddress(o) = None
    <3>1. GetLease(o) = IF Labelled(clease, Uid(n)) # {} THEN Labelled(clease, Uid(n))
                        ELSE Labelled(lease, Uid(n))
      BY <1>2, <2>2, Zenon DEF GetLease
    <3>2. \A x \in GetLease(o) : x = a /\ lease[a] # None
      BY <3>1, Zenon DEF Labelled, LeasedOnly
    <3>3. lease[a] # None => a \in Labelled(lease, Uid(n))
      BY Zenon DEF Labelled, LeasedOnly, Carries
    <3> QED BY <3>1, <3>2, <3>3, Zenon
  <2> QED BY <2>1, <2>2, Zenon
<1>5. CASE GetLease(o) = {}
  <2>1. vw' = CreateLeaseStep(o)
    BY <1>1, <1>5, Zenon DEF BoundHandler
  <2>2. CASE o.addr # None
    BY <1>2, <1>3, <2>1, <2>2, Zenon DEF CreateLeaseStep
  <2>3. CASE o.addr = None
    BY <1>3, <1>4, <1>5, <2>1, <2>3 DEF CreateLeaseStep
  <2> QED BY <2>2, <2>3
<1>6. CASE GetLease(o) # {}
  <2>1. GetLease(o) = {a} /\ lease[a] # None
    BY <1>4, <1>6
  <2> DEFINE l == LeaseCopy(o, a)
  <2>2. vw' = IF HasReference(n, l) THEN BindStep(a, l) ELSE TakeLeaseStep(n, a, l)
    <3>1. (CHOOSE x \in GetLease(o) : TRUE) = a
      BY <2>1
    <3>2. ~\E x, y \in GetLease(o) : x # y
      BY <2>1
    <3> QED BY <1>1, <1>6, <3>1, <3>2, ZenonT(20) DEF BoundHandler
  <2>3. l.name = n
    BY <2>1, Zenon DEF LeaseCopy, FoundInCache, LeasedOnly, Carries
  <2>4. ~Unoccupied(n, l)
    BY <2>3, ConstantsAssumption DEF Unoccupied
  <2> HIDE DEF l
  <2>5. \E r : vw' = Outcome("update", None, a, r)
    BY <2>2, <2>4 DEF BindStep, TakeLeaseStep
  <2> QED BY <1>3, <2>1, <2>5, Zenon
<1> QED BY <1>5, <1>6, Zenon

\* While the vmip is there, every step keeps to one address.
LEMMA OnlyStep ==
  ASSUME TypeOK, NEW n \in Names, NEW a \in Addrs, NEW s, OnlyLease(n, a, s), Lonely(n),
         lw # None => cvmip[n] # None, UNCHANGED <<inc, edits>>, [Next]_vars
  PROVE  \E b \in Addrs : OnlyLease(n, b, s)'
<1> DEFINE Goal == OnlyLease(n, a, s)'
           Stable == lease'[a] = None <=> lease[a] = None
<1>1. /\ vw # None => vw \in VWork /\ vw.n = n /\ vw.obj \in VMIP
      /\ lw # None => lw \in LWork /\ lw.cur \in Lease /\ lw.chg \in Lease
      /\ lw # None => lw.a = a /\ lease[a] # None
  BY VWorkFields, LWorkFields DEF TypeOK, Lonely, OnlyLease, KeepsOnly
<1>2. lease[a] # None => lease[a] \in Lease /\ Carries(lease[a], n) /\ ~lease[a].del
  BY Zenon DEF TypeOK, OnlyLease, LeasedOnly
\* what a step leaves alone stays as it is
<1>3. ASSUME UNCHANGED <<vmip, cvmip>>, Stable PROVE AsksOnly(n, a, s)'
  BY <1>3, Zenon DEF OnlyLease, AsksOnly, CopyOf
<1>4. ASSUME VSame, Stable PROVE BindsOnly(n, a, s)'
  BY <1>4, Zenon DEF VSame, OnlyLease, BindsOnly, CopyOf
<1>5. ASSUME VMoved, Stable PROVE BindsOnly(n, a, s)'
  BY <1>5, Zenon DEF VMoved, OnlyLease, BindsOnly, CopyOf
<1>6. ASSUME LSame, Stable PROVE KeepsOnly(n, a)'
  BY <1>6, Zenon DEF LSame, OnlyLease, KeepsOnly, Carries
<1>7. ASSUME UNCHANGED <<lease, clease>> PROVE LeasedOnly(n, a)' /\ Stable
  BY <1>7, Zenon DEF OnlyLease, LeasedOnly, Carries
\* users and the cache
<1>8. ASSUME NEW m \in Names, NEW q, CreateVMIP(m, q) \/ UpdateVMIP(m, q) PROVE FALSE
  <2>1. inc' = [inc EXCEPT ![m] = @ + 1] \/ edits' = edits + 1
    BY <1>8, ZenonT(60) DEF CreateVMIP, UpdateVMIP
  <2>2. inc[m] \in Nat /\ edits \in Nat /\ inc \in [Names -> 0 .. MaxInc]
    BY ConstantsAssumption DEF TypeOK
  <2> QED BY <2>1, <2>2
<1>9. ASSUME NEW m \in Names, DeleteVMIP(m) PROVE Goal
  <2>1. /\ UNCHANGED <<lease, clease, cvmip, lw>> /\ vw' = VWorker(m)
        /\ vmip[m] # None /\ vmip' = [vmip EXCEPT ![m] = Deleted(vmip[m])]
    BY <1>9 DEF DeleteVMIP, PutVMIP
  <2>2. vmip[m] \in VMIP
    BY <2>1 DEF TypeOK
  <2>3. Deleted(vmip[m]) # None => /\ Deleted(vmip[m]).uid = vmip[m].uid
                                   /\ Deleted(vmip[m]).want = vmip[m].want
                                   /\ Deleted(vmip[m]).addr = vmip[m].addr
    BY <2>2, ZenonT(60) DEF Deleted, VMIP
  <2>4. m # n => vmip'[n] = vmip[n]
    BY <2>1 DEF TypeOK
  <2>5. m = n => vmip'[n] = Deleted(vmip[n])
    BY <2>1 DEF TypeOK
  <2>6. vmip'[n] # None => vmip[n] # None /\ vmip'[n].uid = vmip[n].uid /\ vmip'[n].want = vmip[n].want
                                          /\ vmip'[n].addr = vmip[n].addr
    BY <2>1, <2>3, <2>4, <2>5, Zenon
  <2>7. UNCHANGED <<lease, cvmip>>
    BY <2>1
  <2>8. AsksOnly(n, a, s)'
    BY <2>6, <2>7, ZenonT(20) DEF OnlyLease, AsksOnly, CopyOf
  <2> QED BY <1>4, <1>6, <1>7, <2>1, <2>8, SameWorkers, Zenon DEF OnlyLease
<1>10. ASSUME NEW m \in Names, UseVMIP(m) \/ SyncVM(m) PROVE Goal
  <2>1. UNCHANGED <<lease, clease, vmip, cvmip, vw, lw>>
    BY <1>10 DEF UseVMIP, SyncVM
  <2> QED BY <1>3, <1>4, <1>6, <1>7, <2>1, SameWorkers, Zenon DEF OnlyLease
<1>11. ASSUME NEW m \in Names, SyncVMIP(m) PROVE Goal
  <2>1. UNCHANGED <<lease, clease, vmip, vw, lw>> /\ cvmip'[n] \in {cvmip[n], vmip[n]}
    BY <1>11 DEF SyncVMIP, TypeOK
  <2>2. AsksOnly(n, a, s)'
    BY <2>1, Zenon DEF OnlyLease, AsksOnly, CopyOf
  <2> QED BY <1>4, <1>6, <1>7, <2>1, <2>2, SameWorkers, Zenon DEF OnlyLease
<1>12. ASSUME NEW b \in Addrs, SyncLease(b) PROVE Goal
  <2>1. UNCHANGED <<lease, vmip, cvmip, vw, lw>> /\ \A x \in Addrs : clease'[x] \in {clease[x], lease[x]}
    BY <1>12 DEF SyncLease, TypeOK
  <2>2. LeasedOnly(n, a)'
    BY <2>1, Zenon DEF OnlyLease, LeasedOnly, Carries
  <2> QED BY <1>3, <1>4, <1>6, <2>1, <2>2, SameWorkers, Zenon DEF OnlyLease
\* the vmip worker
<1>13. ASSUME NEW m \in Names, VReconcile(m) PROVE Goal
  <2>1. /\ UNCHANGED <<lease, clease, vmip, cvmip, lw>> /\ cvmip[m] # None
        /\ vw'.obj = cvmip[m] /\ vw'.pc = "lease" /\ vw'.addr = None
    BY <1>13, Zenon DEF VReconcile
  <2>2. m = n
    BY <2>1, Zenon DEF Lonely
  <2>3. BindsOnly(n, a, s)'
    BY <2>1, <2>2, Zenon DEF OnlyLease, AsksOnly, BindsOnly, CopyOf
  <2> QED BY <1>3, <1>6, <1>7, <2>1, <2>3, SameWorkers, Zenon DEF OnlyLease
<1>14. ASSUME VBound PROVE Goal
  <2>1. UNCHANGED <<lease, clease, vmip, cvmip, lw>>
    BY <1>14, Zenon DEF VBound
  <2>2. BindsOnly(n, a, s)'
    BY <1>14, BoundOnly, Zenon DEF OnlyLease, AsksOnly, Lonely
  <2> QED BY <1>3, <1>6, <1>7, <2>1, <2>2, SameWorkers, Zenon DEF OnlyLease
<1>15. ASSUME VTake PROVE FALSE
  BY <1>15 DEF VTake, OnlyLease, BindsOnly
<1>16. ASSUME VTakeRefused \/ VNoAddress \/ VCreateFails \/ VStatusRefused PROVE Goal
  <2>1. UNCHANGED <<lease, clease, vmip, cvmip, lw>>
    BY <1>16, ZenonT(60) DEF VTakeRefused, VNoAddress, VCreateFails, VStatusRefused
  <2> QED BY <1>3, <1>5, <1>6, <1>7, <1>16, <2>1, SameWorkers, MovedOn, Zenon DEF OnlyLease
<1>17. ASSUME VCreate PROVE \E b \in Addrs : OnlyLease(n, b, s)'
  <2>1. PICK b \in Addrs :
          /\ Candidate(vw.obj, b) /\ lease[b] = None
          /\ lease' = [lease EXCEPT ![b] = NewLease(vw.n, vw.obj.uid)] /\ lw' = LWorker(b)
    BY <1>17, Zenon DEF VCreate, PutLease
  <2>2. vw # None /\ vw.pc = "create" /\ UNCHANGED <<clease, vmip, cvmip>>
    BY <1>17 DEF VCreate
  <2>3. /\ lease[a] = None /\ lw = None /\ vw.n = n /\ vw.addr = None
        /\ vw.obj.uid = Uid(n) /\ vw.obj.want = s
    BY <1>1, <2>2, NoneAssumption, Zenon DEF OnlyLease, BindsOnly, KeepsOnly, CopyOf
  <2>4. lw' = None
    BY <2>1, <2>3, IdleWorkers, Zenon
  <2>5. /\ lease'[b] = NewLease(n, Uid(n)) /\ \A x \in Addrs : x # b => lease'[x] = None
        /\ \A x \in Addrs : clease'[x] = None
    BY <2>1, <2>2, <2>3, Zenon DEF OnlyLease, LeasedOnly, TypeOK
  <2>6. NewLease(n, Uid(n)).name = n /\ NewLease(n, Uid(n)).uid = Uid(n) /\ ~NewLease(n, Uid(n)).del
    BY Zenon DEF NewLease
  <2>7. LeasedOnly(n, b)'
    BY <2>5, <2>6, Zenon DEF LeasedOnly, Carries
  <2>8. s # AnyIP => s = b
    BY <2>1, <2>3, Zenon DEF Candidate
  <2>9. AsksOnly(n, b, s)'
    BY <2>2, <2>3, <2>8, Zenon DEF OnlyLease, AsksOnly, CopyOf
  <2>10. BindsOnly(n, b, s)'
    <3>1. VMoved
      BY <1>17, MovedOn
    <3> QED BY <2>2, <2>3, <3>1, Zenon DEF VMoved, OnlyLease, BindsOnly, CopyOf
  <2>11. KeepsOnly(n, b)'
    BY <2>4, Zenon DEF KeepsOnly
  <2> QED BY <2>7, <2>9, <2>10, <2>11 DEF OnlyLease
<1>18. ASSUME VStatus PROVE Goal
  <2>1. UNCHANGED <<lease, clease, cvmip, lw>> /\ vw # None
    BY <1>18, Zenon DEF VStatus
  <2>2. vmip' = vmip \/ (vmip[vw.n] # None /\ vmip' = [vmip EXCEPT ![vw.n] = Handled(vw)])
    BY <1>18, Zenon DEF VStatus, PutVMIP
  <2>3. Handled(vw).uid = vw.obj.uid /\ Handled(vw).want = vw.obj.want /\ Handled(vw).addr = vw.addr
    BY <1>1, <2>1, ZenonT(60) DEF Handled, VMIP
  <2>4. vmip'[n] = vmip[n] \/ vmip'[n] = Handled(vw)
    BY <1>1, <2>1, <2>2 DEF TypeOK
  <2>5. vw.obj # None
    BY <1>1, <2>1, NoneAssumption, Zenon
  <2>6. AsksOnly(n, a, s)'
    BY <2>1, <2>3, <2>4, <2>5, Zenon DEF OnlyLease, AsksOnly, BindsOnly, CopyOf
  <2> QED BY <1>5, <1>6, <1>7, <1>18, <2>1, <2>6, SameWorkers, MovedOn, Zenon DEF OnlyLease
<1>19. ASSUME VPatch PROVE Goal
  <2>1. UNCHANGED <<lease, clease, cvmip, lw>> /\ vw # None
    BY <1>19, Zenon DEF VPatch
  <2>2. vmip' = vmip \/ (vmip[n] # None /\ vmip' = [vmip EXCEPT ![n] = Finalized(vmip[n], vw.fin)])
    BY <1>1, <1>19, <2>1, Zenon DEF VPatch, PutVMIP
  <2>3. vmip'[n] = vmip[n] \/ (vmip[n] \in VMIP /\ vmip'[n] = Finalized(vmip[n], vw.fin))
    BY <2>2 DEF TypeOK
  <2>4. ASSUME vmip[n] \in VMIP, Finalized(vmip[n], vw.fin) # None
        PROVE  /\ Finalized(vmip[n], vw.fin).uid = vmip[n].uid
               /\ Finalized(vmip[n], vw.fin).want = vmip[n].want
               /\ Finalized(vmip[n], vw.fin).addr = vmip[n].addr
    BY <2>4, ZenonT(60) DEF Finalized, VMIP
  <2>5. AsksOnly(n, a, s)'
    BY <2>1, <2>3, <2>4, NoneAssumption, Zenon DEF OnlyLease, AsksOnly, CopyOf
  <2> QED BY <1>5, <1>6, <1>7, <1>19, <2>1, <2>5, SameWorkers, MovedOn, Zenon DEF OnlyLease
\* the lease worker finds the lease bound
<1>20. ASSUME NEW b \in Addrs, LReconcile(b) PROVE Goal
  <2>1. /\ UNCHANGED <<lease, clease, vmip, cvmip, vw>> /\ clease[b] # None
        /\ lw'.a = b /\ lw'.cur = clease[b] /\ lw'.pc = "vmip"
    BY <1>20, Zenon DEF LReconcile
  <2>2. KeepsOnly(n, a)'
    BY <2>1, Zenon DEF OnlyLease, LeasedOnly, KeepsOnly, Carries
  <2> QED BY <1>3, <1>4, <1>7, <2>1, <2>2, SameWorkers, Zenon DEF OnlyLease
<1>21. ASSUME NEW e \in BOOLEAN, LHandle(e) PROVE Goal
  <2> DEFINE chg == LeaseHandlers(lw.a, lw.cur)
  <2>1. /\ UNCHANGED <<lease, clease, vmip, cvmip, vw>> /\ lw # None
        /\ e => Expirable(lw.cur, chg)
        /\ lw' = [lw EXCEPT !.pc = IF e THEN "delete" ELSE "status", !.chg = chg]
    BY <1>21 DEF LHandle
  <2>2. Carries(lw.cur, n) /\ lw.a = a /\ cvmip[n] # None /\ n # None
    BY <2>1, ConstantsAssumption DEF OnlyLease, KeepsOnly
  <2>3. cvmip[n].uid = Uid(n) /\ cvmip[n].addr \in {None, a}
    BY <2>2, Zenon DEF OnlyLease, AsksOnly, CopyOf
  <2>4. chg = [lw.cur EXCEPT !.uid = cvmip[n].uid, !.cond = "Bound", !.obs = TRUE, !.fin = TRUE]
    BY <2>2, <2>3 DEF LeaseHandlers, IsBound, Carries
  <2>5. chg.name = n /\ chg.uid = Uid(n) /\ chg.cond = "Bound" /\ chg.fin
    <3>1. /\ chg.name = lw.cur.name /\ chg.uid = cvmip[n].uid /\ chg.cond = "Bound" /\ chg.fin
      BY <1>1, <2>1, <2>4, ZenonT(60) DEF Lease
    <3> QED BY <2>2, <2>3, <3>1, Zenon DEF Carries
  <2> HIDE DEF chg
  <2>6. ~e
    BY <2>1, <2>5 DEF Expirable
  <2>7. lw'.a = lw.a /\ lw'.cur = lw.cur /\ lw'.chg = chg /\ lw'.pc = "status"
    <3>1. lw' = [lw EXCEPT !.pc = "status", !.chg = chg]
      BY <2>1, <2>6
    <3> QED BY <1>1, <2>1, <3>1, ZenonT(60) DEF LWork
  <2>8. KeepsOnly(n, a)'
    BY <1>1, <2>1, <2>2, <2>5, <2>7 DEF KeepsOnly, Carries
  <2> QED BY <1>3, <1>4, <1>7, <2>1, <2>8, SameWorkers DEF OnlyLease
<1>22. ASSUME LDelete PROVE FALSE
  BY <1>22 DEF LDelete, OnlyLease, KeepsOnly
\* and writes nothing that releases it
<1>23. ASSUME UNCHANGED <<clease, vmip, cvmip>>, UNCHANGED vw \/ \E x : vw' = VWorkerL(x), KeepsOnly(n, a)',
              lw # None, lease' = lease \/ \E l : /\ lease' = [lease EXCEPT ![a] = l]
                                                  /\ l # None /\ Carries(l, n) /\ ~l.del
       PROVE  Goal
  <2>1. LeasedOnly(n, a)' /\ Stable
    <3>1. CASE lease' = lease
      BY <1>7, <1>23, <3>1
    <3>2. CASE lease' # lease
      <4>1. PICK l : lease' = [lease EXCEPT ![a] = l] /\ l # None /\ Carries(l, n) /\ ~l.del
        BY <1>23, <3>2, Zenon
      <4>2. lease'[a] = l /\ \A x \in Addrs : x # a => lease'[x] = None
        BY <4>1 DEF TypeOK, OnlyLease, LeasedOnly
      <4>3. lease[a] # None
        BY <1>1, <1>23, Zenon
      <4> QED BY <1>23, <4>1, <4>2, <4>3, Zenon DEF OnlyLease, LeasedOnly, Carries
    <3> QED BY <3>1, <3>2, Zenon
  <2> QED BY <1>3, <1>4, <1>23, <2>1, SameWorkers, Zenon DEF OnlyLease
<1>24. ASSUME NEW pc \in {"patch", "spec"}, NEW ok, lw # None, lw.pc # "vmip", lease'[a] # None,
              lw' = [lw EXCEPT !.pc = pc] \/ lw' = [lw EXCEPT !.pc = pc, !.ok = ok]
       PROVE  KeepsOnly(n, a)'
  <2>1. lw'.a = lw.a /\ lw'.cur = lw.cur /\ lw'.chg = lw.chg /\ lw'.pc = pc
    BY <1>1, <1>24, ZenonT(60) DEF LWork
  <2> QED BY <1>24, <2>1 DEF OnlyLease, KeepsOnly, Carries
<1>25. ASSUME LStatus PROVE Goal
  <2> DEFINE l == [lease[a] EXCEPT !.cond = lw.chg.cond, !.obs = TRUE]
  <2>1. /\ UNCHANGED <<clease, vmip, cvmip>> /\ lw # None /\ lw.pc = "status"
        /\ lw' = [lw EXCEPT !.pc = "patch"] /\ (UNCHANGED vw \/ vw' = VWorkerL(a))
        /\ lease' = lease \/ lease' = [lease EXCEPT ![a] = l]
    BY <1>1, <1>25, Zenon DEF LStatus, PutLease
  <2>2. lease[a] \in Lease
    BY <1>1, <1>2, <2>1
  <2>3. l \in Lease /\ l.name = lease[a].name /\ l.uid = lease[a].uid /\ l.del = lease[a].del
    BY <1>1, <2>1, <2>2, LeaseFields, ZenonT(60) DEF Lease
  <2> HIDE DEF l
  <2>4. l # None /\ Carries(l, n) /\ ~l.del
    BY <1>1, <1>2, <2>1, <2>3, NoneAssumption DEF Carries
  <2>5. lease'[a] # None
    BY <1>1, <2>1, <2>4 DEF TypeOK
  <2>6. KeepsOnly(n, a)'
    BY <1>24, <2>1, <2>5, Zenon
  <2> QED BY <1>23, <2>1, <2>4, <2>6
<1>26. ASSUME LPatch PROVE Goal
  <2> DEFINE l == Patched(lease[a])
  <2>1. /\ UNCHANGED <<clease, vmip, cvmip>> /\ lw # None /\ lw.pc = "patch"
        /\ lw' = [lw EXCEPT !.pc = "spec"] \/ lw' = [lw EXCEPT !.pc = "spec", !.ok = TRUE]
        /\ UNCHANGED vw \/ vw' = VWorkerL(a)
        /\ lease' = lease \/ lease' = [lease EXCEPT ![a] = l]
    BY <1>1, <1>26 DEF LPatch, PutLease
  <2>2. Carries(lw.cur, n) /\ Carries(lw.chg, n) /\ lease[a] # None
    BY <1>1, <2>1 DEF OnlyLease, KeepsOnly
  <2>3. ~LabelsChanged
    BY <2>2, Zenon DEF LabelsChanged, Carries
  <2>4. PICK f \in BOOLEAN : l = Finalized([lease[a] EXCEPT !.uid = lease[a].uid], f)
    <3>1. lw.chg.fin \in BOOLEAN /\ lease[a].fin \in BOOLEAN
      BY <1>1, <1>2, <2>1, <2>2, LeaseFields, Zenon
    <3> QED BY <2>3, <3>1 DEF Patched
  <2>5. [lease[a] EXCEPT !.uid = lease[a].uid] = lease[a]
    BY <1>2, <2>2, ZenonT(60) DEF Lease
  <2>6. l = [lease[a] EXCEPT !.fin = f]
    BY <1>2, <2>2, <2>4, <2>5, Zenon DEF Finalized
  <2>7. l.name = lease[a].name /\ l.uid = lease[a].uid /\ l.del = lease[a].del
    BY <1>2, <2>2, <2>6, ZenonT(60) DEF Lease
  <2>8. l # None
    <3>1. l \in Lease
      BY <1>2, <2>2, <2>6, ZenonT(60) DEF Lease
    <3> QED BY <3>1, NoneAssumption
  <2> HIDE DEF l
  <2>9. l # None /\ Carries(l, n) /\ ~l.del
    BY <1>2, <2>2, <2>7, <2>8, Zenon DEF Carries
  <2>10. lease'[a] # None
    BY <2>1, <2>2, <2>9 DEF TypeOK
  <2>11. KeepsOnly(n, a)'
    BY <1>24, <2>1, <2>10, Zenon
  <2> QED BY <1>23, <2>1, <2>9, <2>11
<1>27. ASSUME LSpec PROVE Goal
  <2>1. lw # None /\ lw.pc = "spec" /\ lw' = None /\ UNCHANGED <<clease, vmip, cvmip>>
    BY <1>27 DEF LSpec
  <2>2. lw.chg.name = lw.cur.name
    BY <2>1, Zenon DEF OnlyLease, KeepsOnly, Carries
  <2>3. UNCHANGED <<lease, vw>>
    BY <1>27, <2>2 DEF LSpec
  <2>4. KeepsOnly(n, a)'
    BY <2>1, Zenon DEF KeepsOnly
  <2> QED BY <1>23, <2>1, <2>3, <2>4, Zenon
<1>28. ASSUME LStatusRefused \/ LPatchRefused PROVE Goal
  BY <1>23, <1>28, Zenon DEF LStatusRefused, LPatchRefused, KeepsOnly
<1>29. ASSUME Restart PROVE Goal
  <2>1. vw' = None /\ lw' = None /\ cvmip' = vmip /\ clease' = lease /\ UNCHANGED <<vmip, lease>>
    BY <1>29 DEF Restart
  <2>2. LeasedOnly(n, a)'
    BY <2>1, Zenon DEF OnlyLease, LeasedOnly, Carries
  <2>3. AsksOnly(n, a, s)'
    BY <2>1, Zenon DEF OnlyLease, AsksOnly, CopyOf
  <2> QED BY <2>1, <2>2, <2>3 DEF OnlyLease, BindsOnly, KeepsOnly
<1>30. ASSUME UNCHANGED vars PROVE Goal
  BY <1>3, <1>4, <1>6, <1>7, <1>30, SameWorkers, Zenon DEF vars, OnlyLease
<1> HIDE DEF Goal
<1>31. Goal \/ \E b \in Addrs : OnlyLease(n, b, s)'
  BY ConstantsAssumption, <1>8, <1>9, <1>10, <1>11, <1>12, <1>13, <1>14, <1>15, <1>16, <1>17, <1>18, <1>19,
     <1>20, <1>21, <1>22, <1>25, <1>26, <1>27, <1>28, <1>29, <1>30, ZenonT(60)
  DEF Next, Users, Sync, VController, LController
<1> QED BY <1>31 DEF Goal

\* When the vmip goes, what it leaves is what OnlyLease says.
LEMMA OnlyLeaves ==
  ASSUME TypeOK, NEW n \in Names, NEW a \in Addrs, NEW s, OnlyLease(n, a, s)
  PROVE  Leftover(n)
<1>1. \A x \in Labelled(lease, Uid(n)) : x = a /\ lease[a] # None
  BY Zenon DEF Labelled, OnlyLease, LeasedOnly
<1>2. Marked(n)
  BY <1>1, Zenon DEF Marked, OnlyLease, LeasedOnly, Carries
<1>3. MarksLast(n)
  <2> SUFFICES ASSUME vw # None PROVE MarksLast(n)
    BY DEF MarksLast
  <2>1. vw.obj # None
    BY VWorkFields, NoneAssumption, Zenon DEF TypeOK
  <2>2. /\ vw.obj.uid = Uid(n) /\ vw.obj.want = s /\ vw.obj.addr \in {None, a} /\ (s # AnyIP => s = a)
        /\ vw.pc # "take" /\ (vw.pc = "create" => lease[a] = None)
    BY <2>1, Zenon DEF OnlyLease, AsksOnly, BindsOnly, CopyOf
  <2>3. AssignedIPAddress(vw.obj) \in {None, a}
    BY <2>2 DEF AssignedIPAddress
  <2> QED BY <1>1, <2>2, <2>3, Zenon DEF MarksLast
<1>4. MarksNone
  BY DEF OnlyLease, KeepsOnly, MarksNone, Carries
<1> QED BY <1>2, <1>3, <1>4 DEF Leftover

\* The Bound handler of the reconcile left over.
LEMMA BoundLeft ==
  ASSUME TypeOK, NEW n \in Names, Leftover(n), vw # None => vw.n = n, VBound
  PROVE  MarksLast(n)'
<1> DEFINE o == vw.obj
           L == Labelled(lease, Uid(n))
<1>1. vw # None /\ vw \in VWork /\ o \in VMIP /\ vw.n = n /\ vw' = BoundHandler(n, o) /\ UNCHANGED lease
  BY VWorkFields DEF VBound, TypeOK
<1>2. /\ o.uid = Uid(n) /\ (AssignedIPAddress(o) # None => L \subseteq {AssignedIPAddress(o)})
      /\ \A x, y \in L : x = y
  BY <1>1, Zenon DEF VBound, Leftover, Marked, MarksLast
<1>3. ASSUME NEW pc, NEW b, NEW addr, NEW r, vw' = Outcome(pc, b, addr, r),
             pc # "lease", pc = "take" => L \subseteq {b}, pc = "create" => L = {}
      PROVE  MarksLast(n)'
  <2>1. vw'.obj = o /\ vw'.pc = pc /\ vw'.a = b
    BY <1>1, <1>3, ZenonT(60) DEF Outcome, VWork
  <2>2. Labelled(lease, Uid(n))' = L
    BY <1>1 DEF Labelled
  <2> HIDE DEF o, L
  <2> QED BY <1>2, <1>3, <2>1, <2>2 DEF MarksLast
<1>4. CASE GetLease(o) = {}
  <2>1. vw' = CreateLeaseStep(o)
    BY <1>1, <1>4, Zenon DEF BoundHandler
  <2>2. CASE o.addr # None
    BY <1>3, <2>1, <2>2, Zenon DEF CreateLeaseStep
  <2>3. CASE o.addr = None
    <3>1. L = {}
      <4>1. CASE AssignedIPAddress(o) = None
        <5>1. GetLease(o) = IF Labelled(clease, Uid(n)) # {} THEN Labelled(clease, Uid(n)) ELSE L
          BY <1>2, <4>1, Zenon DEF GetLease
        <5> QED BY <1>4, <5>1
      <4>2. CASE AssignedIPAddress(o) # None
        <5>1. lease[AssignedIPAddress(o)] = None
          BY <1>4, <4>2 DEF GetLease
        <5> QED BY <1>2, <4>2, <5>1 DEF Labelled
      <4> QED BY <4>1, <4>2
    <3> QED BY <1>3, <2>1, <2>3, <3>1, SMTT(20), ZenonT(20), SMTT(40) DEF CreateLeaseStep
  <2> QED BY <2>2, <2>3
<1>5. CASE GetLease(o) # {} /\ \E x, y \in GetLease(o) : x # y
  <2>1. vw' = Outcome("update", None, o.addr, "NotReady")
    BY <1>1, <1>5, ZenonT(20) DEF BoundHandler
  <2> QED BY <1>3, <2>1
<1>6. CASE GetLease(o) # {} /\ ~\E x, y \in GetLease(o) : x # y
  <2> DEFINE a == CHOOSE x \in GetLease(o) : TRUE
             l == LeaseCopy(o, a)
  <2>1. a \in GetLease(o)
    BY <1>6
  <2>2. vw' = IF HasReference(n, l) THEN BindStep(a, l) ELSE TakeLeaseStep(n, a, l)
    BY <1>1, <1>6, Zenon DEF BoundHandler
  <2>3. Unoccupied(n, l) => L \subseteq {a}
    <3>1. CASE AssignedIPAddress(o) # None
      <4>1. a = AssignedIPAddress(o)
        BY <2>1, <3>1 DEF GetLease
      <4> QED BY <1>2, <3>1, <4>1
    <3>2. CASE AssignedIPAddress(o) = None
      <4>1. a \in Labelled(clease, Uid(n)) \/ a \in L
        BY <1>2, <2>1, <3>2, SMTT(20), ZenonT(20), SMTT(40) DEF GetLease
      <4>2. CASE a \in L
        BY <1>2, <4>2
      <4>3. CASE a \in Labelled(clease, Uid(n))
        <5>1. l = clease[a] /\ clease[a].uid = Uid(n)
          BY <1>2, <3>2, <4>3, Zenon DEF Labelled, LeaseCopy, FoundInCache
        <5>2. Uid(n) # None
          <6>1. o.uid \in UIDs
            BY <1>1, VMIPFields
          <6> QED BY <1>2, <6>1, NoneAssumption
        <5> QED BY <5>1, <5>2 DEF Unoccupied
      <4> QED BY <4>1, <4>2, <4>3
    <3> QED BY <3>1, <3>2
  <2> HIDE DEF a, l, L
  <2>4. \/ \E r : vw' = Outcome("update", None, a, r)
        \/ vw' = Outcome("take", a, a, "NotReady") /\ Unoccupied(n, l)
    BY <2>2 DEF BindStep, TakeLeaseStep
  <2> QED BY <1>3, <2>3, <2>4
<1> QED BY <1>4, <1>5, <1>6

\* When the vmip has gone no step labels a second lease.
LEMMA LeftStep ==
  ASSUME TypeOK, CurrentCopies, NEW n \in Names, Alone(n), Leftover(n), Lonely(n), Gone(n),
         UNCHANGED <<inc, edits>>, [Next]_vars
  PROVE  Leftover(n)'
<1> DEFINE Goal == Leftover(n)'
           L == Labelled(lease, Uid(n))
           \* no lease gets the label
           NoLabel == \A x \in Addrs : lease'[x] # None =>
                        lease[x] # None /\ lease'[x].uid \in {None, lease[x].uid}
<1>1. /\ vw # None => vw \in VWork /\ vw.n = n /\ vw.obj \in VMIP
      /\ lw # None => lw \in LWork /\ lw.cur \in Lease /\ lw.chg \in Lease /\ lw.a \in Addrs
      /\ \A m \in Names : vmip[m] = None /\ cvmip[m] = None
  BY VWorkFields, LWorkFields, Zenon DEF TypeOK, Lonely, Gone
<1>2. \A x \in Addrs : lease[x] # None => lease[x] \in Lease
  BY DEF TypeOK
<1>0. Uid(n) # None
  <2>1. 1 \in 1 .. MaxInc
    BY ConstantsAssumption DEF TypeOK, Alone
  <2>2. Uid(n) \in UIDs
    BY <2>1 DEF Uid, UIDs
  <2> QED BY <2>2, NoneAssumption
<1>3. ASSUME NoLabel PROVE Marked(n)' /\ Labelled(lease, Uid(n))' \subseteq L
  <2>1. Labelled(lease, Uid(n))' \subseteq L
    BY <1>0, <1>3, Zenon DEF Labelled
  <2>2. \A x \in Addrs : lease'[x] # None => lease'[x].uid \in {None, Uid(n)}
    BY <1>3, Zenon DEF Leftover, Marked
  <2> QED BY <2>1, <2>2, Zenon DEF Leftover, Marked
<1>4. ASSUME NoLabel, VSame PROVE MarksLast(n)'
  BY <1>3, <1>4, Zenon DEF VSame, Leftover, MarksLast
<1>5. ASSUME VMoved PROVE MarksLast(n)'
  BY <1>5 DEF VMoved, Leftover, MarksLast
<1>6. ASSUME LSame PROVE MarksNone'
  BY <1>6, Zenon DEF LSame, Leftover, MarksNone
<1>7. ASSUME UNCHANGED lease PROVE NoLabel
  BY <1>7, Zenon
<1>8. ASSUME UNCHANGED lease, VSame, LSame PROVE Goal
  BY <1>3, <1>4, <1>6, <1>7, <1>8, Zenon DEF Leftover
\* users and the cache
<1>9. ASSUME NEW m \in Names, NEW q, CreateVMIP(m, q) \/ UpdateVMIP(m, q) PROVE FALSE
  <2>1. inc' = [inc EXCEPT ![m] = @ + 1] \/ edits' = edits + 1
    BY <1>9, ZenonT(60) DEF CreateVMIP, UpdateVMIP
  <2>2. inc[m] \in Nat /\ edits \in Nat /\ inc \in [Names -> 0 .. MaxInc]
    BY ConstantsAssumption DEF TypeOK
  <2> QED BY <2>1, <2>2
<1>10. ASSUME NEW m \in Names, DeleteVMIP(m) \/ VReconcile(m) PROVE FALSE
  BY <1>1, <1>10, Zenon DEF DeleteVMIP, VReconcile
<1>11. ASSUME NEW m \in Names, UseVMIP(m) \/ SyncVM(m) \/ SyncVMIP(m) PROVE Goal
  BY <1>8, <1>11, SameWorkers, Zenon DEF UseVMIP, SyncVM, SyncVMIP
<1>12. ASSUME NEW b \in Addrs, SyncLease(b) PROVE Goal
  BY <1>8, <1>12, SameWorkers, Zenon DEF SyncLease
\* the vmip worker
<1>13. ASSUME VBound PROVE Goal
  <2>1. UNCHANGED <<lease, lw>>
    BY <1>13 DEF VBound
  <2> QED BY <1>3, <1>6, <1>7, <1>13, <2>1, BoundLeft, SameWorkers, Zenon DEF Leftover, Lonely
<1>14. ASSUME NEW b \in Addrs, NEW l, lease' = [lease EXCEPT ![b] = l], l.uid = Uid(n), L \subseteq {b}
       PROVE  Marked(n)'
  <2>1. \A x \in Addrs : lease'[x] = IF x = b THEN l ELSE lease[x]
    BY <1>14 DEF TypeOK
  <2>2. Labelled(lease, Uid(n))' \subseteq {b}
    BY <1>14, <2>1 DEF Labelled
  <2>3. \A x \in Addrs : lease'[x] # None => lease'[x].uid \in {None, Uid(n)}
    BY <1>14, <2>1 DEF Leftover, Marked
  <2> QED BY <2>2, <2>3, Zenon DEF Marked
<1>15. ASSUME VTake PROVE Goal
  <2> DEFINE l == [lease[vw.a] EXCEPT !.ns = NamespaceOf[vw.n], !.name = vw.n, !.uid = vw.obj.uid, !.obs = FALSE]
  <2>1. vw # None /\ vw.pc = "take" /\ lw' = LWorker(vw.a) /\ lease' = [lease EXCEPT ![vw.a] = l]
    BY <1>15 DEF VTake, PutLease
  <2>2. L \subseteq {vw.a} /\ vw.obj.uid = Uid(n)
    BY <2>1 DEF Leftover, MarksLast
  <2>3. Marked(n)'
    <3>1. CASE vw.a \in Addrs /\ lease[vw.a] # None
      <4>1. \A r \in Lease : \A p, q, u :
              [r EXCEPT !.ns = p, !.name = q, !.uid = u, !.obs = FALSE].uid = u
        BY ZenonT(60) DEF Lease
      <4>2. l.uid = vw.obj.uid
        BY <1>2, <3>1, <4>1
      <4> HIDE DEF l
      <4> QED BY <1>14, <2>1, <2>2, <3>1, <4>2, Zenon
    <3>2. CASE vw.a \notin Addrs
      BY <1>3, <2>1, <3>2 DEF TypeOK
    <3>3. CASE vw.a \in Addrs /\ lease[vw.a] = None
      BY <1>15, <2>1, <3>3 DEF CurrentCopies, VTake
    <3> QED BY <3>1, <3>2, <3>3
  <2> QED BY <1>5, <1>6, <1>15, <2>1, <2>3, MovedOn, SameWorkers DEF Leftover
<1>16. ASSUME VCreate PROVE Goal
  <2>1. PICK b \in Addrs : lease' = [lease EXCEPT ![b] = NewLease(vw.n, vw.obj.uid)] /\ lw' = LWorker(b)
    BY <1>16, Zenon DEF VCreate, PutLease
  <2>2. L = {} /\ vw.obj.uid = Uid(n)
    BY <1>16 DEF VCreate, Leftover, MarksLast
  <2>3. NewLease(vw.n, vw.obj.uid).uid = vw.obj.uid
    BY Zenon DEF NewLease
  <2>4. Marked(n)'
    BY <1>14, <2>1, <2>2, <2>3, Zenon
  <2> QED BY <1>5, <1>6, <1>16, <2>1, <2>4, MovedOn, SameWorkers DEF Leftover
<1>17. ASSUME VTakeRefused \/ VNoAddress \/ VCreateFails \/ VStatusRefused \/ VStatus \/ VPatch PROVE Goal
  <2>1. UNCHANGED <<lease, lw>>
    BY <1>17, ZenonT(60) DEF VTakeRefused, VNoAddress, VCreateFails, VStatusRefused, VStatus, VPatch
  <2> QED BY <1>3, <1>5, <1>6, <1>7, <1>17, <2>1, MovedOn, SameWorkers, Zenon DEF Leftover
\* the lease worker: no vmip is there to give its label
<1>18. ASSUME NEW b \in Addrs, LReconcile(b) PROVE Goal
  <2>1. UNCHANGED <<lease, vw>> /\ lw'.pc = "vmip"
    BY <1>18, Zenon DEF LReconcile
  <2> QED BY <1>3, <1>4, <1>7, <2>1, SameWorkers, Zenon DEF Leftover, MarksNone
<1>19. ASSUME NEW e \in BOOLEAN, LHandle(e) PROVE Goal
  <2> DEFINE chg == LeaseHandlers(lw.a, lw.cur)
             pc == IF e THEN "delete" ELSE "status"
  <2>1. UNCHANGED <<lease, vw>> /\ lw # None /\ lw' = [lw EXCEPT !.pc = pc, !.chg = chg]
    BY <1>19 DEF LHandle
  <2>2. ~IsBound(lw.a, lw.cur)
    BY <1>1, <2>1, LeaseFields, Zenon DEF IsBound
  <2>3. chg.uid = None
    BY <1>1, <2>1, <2>2, ZenonT(60) DEF LeaseHandlers, Lease
  <2> HIDE DEF chg, pc
  <2>4. lw'.chg = chg
    BY <1>1, <2>1, ZenonT(60) DEF LWork
  <2> QED BY <1>3, <1>4, <1>7, <2>1, <2>3, <2>4, SameWorkers DEF Leftover, MarksNone
<1>20. ASSUME lw' = None \/ /\ lw # None /\ lw.pc # "vmip"
                            /\ \E pc, ok : lw' = [lw EXCEPT !.pc = pc] \/ lw' = [lw EXCEPT !.pc = pc, !.ok = ok]
       PROVE  MarksNone'
  <2>1. CASE lw' = None
    BY <2>1 DEF MarksNone
  <2>2. CASE lw' # None
    <3>1. lw # None /\ lw.pc # "vmip" /\ lw'.chg = lw.chg /\ lw'.cur = lw.cur
      BY <1>1, <1>20, <2>2, ZenonT(60) DEF LWork
    <3> QED BY <3>1 DEF Leftover, MarksNone
  <2> QED BY <2>1, <2>2
<1>21. ASSUME UNCHANGED vw \/ \E x : vw' = VWorkerL(x), MarksNone', lw # None,
              lease' = lease \/ \E l : /\ lease' = [lease EXCEPT ![lw.a] = l]
                                       /\ l # None => lease[lw.a] # None /\ l.uid \in {None, lease[lw.a].uid}
       PROVE  Goal
  <2>1. NoLabel
    <3>1. CASE lease' = lease
      BY <3>1
    <3>2. CASE lease' # lease
      <4>1. PICK l : /\ lease' = [lease EXCEPT ![lw.a] = l]
                     /\ l # None => lease[lw.a] # None /\ l.uid \in {None, lease[lw.a].uid}
        BY <1>21, <3>2, Zenon
      <4>2. \A x \in Addrs : lease'[x] = IF x = lw.a THEN l ELSE lease[x]
        BY <4>1, Zenon DEF TypeOK
      <4> QED BY <4>1, <4>2, Zenon
    <3> QED BY <3>1, <3>2, Zenon
  <2> QED BY <1>3, <1>4, <1>21, <2>1, SameWorkers, Zenon DEF Leftover
<1>22. ASSUME LDelete PROVE Goal
  <2>1. /\ lw # None /\ lw.pc = "delete" /\ (UNCHANGED vw \/ vw' = VWorkerL(lw.a))
        /\ lw' = [lw EXCEPT !.pc = "status", !.ok = FALSE] \/ lw' = [lw EXCEPT !.pc = "status"]
        /\ lease' = lease \/ (lease[lw.a] # None /\ lease' = [lease EXCEPT ![lw.a] = Deleted(lease[lw.a])])
    BY <1>22, ZenonT(60) DEF LDelete, PutLease
  <2>2. lease[lw.a] # None /\ Deleted(lease[lw.a]) # None => Deleted(lease[lw.a]).uid = lease[lw.a].uid
    BY <1>1, <1>2, <2>1, ZenonT(60) DEF Deleted, Lease
  <2>3. MarksNone'
    BY <1>20, <2>1, Zenon
  <2> QED BY <1>21, <2>1, <2>2, <2>3
<1>23. ASSUME LStatus PROVE Goal
  <2> DEFINE l == [lease[lw.a] EXCEPT !.cond = lw.chg.cond, !.obs = TRUE]
  <2>1. /\ lw # None /\ lw.pc = "status" /\ (UNCHANGED vw \/ vw' = VWorkerL(lw.a))
        /\ lw' = [lw EXCEPT !.pc = "patch"]
        /\ lease' = lease \/ (lease[lw.a] # None /\ lease' = [lease EXCEPT ![lw.a] = l])
    BY <1>23 DEF LStatus, PutLease
  <2>2. lease[lw.a] # None => l.uid = lease[lw.a].uid
    BY <1>1, <1>2, <2>1, ZenonT(60) DEF Lease
  <2> HIDE DEF l
  <2>3. MarksNone'
    BY <1>20, <2>1, Zenon
  <2> QED BY <1>21, <2>1, <2>2, <2>3
<1>24. ASSUME LPatch PROVE Goal
  <2> DEFINE u == IF LabelsChanged THEN lw.chg.uid ELSE lease[lw.a].uid
             l == Patched(lease[lw.a])
  <2>1. /\ lw # None /\ lw.pc = "patch" /\ (UNCHANGED vw \/ vw' = VWorkerL(lw.a))
        /\ lw' = [lw EXCEPT !.pc = "spec", !.ok = TRUE] \/ lw' = [lw EXCEPT !.pc = "spec"]
        /\ lease' = lease \/ (lease[lw.a] # None /\ lease' = [lease EXCEPT ![lw.a] = l])
    BY <1>24, ZenonT(60) DEF LPatch, PutLease
  <2>2. u \in {None, lease[lw.a].uid}
    BY <2>1 DEF LabelsChanged, Leftover, MarksNone
  <2>3. PICK f : l = Finalized([lease[lw.a] EXCEPT !.uid = u], f)
    BY DEF Patched
  <2> HIDE DEF u, l
  <2>4. lease[lw.a] # None /\ l # None => l.uid = u
    <3> SUFFICES ASSUME lease[lw.a] # None, l # None PROVE l.uid = u
      BY Zenon
    <3>1. lease[lw.a] \in Lease
      BY <1>1, <1>2, <2>1
    <3> DEFINE k == [lease[lw.a] EXCEPT !.uid = u]
    <3>2. DOMAIN k = DOMAIN lease[lw.a] /\ k.uid = u
      BY <3>1, ZenonT(60) DEF Lease
    <3>3. l = [k EXCEPT !.fin = f]
      BY <2>3 DEF Finalized
    <3>4. "uid" \in DOMAIN k
      BY <3>1, <3>2, ZenonT(60) DEF Lease
    <3> HIDE DEF k
    <3> QED BY <3>2, <3>3, <3>4, ZenonT(20)
  <2>5. MarksNone'
    BY <1>20, <2>1, Zenon
  <2> QED BY <1>21, <2>1, <2>2, <2>4, <2>5
<1>25. ASSUME LSpec PROVE Goal
  <2> DEFINE l == [lease[lw.a] EXCEPT !.name = lw.chg.name, !.obs = FALSE]
  <2>1. /\ lw # None /\ lw' = None /\ (UNCHANGED vw \/ vw' = VWorkerL(lw.a))
        /\ lease' = lease \/ (lease[lw.a] # None /\ lease' = [lease EXCEPT ![lw.a] = l])
    BY <1>25 DEF LSpec, PutLease
  <2>2. lease[lw.a] # None => l.uid = lease[lw.a].uid
    BY <1>1, <1>2, <2>1, ZenonT(60) DEF Lease
  <2> HIDE DEF l
  <2>3. MarksNone'
    BY <1>20, <2>1
  <2> QED BY <1>21, <2>1, <2>2, <2>3, Zenon
<1>26. ASSUME LStatusRefused \/ LPatchRefused PROVE Goal
  BY <1>20, <1>21, <1>26, Zenon DEF LStatusRefused, LPatchRefused
<1>27. ASSUME Restart PROVE Goal
  BY <1>8, <1>27 DEF Restart, VSame, LSame
<1>28. ASSUME UNCHANGED vars PROVE Goal
  BY <1>8, <1>28, SameWorkers DEF vars
<1> HIDE DEF Goal
<1>29. Goal
  BY ConstantsAssumption, <1>9, <1>10, <1>11, <1>12, <1>13, <1>15, <1>16, <1>17, <1>18, <1>19, <1>22, <1>23,
     <1>24, <1>25, <1>26, <1>27, <1>28, ZenonT(60)
  DEF Next, Users, Sync, VController, LController
<1> QED BY <1>29 DEF Goal

\* What every step does to the number of vmips and to those that are absent.
LEMMA AloneStep ==
  ASSUME TypeOK, [Next]_vars
  PROVE  /\ UNCHANGED <<inc, edits>> \/ (\E m \in Names, q \in Requests : CreateVMIP(m, q))
            \/ (\E m \in Names, q \in Requests : UpdateVMIP(m, q))
         /\ \A m \in Names : vmip[m] = None /\ (~\E q \in Requests : CreateVMIP(m, q)) => vmip'[m] = None
         /\ \A m \in Names : cvmip'[m] = cvmip[m] \/ (cvmip'[m] = vmip[m] /\ UNCHANGED vmip)
<1> DEFINE Calm == UNCHANGED <<inc, edits>>
           Absent == /\ \A m \in Names : vmip[m] = None /\ (~\E q \in Requests : CreateVMIP(m, q))
                                         => vmip'[m] = None
                     /\ \A m \in Names : cvmip'[m] = cvmip[m] \/ (cvmip'[m] = vmip[m] /\ UNCHANGED vmip)
           Goal == (Calm \/ (\E m \in Names, q \in Requests : CreateVMIP(m, q))
                         \/ (\E m \in Names, q \in Requests : UpdateVMIP(m, q))) /\ Absent
<1>1. ASSUME UNCHANGED <<vmip, cvmip>> PROVE Absent
  BY <1>1
<1>2. ASSUME NEW k \in Names, NEW o, PutVMIP(k, o), UNCHANGED cvmip, vmip[k] # None
      PROVE  Absent
  <2>1. \A m \in Names : m # k => vmip'[m] = vmip[m]
    BY <1>2 DEF PutVMIP, TypeOK
  <2> QED BY <1>2, <2>1, Zenon
<1>3. ASSUME NEW k \in Names, NEW q \in Requests, CreateVMIP(k, q) PROVE Goal
  <2>1. \A m \in Names : m # k => vmip'[m] = vmip[m]
    BY <1>3, Zenon DEF CreateVMIP, PutVMIP, TypeOK
  <2>2. UNCHANGED cvmip
    BY <1>3, ZenonT(60) DEF CreateVMIP
  <2> QED BY <1>3, <2>1, <2>2, Zenon
<1>4. ASSUME NEW k \in Names, NEW q \in Requests, UpdateVMIP(k, q) PROVE Goal
  BY <1>2, <1>4, Zenon DEF UpdateVMIP
<1>5. ASSUME NEW k \in Names, DeleteVMIP(k) PROVE Goal
  BY <1>2, <1>5, Zenon DEF DeleteVMIP
<1>6. ASSUME NEW k \in Names, SyncVMIP(k) PROVE Goal
  <2>1. Calm /\ UNCHANGED vmip /\ \A m \in Names : cvmip'[m] \in {cvmip[m], vmip[m]}
    BY <1>6 DEF SyncVMIP, TypeOK
  <2> QED BY <2>1, Zenon
<1>7. ASSUME NEW k \in Names, UseVMIP(k) \/ SyncVM(k) \/ VReconcile(k) PROVE Goal
  BY <1>1, <1>7, ZenonT(60) DEF UseVMIP, SyncVM, VReconcile
<1>8. ASSUME NEW b \in Addrs, SyncLease(b) \/ LReconcile(b) PROVE Goal
  BY <1>1, <1>8, ZenonT(60) DEF SyncLease, LReconcile
<1>9. ASSUME VBound \/ VTake \/ VTakeRefused \/ VCreate \/ VNoAddress \/ VCreateFails \/ VStatusRefused
      PROVE  Goal
  BY <1>1, <1>9, ZenonT(60) DEF VBound, VTake, VTakeRefused, VCreate, VNoAddress, VCreateFails, VStatusRefused
<1>10. ASSUME VStatus \/ VPatch PROVE Goal
  <2>1. vw # None /\ vw.n \in Names
    BY <1>10, VWorkFields, Zenon DEF VStatus, VPatch, TypeOK
  <2>2. Calm /\ UNCHANGED cvmip /\ (UNCHANGED vmip \/ (vmip[vw.n] # None /\ \E o : PutVMIP(vw.n, o)))
    BY <1>10, Zenon DEF VStatus, VPatch
  <2> QED BY <1>1, <1>2, <2>1, <2>2, Zenon
<1>11. ASSUME NEW e \in BOOLEAN, LHandle(e) PROVE Goal
  BY <1>1, <1>11 DEF LHandle
<1>12. ASSUME LDelete \/ LStatus \/ LStatusRefused \/ LPatch \/ LPatchRefused \/ LSpec PROVE Goal
  BY <1>1, <1>12, ZenonT(60) DEF LDelete, LStatus, LStatusRefused, LPatch, LPatchRefused, LSpec
<1>13. ASSUME Restart PROVE Goal
  BY <1>13, Zenon DEF Restart
<1>14. ASSUME UNCHANGED vars PROVE Goal
  BY <1>1, <1>14, Zenon DEF vars
<1> HIDE DEF Goal
<1>15. Goal
  BY ConstantsAssumption, <1>3, <1>4, <1>5, <1>6, <1>7, <1>8, <1>9, <1>10, <1>11, <1>12, <1>13, <1>14, ZenonT(60)
  DEF Next, Users, Sync, VController, LController
<1> QED BY <1>15, Zenon DEF Goal

\* Before a vmip is in the cache nothing but its users and the cache moves.
LEMMA QuietStep ==
  ASSUME TypeOK, [Next]_vars, \A m \in Names : cvmip[m] = None, \A a \in Addrs : lease[a] = None /\ clease[a] = None,
         vw = None, lw = None
  PROVE  (\A a \in Addrs : lease'[a] = None /\ clease'[a] = None) /\ vw' = None /\ lw' = None
<1> DEFINE Goal == (\A a \in Addrs : lease'[a] = None /\ clease'[a] = None) /\ vw' = None /\ lw' = None
<1>1. ASSUME NEW m \in Names, NEW q \in Requests, CreateVMIP(m, q) \/ UpdateVMIP(m, q) PROVE Goal
  BY <1>1, IdleWorkers, ZenonT(60) DEF CreateVMIP, UpdateVMIP
<1>2. ASSUME NEW m \in Names, DeleteVMIP(m) \/ UseVMIP(m) \/ SyncVMIP(m) \/ SyncVM(m) PROVE Goal
  BY <1>2, IdleWorkers, ZenonT(60) DEF DeleteVMIP, UseVMIP, SyncVMIP, SyncVM
<1>3. ASSUME NEW a \in Addrs, SyncLease(a) PROVE Goal
  BY <1>3 DEF SyncLease, TypeOK
<1>4. ASSUME NEW m \in Names, VReconcile(m) PROVE FALSE
  BY <1>4, Zenon DEF VReconcile
<1>5. ASSUME NEW a \in Addrs, LReconcile(a) PROVE FALSE
  BY <1>5, Zenon DEF LReconcile
<1>6. ~(VBound \/ VTake \/ VTakeRefused \/ VCreate \/ VNoAddress \/ VCreateFails \/ VStatus \/ VStatusRefused \/ VPatch)
  BY ZenonT(60) DEF VBound, VTake, VTakeRefused, VCreate, VNoAddress, VCreateFails, VStatus, VStatusRefused, VPatch
<1>7. ~((\E e \in BOOLEAN : LHandle(e)) \/ LDelete \/ LStatus \/ LStatusRefused \/ LPatch \/ LPatchRefused \/ LSpec)
  BY ZenonT(60) DEF LHandle, LDelete, LStatus, LStatusRefused, LPatch, LPatchRefused, LSpec
<1>8. ASSUME Restart PROVE Goal
  BY <1>8 DEF Restart
<1>9. ASSUME UNCHANGED vars PROVE Goal
  BY <1>9, Zenon DEF vars
<1> HIDE DEF Goal
<1>10. Goal
  BY ConstantsAssumption, <1>1, <1>2, <1>3, <1>4, <1>5, <1>6, <1>7, <1>8, <1>9, ZenonT(60)
  DEF Next, Users, Sync, VController, LController
<1> QED BY <1>10 DEF Goal

\* The vmip worker stays with its vmip, or begins with one that is in the cache.
LEMMA WorkerOf ==
  ASSUME TypeOK, [Next]_vars, vw' # None
  PROVE  (vw # None /\ vw'.n = vw.n) \/ (vw'.n \in Names /\ cvmip[vw'.n] # None)
<1> DEFINE Goal == (vw # None /\ vw'.n = vw.n) \/ (vw'.n \in Names /\ cvmip[vw'.n] # None)
<1>1. ASSUME VSame \/ VMoved PROVE Goal
  BY <1>1 DEF VSame, VMoved
<1>2. ASSUME NEW m \in Names, NEW q \in Requests, CreateVMIP(m, q) \/ UpdateVMIP(m, q) PROVE Goal
  BY <1>1, <1>2, SameWorkers, ZenonT(60) DEF CreateVMIP, UpdateVMIP
<1>3. ASSUME NEW m \in Names, DeleteVMIP(m) PROVE Goal
  BY <1>1, <1>3, SameWorkers, Zenon DEF DeleteVMIP
<1>4. ASSUME NEW m \in Names, UseVMIP(m) \/ SyncVMIP(m) \/ SyncVM(m) PROVE Goal
  BY <1>1, <1>4, SameWorkers, Zenon DEF UseVMIP, SyncVMIP, SyncVM
<1>5. ASSUME NEW a \in Addrs, SyncLease(a) \/ LReconcile(a) PROVE Goal
  BY <1>1, <1>5, SameWorkers, Zenon DEF SyncLease, LReconcile
<1>6. ASSUME NEW m \in Names, VReconcile(m) PROVE Goal
  BY <1>6, Zenon DEF VReconcile
<1>7. ASSUME VBound PROVE Goal
  BY <1>7, BoundSettles, Zenon DEF VBound
<1>8. ASSUME VTake \/ VTakeRefused \/ VCreate \/ VNoAddress \/ VCreateFails \/ VStatus \/ VStatusRefused \/ VPatch
      PROVE  Goal
  BY <1>1, <1>8, MovedOn
<1>9. ASSUME NEW e \in BOOLEAN, LHandle(e) PROVE Goal
  BY <1>1, <1>9, SameWorkers DEF LHandle
<1>10. ASSUME LDelete \/ LStatus \/ LStatusRefused \/ LPatch \/ LPatchRefused \/ LSpec PROVE Goal
  <2>1. UNCHANGED vw \/ \E x : vw' = VWorkerL(x)
    BY <1>10 DEF LDelete, LStatus, LStatusRefused, LPatch, LPatchRefused, LSpec
  <2> QED BY <1>1, <2>1, SameWorkers
<1>11. ~Restart
  BY DEF Restart
<1>12. ASSUME UNCHANGED vars PROVE Goal
  BY <1>1, <1>12, SameWorkers DEF vars
<1> HIDE DEF Goal
<1>13. Goal
  BY ConstantsAssumption, <1>2, <1>3, <1>4, <1>5, <1>6, <1>7, <1>8, <1>9, <1>10, <1>11, <1>12, ZenonT(60)
  DEF Next, Users, Sync, VController, LController
<1> QED BY <1>13 DEF Goal

\* Every step keeps the invariant.
LEMMA NextLabel ==
  ASSUME Addrs # {}, TypeOK, CurrentCopies, LabelInv, [Next]_vars
  PROVE  LabelInv'
<1>1. /\ inc \in [Names -> 0 .. MaxInc] /\ edits \in Nat /\ \A m \in Names : inc[m] \in Nat
  BY ConstantsAssumption DEF TypeOK
<1>2. ASSUME NEW m \in Names, NEW q \in Requests, CreateVMIP(m, q)
      PROVE  inc' = [inc EXCEPT ![m] = inc[m] + 1] /\ inc'[m] > 0 /\ UNCHANGED edits
  <2>1. inc' = [inc EXCEPT ![m] = inc[m] + 1] /\ UNCHANGED edits
    BY <1>2, ZenonT(60) DEF CreateVMIP
  <2> QED BY <1>1, <2>1
<1>3. ASSUME NEW m \in Names, NEW q \in Requests, UpdateVMIP(m, q)
      PROVE  vmip[m] # None /\ edits' > 0 /\ UNCHANGED inc
  BY <1>1, <1>3 DEF UpdateVMIP
<1>4. ASSUME \A m \in Names : inc'[m] = 0 PROVE Untouched'
  <2>1. ~\E m \in Names, q \in Requests : CreateVMIP(m, q)
    BY <1>2, <1>4
  <2>2. UNCHANGED inc
    BY <1>3, <2>1, AloneStep, Zenon
  <2>3. Untouched
    BY <1>4, <2>2, Zenon DEF LabelInv
  <2>4. \A m \in Names : vmip'[m] = None /\ cvmip'[m] = None
    BY <2>1, <2>3, AloneStep, Zenon DEF Untouched
  <2>5. (\A a \in Addrs : lease'[a] = None /\ clease'[a] = None) /\ vw' = None /\ lw' = None
    BY <2>3, QuietStep DEF Untouched
  <2> QED BY <2>4, <2>5 DEF Untouched
<1>5. ASSUME NEW n \in Names, Alone(n)'
      PROVE  /\ Lonely(n)' /\ (~Gone(n)' /\ cvmip'[n] = None => Unnoticed(n)')
             /\ \/ Gone(n)' /\ Leftover(n)'
                \/ \E a \in Addrs, s \in Addrs \cup {AnyIP} : OnlyLease(n, a, s)'
  <2>1. inc'[n] = 1 /\ edits' = 0 /\ \A m \in Names \ {n} : inc'[m] = 0
    BY <1>5 DEF Alone
  <2>2. CASE UNCHANGED <<inc, edits>>
    <3>1. Alone(n) /\ ~\E m \in Names, q \in Requests : CreateVMIP(m, q)
      <4>1. ASSUME NEW m \in Names, NEW q \in Requests, CreateVMIP(m, q) PROVE FALSE
        <5>1. inc'[m] = inc[m] + 1
          BY <1>1, <1>2, <4>1
        <5> QED BY <1>1, <2>2, <5>1
      <4> QED BY <2>1, <2>2, <4>1 DEF Alone
    <3>2. /\ Lonely(n) /\ (~Gone(n) /\ cvmip[n] = None => Unnoticed(n))
          /\ \/ Gone(n) /\ Leftover(n)
             \/ \E a \in Addrs, s \in Addrs \cup {AnyIP} : OnlyLease(n, a, s)
      BY <3>1, Zenon DEF LabelInv
    <3>3. Lonely(n)'
      <4>1. \A m \in Names \ {n} : vmip'[m] = None /\ cvmip'[m] = None
        BY <3>1, <3>2, AloneStep, Zenon DEF Lonely
      <4>2. vw' # None => vw'.n = n
        BY <3>2, WorkerOf, Zenon DEF Lonely
      <4> QED BY <4>1, <4>2 DEF Lonely
    <3>4. CASE Gone(n)
      <4>1. Leftover(n)
        BY <3>2, <3>4, OnlyLeaves
      <4>2. Leftover(n)'
        BY <2>2, <3>1, <3>2, <3>4, <4>1, LeftStep
      <4>3. Gone(n)'
        BY <3>1, <3>4, AloneStep, Zenon DEF Gone
      <4> QED BY <3>3, <4>2, <4>3
    <3>5. CASE ~Gone(n)
      <4>1. PICK a \in Addrs, s \in Addrs \cup {AnyIP} : OnlyLease(n, a, s)
        BY <3>2, <3>5
      <4>2. lw # None => cvmip[n] # None
        BY <3>2, <3>5, Zenon DEF Unnoticed
      <4>3. \E b \in Addrs : OnlyLease(n, b, s)'
        BY <2>2, <3>2, <4>1, <4>2, OnlyStep
      <4>4. ASSUME ~Gone(n)', cvmip'[n] = None PROVE Unnoticed(n)'
        <5>1. vmip'[n] # None
          BY <4>4, Zenon DEF Gone
        <5>2. cvmip[n] = None
          BY <3>1, <4>4, <5>1, AloneStep, Zenon
        <5>3. Unnoticed(n) /\ \A m \in Names : cvmip[m] = None
          BY <3>2, <3>5, <5>2, Zenon DEF Lonely
        <5>4. \A x \in Addrs : lease[x] = None /\ clease[x] = None
          BY <4>1, <5>3, Zenon DEF Unnoticed, OnlyLease, LeasedOnly
        <5> QED BY <5>3, <5>4, QuietStep, Zenon DEF Unnoticed
      <4> QED BY <3>3, <4>3, <4>4
    <3> QED BY <3>4, <3>5
  <2>3. ASSUME NEW m \in Names, NEW q \in Requests, CreateVMIP(m, q)
        PROVE  /\ Lonely(n)' /\ cvmip'[n] = None /\ Unnoticed(n)'
               /\ \E a \in Addrs, s \in Addrs \cup {AnyIP} : OnlyLease(n, a, s)'
    <3>1. m = n /\ \A k \in Names : inc[k] = 0
      BY <1>1, <1>2, <2>1, <2>3
    <3>2. Untouched
      BY <3>1, Zenon DEF LabelInv
    <3>3. (\A a \in Addrs : lease'[a] = None /\ clease'[a] = None) /\ vw' = None /\ lw' = None
      BY <3>2, QuietStep, Zenon DEF Untouched
    <3> DEFINE o == [uid |-> <<n, inc[n] + 1>>, want |-> q, fin |-> FALSE, del |-> FALSE,
                     addr |-> None, reason |-> "", att |-> FALSE, obs |-> FALSE]
    <3>4. PutVMIP(n, o) /\ UNCHANGED cvmip
      BY <2>3, <3>1, ZenonT(60) DEF CreateVMIP
    <3>5. o.uid = Uid(n) /\ o.want = q /\ o.addr = None
      BY <3>1, SMTT(20), ZenonT(20), SMTT(40) DEF Uid
    <3> HIDE DEF o
    <3>6. vmip'[n] = o /\ \A k \in Names \ {n} : vmip'[k] = None /\ cvmip'[k] = None
      BY <3>2, <3>4, Zenon DEF PutVMIP, TypeOK, Untouched
    <3>7. cvmip'[n] = None
      BY <3>2, <3>4 DEF Untouched
    <3>8. q \in Addrs \cup {AnyIP}
      BY ConstantsAssumption
    <3>9. PICK a \in Addrs : q # AnyIP => q = a
      BY <3>8
    <3>10. OnlyLease(n, a, q)'
      BY <3>3, <3>5, <3>6, <3>7, <3>9, Zenon DEF OnlyLease, LeasedOnly, AsksOnly, BindsOnly, KeepsOnly, CopyOf
    <3> QED BY <3>3, <3>6, <3>7, <3>8, <3>10, Zenon DEF Lonely, Unnoticed
  <2>4. ~\E m \in Names, q \in Requests : UpdateVMIP(m, q)
    BY <1>3, <2>1
  <2> QED BY <2>2, <2>3, <2>4, AloneStep, Zenon
<1> QED BY <1>4, <1>5, Zenon DEF LabelInv

\* GetLease asks the API server when its cache knows no lease of the vmip, and the
\* lease controller only gives a label to the lease of a vmip its cache has: as long as
\* there has been one vmip only, created once and not edited, two leases never carry
\* its label, for any number of addresses, and with deletion and restarts.
THEOREM LabelsUnique == Spec => []UniqueLabel
<1>1. CASE Addrs = {}
  <2>1. UniqueLabel
    BY <1>1, Zenon DEF UniqueLabel
  <2> QED BY <2>1, PTL
<1>2. CASE Addrs # {}
  <2>1. Init => LabelInv
    BY OneNotZero DEF Init, LabelInv, Untouched, Alone
  <2>2. TypeOK /\ CurrentCopies /\ LabelInv /\ [Next]_vars => LabelInv'
    BY <1>2, NextLabel
  <2>3. TypeOK /\ LabelInv => UniqueLabel
    <3> SUFFICES ASSUME TypeOK, LabelInv, NEW n \in Names, Alone(n), NEW a \in Addrs, NEW b \in Addrs,
                        lease[a] # None, lease[b] # None, lease[a].uid # None, lease[a].uid = lease[b].uid
                 PROVE  a = b
      BY DEF UniqueLabel
    <3>1. Leftover(n)
      BY OnlyLeaves, Zenon DEF LabelInv
    <3> QED BY <3>1, Zenon DEF Leftover, Marked, Labelled
  <2> QED BY <2>1, <2>2, <2>3, InitTypeOK, InitCurrentCopies, NextTypeOK, NextCurrentCopies, PTL DEF Spec
<1> QED BY <1>1, <1>2

=============================================================================
