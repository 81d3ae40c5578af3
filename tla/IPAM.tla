-------------------------------- MODULE IPAM --------------------------------
(***************************************************************************)
(* IP address management: the VirtualMachineIPAddress ("vmip") controller, *)
(* the VirtualMachineIPAddressLease controller and the vmip webhook.       *)
(*                                                                         *)
(* A lease is the cluster-wide record of an address (its name IS the       *)
(* address), a vmip the namespaced request for one.  Both controllers run  *)
(* one worker each, read through the informer cache of the process, and    *)
(* write to the API server one call at a time; between two calls of one    *)
(* worker the other worker, the users and the cache may move.              *)
(*                                                                         *)
(* resourceVersions are only ever compared with the current one, so a      *)
(* copy of an object carries a Boolean "is it the current version" instead *)
(* of a number.  Likewise obs says whether status.observedGeneration is    *)
(* the object's generation (a spec change and a deletion bump it).         *)
(* Messages and events are left out, and with them the status writes that  *)
(* change nothing but a message.                                           *)
(***************************************************************************)
EXTENDS Naturals, FiniteSets

CONSTANTS
  Names,        \* the namespaced names of vmips
  NamespaceOf,  \* the namespace of each of them
  Addrs,        \* addresses users may ask for, numbers in CIDR order
  Usable,       \* those inside of virtualMachineCIDRs, without first and last
  HA,           \* the webhook may run in a replica whose cache lags behind
  Requests,     \* bound: the addresses users ask for
  MaxEdits,     \* bound: how often users edit the spec of a vmip
  Deletable,    \* bound: vmips users delete
  Shared,       \* bound: vmips that VMs come and cease to refer to
  Restarts,     \* bound: whether the process may restart
  MaxInc,       \* bound: how many objects of one name are ever created
  None,         \* no object, no address, no name
  AnyIP          \* spec.type Auto (any other value of want is spec.staticIP)

ASSUME ConstantsAssumption ==
  /\ Usable \subseteq Addrs /\ Addrs \subseteq Nat
  /\ HA \in BOOLEAN /\ Restarts \in BOOLEAN
  /\ Requests \subseteq Addrs \cup {AnyIP}
  /\ Deletable \subseteq Names /\ Shared \subseteq Names
  /\ MaxInc \in Nat /\ MaxEdits \in Nat
  /\ \A n \in Names : NamespaceOf[n] # None
  /\ None \notin Names \cup Addrs /\ AnyIP \notin Addrs /\ AnyIP # None

VARIABLES
  vmip, lease,    \* the API server's objects, None when absent
  cvmip, clease,  \* the informer cache of the controller process
  freshV, freshL, \* names (addresses) whose cached copy is current
  inUse, cInUse,  \* vmips some VM refers to; the same in the cache
  vw, lw,         \* the reconcile in flight in either worker
  inc,            \* how many vmip objects of each name were created so far
  edits           \* how many edits of a spec there were so far

vars == <<vmip, lease, cvmip, clease, freshV, freshL, inUse, cInUse,
          vw, lw, inc, edits>>

UIDs == Names \X (1 .. MaxInc)
Reasons == {"", "Bound", "NotReady", "NotFound", "Lost", "OutOfRange", "Exists"}

\* spec, metadata and status of a vmip; reason is that of its Bound condition,
\* which is True exactly for the reason "Bound"
VMIP == [uid : UIDs, want : Addrs \cup {AnyIP}, fin : BOOLEAN, del : BOOLEAN,
         addr : Addrs \cup {None}, reason : Reasons, att : BOOLEAN, obs : BOOLEAN]

\* a lease: its reference (the name is emptied on release, the namespace
\* stays), the uid label (None when empty) and the Bound condition
Lease == [ns : {NamespaceOf[n] : n \in Names}, name : Names \cup {None},
          uid : UIDs \cup {None}, fin : BOOLEAN, del : BOOLEAN,
          cond : {"", "Bound", "Released"}, obs : BOOLEAN]

\* the reconcile of a vmip: its copy, whether the copy is current, the address
\* and currency of the lease it works on, the status and finalizer to write
VWork == [pc : {"lease", "take", "create", "update", "patch"}, n : Names, obj : VMIP, ok : BOOLEAN,
          a : Addrs \cup {None}, lok : BOOLEAN, addr : Addrs \cup {None},
          reason : Reasons, fin : BOOLEAN]

\* the reconcile of a lease: the copy read (cur), the changed one, and whether
\* the resourceVersion held is current
LWork == [pc : {"vmip", "delete", "status", "patch", "spec"}, a : Addrs, cur : Lease, chg : Lease,
          ok : BOOLEAN]

\* None is not mistaken for an object or a label
ASSUME NoneAssumption == None \notin VMIP \cup Lease \cup VWork \cup LWork \cup UIDs

Init ==
  /\ vmip = [n \in Names |-> None] /\ cvmip = vmip /\ freshV = Names
  /\ lease = [a \in Addrs |-> None] /\ clease = lease /\ freshL = Addrs
  /\ inUse = {} /\ cInUse = {}
  /\ vw = None /\ lw = None
  /\ inc = [n \in Names |-> 0] /\ edits = 0

-----------------------------------------------------------------------------
(* The API server.  A write makes every copy of the object held elsewhere   *)
(* out of date: the cached one, and the ones of the workers.                *)

VWorker(n) == IF vw # None /\ vw.n = n THEN [vw EXCEPT !.ok = FALSE] ELSE vw
VWorkerL(a) == IF vw # None /\ vw.a = a THEN [vw EXCEPT !.lok = FALSE] ELSE vw
LWorker(a) == IF lw # None /\ lw.a = a THEN [lw EXCEPT !.ok = FALSE] ELSE lw

PutVMIP(n, o) == vmip' = [vmip EXCEPT ![n] = o] /\ freshV' = freshV \ {n}
PutLease(a, l) == lease' = [lease EXCEPT ![a] = l] /\ freshL' = freshL \ {a}

\* an object whose deletion is requested lives on while it has a finalizer
Deleted(o) == IF o.fin THEN [o EXCEPT !.del = TRUE, !.obs = FALSE] ELSE None
\* an object that is being deleted goes with its last finalizer
Finalized(o, fin) == IF o.del /\ ~fin THEN None ELSE [o EXCEPT !.fin = fin]

-----------------------------------------------------------------------------
(* The users and the admission webhook of vmips                             *)

IsInsideOfRange(s) == s \in Usable

\* validateAllocatedIPAddresses: reads a cache; the condition's generation is
\* not compared.  In another replica the lease may not have arrived yet.
ValidateAllocated(s) == ~HA /\ clease[s] # None => clease[s].cond = "Released"

ValidateCreate(s) == s # AnyIP => IsInsideOfRange(s) /\ ValidateAllocated(s)

\* mutant: the Bound condition is not looked at
ValidateUpdateAnyState(o, s) ==
  s # AnyIP /\ s # o.want /\ IsInsideOfRange(s) => ValidateAllocated(s)

\* an address out of the range only gives a warning here
ValidateUpdate(o, s) ==
  /\ s # AnyIP /\ s # o.want /\ IsInsideOfRange(s) => ValidateAllocated(s)
  /\ o.reason = "Bound" => IF o.want = AnyIP /\ s # AnyIP THEN s = o.addr ELSE s = o.want

CreateVMIP(n, s) ==
  /\ vmip[n] = None /\ inc[n] < MaxInc
  /\ ValidateCreate(s)
  /\ PutVMIP(n, [uid |-> <<n, inc[n] + 1>>, want |-> s, fin |-> FALSE, del |-> FALSE,
                 addr |-> None, reason |-> "", att |-> FALSE, obs |-> FALSE])
  /\ vw' = VWorker(n)
  /\ inc' = [inc EXCEPT ![n] = @ + 1]
  /\ UNCHANGED <<lease, cvmip, clease, freshL, inUse, cInUse, lw, edits>>

UpdateVMIP(n, s) ==
  /\ vmip[n] # None /\ vmip[n].want # s /\ edits < MaxEdits
  /\ ValidateUpdate(vmip[n], s)
  /\ PutVMIP(n, [vmip[n] EXCEPT !.want = s, !.obs = FALSE])
  /\ vw' = VWorker(n)
  /\ edits' = edits + 1
  /\ UNCHANGED <<lease, cvmip, clease, freshL, inUse, cInUse, lw, inc>>

DeleteVMIP(n) ==
  /\ vmip[n] # None /\ ~vmip[n].del
  /\ PutVMIP(n, Deleted(vmip[n]))
  /\ vw' = VWorker(n)
  /\ UNCHANGED <<lease, cvmip, clease, freshL, inUse, cInUse, lw, inc, edits>>

\* a VM starts, or ceases, to refer to the vmip in its spec or status
UseVMIP(n) ==
  /\ inUse' = IF n \in inUse THEN inUse \ {n} ELSE inUse \cup {n}
  /\ UNCHANGED <<vmip, lease, cvmip, clease, freshV, freshL, cInUse, vw, lw, inc, edits>>

-----------------------------------------------------------------------------
(* The informer cache: the latest version of an object arrives; versions in *)
(* between may be skipped, and objects arrive in any order.                 *)

SyncLease(a) ==
  /\ a \notin freshL
  /\ clease' = [clease EXCEPT ![a] = lease[a]]
  /\ freshL' = freshL \cup {a}
  /\ UNCHANGED <<vmip, lease, cvmip, freshV, inUse, cInUse, vw, lw, inc, edits>>

SyncVMIP(n) ==
  /\ n \notin freshV
  /\ cvmip' = [cvmip EXCEPT ![n] = vmip[n]]
  /\ freshV' = freshV \cup {n}
  /\ UNCHANGED <<vmip, lease, clease, freshL, inUse, cInUse, vw, lw, inc, edits>>

SyncVM(n) ==
  /\ (n \in inUse) # (n \in cInUse)
  /\ cInUse' = IF n \in inUse THEN cInUse \cup {n} ELSE cInUse \ {n}
  /\ UNCHANGED <<vmip, lease, cvmip, clease, freshV, freshL, inUse, vw, lw, inc, edits>>

-----------------------------------------------------------------------------
(* The vmip controller: Bound, Attached, Lifecycle and Protection handlers, *)
(* then the update of status and finalizers                                 *)

AssignedIPAddress(o) == IF o.want # AnyIP THEN o.want ELSE o.addr

\* addresses whose lease, in the map ls of leases, has the uid label
Labelled(ls, uid) == {a \in Addrs : ls[a] # None /\ ls[a].uid = uid}

\* mutant: no direct request to the API server
GetCachedLease(o) ==
  LET ip == AssignedIPAddress(o) IN
  IF ip # None THEN {a \in {ip} : clease[a] # None} ELSE Labelled(clease, o.uid)

\* GetLease: by the assigned address, or by the uid label; first the cache,
\* then the API server.  A set: two leases with the label are an error.
GetLease(o) ==
  LET ip == AssignedIPAddress(o) IN
  IF ip # None THEN {a \in {ip} : clease[a] # None \/ lease[a] # None}
  ELSE IF Labelled(clease, o.uid) # {} THEN Labelled(clease, o.uid)
  ELSE Labelled(lease, o.uid)

\* the lease that GetLease found was in the cache, under its name or its label
FoundInCache(o, a) == clease[a] # None /\ (AssignedIPAddress(o) = None => clease[a].uid = o.uid)

\* the copy GetLease returns for an address it found, and its currency
LeaseCopy(o, a) == IF FoundInCache(o, a) THEN clease[a] ELSE lease[a]
LeaseIsCurrent(o, a) == FoundInCache(o, a) => a \in freshL

\* mutant: only the namespace is compared
HasReferenceInNamespace(n, l) == l.ns = NamespaceOf[n]

HasReference(n, l) == l.name = n /\ l.ns = NamespaceOf[n]

\* where the Bound handler goes on, the lease it means to write, the address
\* it puts in the status and the reason of the Bound condition
Outcome(pc, a, addr, reason) ==
  [vw EXCEPT !.pc = pc, !.a = a, !.lok = a # None /\ LeaseIsCurrent(vw.obj, a),
             !.addr = addr, !.reason = reason]

BindStep(a, l) ==
  Outcome("update", None, a, IF l.cond = "Bound" /\ l.obs THEN "Bound" ELSE "NotReady")

\* mutant: only the label tells whether a lease is occupied
UnlabelledOnly(n, l) == l.ns = NamespaceOf[n] /\ l.uid = None

\* a lease of another namespace, or one with a reference or a label, is left alone
Unoccupied(n, l) == l.ns = NamespaceOf[n] /\ l.name = None /\ l.uid = None

TakeLeaseStep(n, a, l) ==
  IF Unoccupied(n, l) THEN Outcome("take", a, a, "NotReady")
  ELSE Outcome("update", None, a, "NotReady")

CreateLeaseStep(o) ==
  IF o.addr # None THEN Outcome("update", None, o.addr, "Lost")
  ELSE Outcome("create", None, None, "NotReady")

\* BoundHandler: the lease, if there is one, and the three steps
BoundHandler(n, o) ==
  LET found == GetLease(o) IN
  IF found = {} THEN CreateLeaseStep(o)
  ELSE IF \E a, b \in found : a # b THEN Outcome("update", None, o.addr, "NotReady")
  ELSE LET a == CHOOSE x \in found : TRUE
           l == LeaseCopy(o, a)
       IN IF HasReference(n, l) THEN BindStep(a, l) ELSE TakeLeaseStep(n, a, l)

VReconcile(n) ==
  /\ vw = None /\ cvmip[n] # None
  /\ vw' = [pc |-> "lease", n |-> n, obj |-> cvmip[n], ok |-> n \in freshV, a |-> None,
             lok |-> FALSE, addr |-> None, reason |-> "", fin |-> FALSE]
  /\ UNCHANGED <<vmip, lease, cvmip, clease, freshV, freshL, inUse, cInUse, lw, inc, edits>>

VBound ==
  /\ vw # None /\ vw.pc = "lease"
  /\ vw' = BoundHandler(vw.n, vw.obj)
  /\ UNCHANGED <<vmip, lease, cvmip, clease, freshV, freshL, inUse, cInUse, lw, inc, edits>>

\* TakeLeaseStep's client.Update, refused when the copy is out of date
VTake ==
  /\ vw # None /\ vw.pc = "take" /\ vw.lok
  /\ PutLease(vw.a, [lease[vw.a] EXCEPT !.ns = NamespaceOf[vw.n], !.name = vw.n, !.uid = vw.obj.uid, !.obs = FALSE])
  /\ lw' = LWorker(vw.a)
  /\ vw' = [vw EXCEPT !.pc = "update", !.a = None, !.lok = FALSE]
  /\ UNCHANGED <<vmip, cvmip, clease, freshV, inUse, cInUse, inc, edits>>

VTakeRefused ==
  /\ vw # None /\ vw.pc = "take" /\ ~vw.lok
  /\ vw' = [vw EXCEPT !.pc = "update", !.a = None, !.lok = FALSE]
  /\ UNCHANGED <<vmip, lease, cvmip, clease, freshV, freshL, inUse, cInUse, lw, inc, edits>>

AllocatedIPs == {a \in Addrs : clease[a] # None}

\* AllocateNewIP: the first address without a lease in the cache
AllocateNewIP(ip) == ip \in Usable \ AllocatedIPs /\ \A b \in Usable \ AllocatedIPs : ip <= b

\* the address CreateLeaseStep settles on
Candidate(o, ip) == IF o.want # AnyIP THEN ip = o.want ELSE AllocateNewIP(ip)

NewLease(n, uid) ==
  [ns |-> NamespaceOf[n], name |-> n, uid |-> uid, fin |-> FALSE, del |-> FALSE,
   cond |-> "", obs |-> FALSE]

\* CreateLeaseStep from GetAllocatedIPs on: the lease is created
VCreate ==
  /\ vw # None /\ vw.pc = "create"
  /\ \E ip \in Addrs :
       /\ Candidate(vw.obj, ip) /\ IsInsideOfRange(ip) /\ ip \notin AllocatedIPs
       /\ lease[ip] = None
       /\ PutLease(ip, NewLease(vw.n, vw.obj.uid))
       /\ lw' = LWorker(ip)
  /\ vw' = [vw EXCEPT !.pc = "update"]
  /\ UNCHANGED <<vmip, cvmip, clease, freshV, inUse, cInUse, inc, edits>>

\* or no address is free
VNoAddress ==
  /\ vw # None /\ vw.pc = "create"
  /\ \A ip \in Addrs : ~Candidate(vw.obj, ip)
  /\ vw' = [vw EXCEPT !.pc = "update", !.reason = "NotReady"]
  /\ UNCHANGED <<vmip, lease, cvmip, clease, freshV, freshL, inUse, cInUse, lw, inc, edits>>

\* or the address is out of the range, or leased in the cache; or the API
\* server has a lease of that name already
VCreateFails ==
  /\ vw # None /\ vw.pc = "create"
  /\ \E ip \in Addrs :
       /\ Candidate(vw.obj, ip)
       /\ ~(IsInsideOfRange(ip) /\ ip \notin AllocatedIPs /\ lease[ip] = None)
       /\ vw' = [vw EXCEPT !.pc = "update",
                           !.reason = IF ~IsInsideOfRange(ip) THEN "OutOfRange"
                                      ELSE IF ip \in AllocatedIPs THEN "Exists" ELSE "NotFound"]
  /\ UNCHANGED <<vmip, lease, cvmip, clease, freshV, freshL, inUse, cInUse, lw, inc, edits>>

\* ProtectionHandler: the finalizer goes when the vmip is deleted and not attached
KeepFinalizer(o, att) == ~(o.del /\ ~att)

\* Resource.Update goes on with the metadata, if the finalizer changed
VThenPatch(o, fin) == IF fin # o.fin THEN [vw EXCEPT !.pc = "patch", !.fin = fin] ELSE None

\* mutant: the address is copied from the spec
HandledFromSpec(w) ==
  [w.obj EXCEPT !.addr = w.obj.want, !.reason = w.reason, !.att = w.n \in cInUse, !.obs = TRUE]

\* the vmip as the Attached and Bound handlers leave it
Handled(w) ==
  [w.obj EXCEPT !.addr = w.addr, !.reason = w.reason, !.att = w.n \in cInUse, !.obs = TRUE]

\* the status update: skipped when nothing changed; that the object is gone
\* is ignored
VStatus ==
  /\ vw # None /\ vw.pc = "update"
  /\ LET new == Handled(vw) IN
     /\ IF new = vw.obj \/ vmip[vw.n] = None
        THEN UNCHANGED <<vmip, freshV>>
        ELSE vw.ok /\ PutVMIP(vw.n, new)
     /\ vw' = VThenPatch(vw.obj, KeepFinalizer(vw.obj, new.att))
  /\ UNCHANGED <<lease, cvmip, clease, freshL, inUse, cInUse, lw, inc, edits>>

\* and refused when the copy is out of date
VStatusRefused ==
  /\ vw # None /\ vw.pc = "update"
  /\ Handled(vw) # vw.obj /\ vmip[vw.n] # None /\ ~vw.ok
  /\ vw' = None
  /\ UNCHANGED <<vmip, lease, cvmip, clease, freshV, freshL, inUse, cInUse, lw, inc, edits>>

\* the JSON patch of the finalizers: by name, whatever the version
VPatch ==
  /\ vw # None /\ vw.pc = "patch"
  /\ IF vmip[vw.n] = None THEN UNCHANGED <<vmip, freshV>>
     ELSE PutVMIP(vw.n, Finalized(vmip[vw.n], vw.fin))
  /\ vw' = None
  /\ UNCHANGED <<lease, cvmip, clease, freshL, inUse, cInUse, lw, inc, edits>>

-----------------------------------------------------------------------------
(* The lease controller: Lifecycle, Protection and Retention handlers, then *)
(* the update of status, metadata and spec                                  *)

\* mutant: the lease of a vmip that no VM uses is released
IsBoundIfAttached(a, l) ==
  /\ l.name # None
  /\ cvmip[l.name] # None
  /\ cvmip[l.name].addr \in {None, a} /\ cvmip[l.name].att

\* isBound: the name and the namespace match, and the vmip has no other address
IsBound(a, l) ==
  /\ l.name # None
  /\ cvmip[l.name] # None
  /\ cvmip[l.name].addr \in {None, a}

\* LifecycleHandler and ProtectionHandler
LeaseHandlers(a, l) ==
  IF IsBound(a, l)
  THEN [l EXCEPT !.uid = cvmip[l.name].uid, !.cond = "Bound", !.obs = TRUE, !.fin = TRUE]
  ELSE [l EXCEPT !.uid = None, !.name = None, !.cond = "Released", !.obs = TRUE,
                 !.fin = ~l.del]

LReconcile(a) ==
  /\ lw = None /\ clease[a] # None
  /\ lw' = [pc |-> "vmip", a |-> a, cur |-> clease[a], chg |-> clease[a], ok |-> a \in freshL]
  /\ UNCHANGED <<vmip, lease, cvmip, clease, freshV, freshL, inUse, cInUse, vw, inc, edits>>

\* RetentionHandler: the lease was found Released before, and not bound now
Expirable(l, chg) == l.cond = "Released" /\ chg.cond = "Released"

\* the handlers up to the deletion; expired: the retention duration is over
LHandle(expired) ==
  /\ lw # None /\ lw.pc = "vmip"
  /\ LET chg == LeaseHandlers(lw.a, lw.cur) IN
     /\ expired => Expirable(lw.cur, chg)
     /\ lw' = [lw EXCEPT !.pc = IF expired THEN "delete" ELSE "status", !.chg = chg]
  /\ UNCHANGED <<vmip, lease, cvmip, clease, freshV, freshL, inUse, cInUse, vw, inc, edits>>

\* RetentionHandler deletes the lease of that name, whatever its version
LDelete ==
  /\ lw # None /\ lw.pc = "delete"
  /\ IF lease[lw.a] # None /\ ~lease[lw.a].del
     THEN /\ PutLease(lw.a, Deleted(lease[lw.a]))
          /\ vw' = VWorkerL(lw.a)
          /\ lw' = [lw EXCEPT !.pc = "status", !.ok = FALSE]
     ELSE lw' = [lw EXCEPT !.pc = "status"] /\ UNCHANGED <<lease, freshL, vw>>
  /\ UNCHANGED <<vmip, cvmip, clease, freshV, inUse, cInUse, inc, edits>>

LStatusChanged == lw.chg.cond # lw.cur.cond \/ ~lw.cur.obs

\* the status update, as that of a vmip
LStatus ==
  /\ lw # None /\ lw.pc = "status"
  /\ IF ~LStatusChanged \/ lease[lw.a] = None
     THEN UNCHANGED <<lease, freshL, vw>>
     ELSE /\ lw.ok
          /\ PutLease(lw.a, [lease[lw.a] EXCEPT !.cond = lw.chg.cond, !.obs = TRUE])
          /\ vw' = VWorkerL(lw.a)
  /\ lw' = [lw EXCEPT !.pc = "patch"]
  /\ UNCHANGED <<vmip, cvmip, clease, freshV, inUse, cInUse, inc, edits>>

LStatusRefused ==
  /\ lw # None /\ lw.pc = "status"
  /\ LStatusChanged /\ lease[lw.a] # None /\ ~lw.ok
  /\ lw' = None
  /\ UNCHANGED <<vmip, lease, cvmip, clease, freshV, freshL, inUse, cInUse, vw, inc, edits>>

LabelsChanged == lw.chg.uid # lw.cur.uid
LFinChanged == lw.chg.fin # lw.cur.fin

\* the lease after the metadata patch
Patched(l) ==
  Finalized([l EXCEPT !.uid = IF LabelsChanged THEN lw.chg.uid ELSE @],
            IF LFinChanged THEN lw.chg.fin ELSE l.fin)

\* the metadata patch: it tests that the labels are those of the copy; the
\* answer brings the current version of the object
LPatch ==
  /\ lw # None /\ lw.pc = "patch"
  /\ IF lease[lw.a] # None /\ (LabelsChanged \/ LFinChanged)
     THEN /\ LabelsChanged => lease[lw.a].uid = lw.cur.uid
          /\ PutLease(lw.a, Patched(lease[lw.a]))
          /\ vw' = VWorkerL(lw.a)
          /\ lw' = [lw EXCEPT !.pc = "spec", !.ok = TRUE]
     ELSE lw' = [lw EXCEPT !.pc = "spec"] /\ UNCHANGED <<lease, freshL, vw>>
  /\ UNCHANGED <<vmip, cvmip, clease, freshV, inUse, cInUse, inc, edits>>

LPatchRefused ==
  /\ lw # None /\ lw.pc = "patch"
  /\ lease[lw.a] # None /\ LabelsChanged /\ lease[lw.a].uid # lw.cur.uid
  /\ lw' = None
  /\ UNCHANGED <<vmip, lease, cvmip, clease, freshV, freshL, inUse, cInUse, vw, inc, edits>>

\* and the reference last, if LifecycleHandler emptied it; a conflict ends the
\* reconcile like success does
LSpec ==
  /\ lw # None /\ lw.pc = "spec"
  /\ IF lw.chg.name # lw.cur.name /\ lease[lw.a] # None /\ lw.ok
     THEN /\ PutLease(lw.a, [lease[lw.a] EXCEPT !.name = lw.chg.name, !.obs = FALSE])
          /\ vw' = VWorkerL(lw.a)
     ELSE UNCHANGED <<lease, freshL, vw>>
  /\ lw' = None
  /\ UNCHANGED <<vmip, cvmip, clease, freshV, inUse, cInUse, inc, edits>>

-----------------------------------------------------------------------------
\* the process stops, or loses the leader election, between any two calls;
\* the next one starts from a full list
Restart ==
  /\ Restarts
  /\ vw' = None /\ lw' = None
  /\ cvmip' = vmip /\ clease' = lease /\ freshV' = Names /\ freshL' = Addrs /\ cInUse' = inUse
  /\ UNCHANGED <<vmip, lease, inUse, inc, edits>>

Users == \/ \E n \in Names, s \in Requests : CreateVMIP(n, s)
         \/ \E n \in Names, s \in Requests : UpdateVMIP(n, s)
         \/ \E n \in Deletable : DeleteVMIP(n)
         \/ \E n \in Shared : UseVMIP(n)
Sync == (\E n \in Names : SyncVMIP(n) \/ SyncVM(n)) \/ (\E a \in Addrs : SyncLease(a))
VController ==
  \/ \E n \in Names : VReconcile(n)
  \/ VBound \/ VTake \/ VTakeRefused \/ VCreate \/ VNoAddress \/ VCreateFails
  \/ VStatus \/ VStatusRefused \/ VPatch
LController ==
  \/ \E a \in Addrs : LReconcile(a)
  \/ (\E expired \in BOOLEAN : LHandle(expired)) \/ LDelete
  \/ LStatus \/ LStatusRefused \/ LPatch \/ LPatchRefused \/ LSpec

Next == Users \/ Sync \/ VController \/ LController \/ Restart

Spec == Init /\ [][Next]_vars

TypeOK ==
  /\ vmip \in [Names -> VMIP \cup {None}] /\ cvmip \in [Names -> VMIP \cup {None}]
  /\ lease \in [Addrs -> Lease \cup {None}] /\ clease \in [Addrs -> Lease \cup {None}]
  /\ freshV \in SUBSET Names /\ freshL \in SUBSET Addrs
  /\ inUse \in SUBSET Names /\ cInUse \in SUBSET Names
  /\ vw \in VWork \cup {None} /\ lw \in LWork \cup {None}
  /\ inc \in [Names -> 0 .. MaxInc] /\ edits \in 0 .. MaxEdits

Bound(n) == vmip[n] # None /\ vmip[n].reason = "Bound"

\* BindStep: "The vmip can be Bound only if the assigned Lease has a fully
\* populated and matching reference", and so it stays while the vmip is Bound
BoundHasLease ==
  \A n \in Names : Bound(n) => /\ lease[vmip[n].addr] # None
                               /\ lease[vmip[n].addr].name = n
                               /\ lease[vmip[n].addr].ns = NamespaceOf[n]

Rent == [a \in Addrs |-> IF lease[a] = None THEN None ELSE lease[a].ns]
Holders(a) == {n \in Names : Bound(n) /\ vmip[n].addr = a}
Holder == [a \in Addrs |-> IF Holders(a) = {} THEN None ELSE CHOOSE n \in Holders(a) : TRUE]

Rental == INSTANCE AddressRental WITH rent <- Rent, holder <- Holder

\* The controllers implement the rental of addresses: a lease never passes to
\* another namespace while it exists, and never goes while a vmip is Bound to it
ImplementsRental == Rental!RentalSpec

\* the vmip n was created once, no other vmip ever was, and no spec was edited
Alone(n) == inc[n] = 1 /\ edits = 0 /\ \A m \in Names \ {n} : inc[m] = 0

\* As long as there has been a single vmip, created once and not edited, no two
\* leases carry its uid label, whatever copies its reconciles start from and
\* wherever they stop: getLeaseByLabel would fail on two leases ever after
UniqueLabel ==
  \A n \in Names : Alone(n) =>
    \A a, b \in Addrs : lease[a] # None /\ lease[b] # None /\ lease[a].uid # None
                        /\ lease[a].uid = lease[b].uid => a = b

\* The address of a Bound vmip does not change as long as the object lives
\* (ValidateUpdate, GetLease and BindStep together)
BoundAddressStable ==
  [][\A n \in Names : Bound(n) /\ vmip'[n] # None /\ vmip'[n].uid = vmip[n].uid
                      => vmip'[n].addr = vmip[n].addr]_vars

\* TakeLeaseStep and LifecycleHandler together: the reference of a lease is
\* emptied before it is given to another vmip, and never leaves its namespace
ReferenceNotOverwritten ==
  [][\A a \in Addrs : lease[a] # None /\ lease'[a] # None =>
        /\ lease'[a].ns = lease[a].ns
        /\ lease[a].name # None => lease'[a].name \in {None, lease[a].name}]_vars

-----------------------------------------------------------------------------
(* Why BoundHasLease holds when names are not reused and specs not edited    *)

\* a copy of the vmip is, or was, in the cache, and it is the only one there
\* will ever be
Known(n) == inc[n] = 1 /\ (vmip[n] # None => cvmip[n] # None)

\* leases and reconciles only mention vmips the controllers have seen
MentionsKnown ==
  /\ \A n \in Names : vmip[n] # None \/ cvmip[n] # None => inc[n] = 1
  /\ \A a \in Addrs : lease[a] # None /\ lease[a].name # None => Known(lease[a].name)
  /\ \A a \in Addrs : clease[a] # None /\ clease[a].name # None => Known(clease[a].name)
  /\ lw # None /\ lw.cur.name # None => Known(lw.cur.name)
  /\ vw # None => Known(vw.n)

\* a lease that has a reference has it in its own namespace, and one that is
\* being deleted has a finalizer
LeaseWellFormed ==
  \A a \in Addrs : lease[a] # None =>
    /\ lease[a].name # None => lease[a].ns = NamespaceOf[lease[a].name]
    /\ lease[a].del => lease[a].fin

\* the copies of the cache and of the workers are what their flags say
WorkersCurrent ==
  /\ \A n \in freshV : cvmip[n] = vmip[n]
  /\ vw # None /\ vw.ok /\ vw.pc # "patch" => vmip[vw.n] = vw.obj
  /\ vw # None /\ vw.pc = "take" /\ vw.lok => Unoccupied(vw.n, lease[vw.a])
  /\ lw # None /\ lw.ok /\ lw.pc \in {"vmip", "delete", "status"}
       => lease[lw.a] = lw.cur /\ clease[lw.a] = lw.cur

\* what the handlers of a lease decide together
LeaseHandled ==
  lw # None /\ lw.pc # "vmip" =>
    /\ lw.chg.cond \in {"Bound", "Released"}
    /\ lw.chg.cond = "Bound" => lw.cur.name # None /\ lw.chg.name = lw.cur.name /\ lw.chg.fin
    /\ lw.chg.name \in {None, lw.cur.name}
    /\ lw.pc = "delete" => lw.chg.cond = "Released"

\* the address of a vmip is assigned once, and a static one is the one asked for
StaticAddress(o) == o.want # AnyIP => o.addr \in {None, o.want}
AddressAssignedOnce ==
  /\ \A n \in Names : vmip[n] # None => StaticAddress(vmip[n])
  /\ \A n \in Names : cvmip[n] # None => StaticAddress(cvmip[n])
  /\ \A n \in Names : vmip[n] # None /\ cvmip[n] # None
                      => cvmip[n].addr \in {None, vmip[n].addr}
  /\ \A n \in Names : vmip[n] # None /\ vmip[n].reason = "Bound" => vmip[n].addr # None
  /\ vw # None => StaticAddress(vw.obj)
  /\ vw # None /\ vw.pc # "lease" =>
       /\ vw.obj.addr # None => vw.addr = vw.obj.addr
       /\ vw.obj.want # AnyIP => vw.addr \in {None, vw.obj.want}
       /\ vw.reason = "Bound" => vw.addr # None

\* somebody takes the vmip n to be bound to the address a
BoundCopy(l, n) == l # None /\ l.name = n /\ l.cond = "Bound" /\ l.obs
Claim(n, a) ==
  \/ BoundCopy(lease[a], n) \/ BoundCopy(clease[a], n)
  \/ vmip[n].reason = "Bound" /\ vmip[n].addr = a
  \/ /\ vw # None /\ vw.n = n /\ vw.ok /\ vw.pc \notin {"lease", "patch"}
     /\ vw.reason = "Bound" /\ vw.addr = a

\* the lease of a refers to n, also in the cache, and no reconcile in flight
\* is about to release it
Safe(n, a) ==
  /\ lease[a] # None /\ lease[a].name = n
  /\ clease[a] # None /\ clease[a].name = n
  /\ lw # None /\ lw.a = a =>
       /\ lw.cur.name = n
       /\ lw.pc # "vmip" => lw.pc # "delete" /\ lw.chg.name = n /\ lw.chg.fin

ClaimsAreSafe ==
  \A n \in Names, a \in Addrs :
    vmip[n] # None /\ vmip[n].addr \in {None, a} /\ Claim(n, a) => Safe(n, a)

Inv == MentionsKnown /\ LeaseWellFormed /\ WorkersCurrent /\ LeaseHandled
       /\ AddressAssignedOnce /\ ClaimsAreSafe
=============================================================================
