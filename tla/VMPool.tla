------------------------------- MODULE VMPool -------------------------------
(***************************************************************************)
(* The replicas of one VirtualMachinePool: the sync handler that creates    *)
(* and deletes them, the expectations that hold it back while the informer  *)
(* cache lags behind what it did, the watcher that fulfils expectations,    *)
(* and the requests that change the pool: the scale subresource with its    *)
(* webhook, scaleDownWith, and the deletion of replicas by users.           *)
(*                                                                          *)
(* Reconciles of a pool are serial.  Each reads the pool and lists the      *)
(* replicas, then asks the expectations, then acts call by call, and        *)
(* everything else interleaves.  Caches apply events in their order; the    *)
(* handler of the watcher hears of an event after the cache has it.         *)
(***************************************************************************)
EXTENDS Integers, FiniteSets, Sequences

CONSTANTS
    VMs,         \* replicas that can be created, numbered by age
    MaxReplicas, \* the pool is scaled up to this
    Policies,    \* values of spec.scaleDownPolicy
    Requests,    \* requests to the scaleDownWith subresource
    MaxEdits,    \* how often users scale the pool, delete a replica or send a request
    SameSecond,  \* creationTimestamp does not tell replicas apart
    SlowWatch,   \* the watch may take longer than the TTL of expectations
    Faults,      \* the kinds of failures that happen, among FaultKinds
    MaxFaults,   \* how many of them
    None

\* a call to create or to delete a replica fails, the controller restarts, the
\* watch breaks and the cache lists anew, scaleDownWith stops half way
FaultKinds == {"create", "delete", "restart", "relist", "request"}

ASSUME VMPoolAssumption ==
    /\ VMs \subseteq Nat /\ IsFiniteSet(VMs)
    /\ {MaxReplicas, MaxEdits, MaxFaults} \subseteq Nat
    /\ Policies \subseteq {"NewestFirst", "OldestFirst", "Explicit"}
    /\ {SameSecond, SlowWatch} \subseteq BOOLEAN
    /\ Faults \subseteq FaultKinds

VARIABLES
    policy,     \* spec.scaleDownPolicy
    pool,       \* spec.replicas and the status of the pool
    cpool,      \* the same in the cache
    pevents,    \* the versions of the pool the cache has yet to see
    vm,         \* the replicas: not created yet, live, terminating, gone
    cvm,        \* the same in the cache
    events,     \* the changes of replicas the cache has yet to see
    told,       \* replicas whose creation the watcher's handler has seen
    buried,     \* replicas whose deletion it has seen
    creations,  \* the expectations: a counter of creations,
    deletions,  \* the replicas expected to go,
    expired,    \* and whether they have outlived the TTL
    queued,     \* the pool is in the work queue
    w,          \* the reconcile in flight
    req,        \* the requests to scaleDownWith
    mine,       \* replicas the controller has deleted
    edits, faults

objects == <<policy, pool, vm>>
caches == <<cpool, pevents, cvm, events>>
exp == <<creations, deletions, expired>>
watcher == <<told, buried>>
bounds == <<edits, faults>>
vars == <<objects, caches, exp, watcher, queued, w, req, mine, bounds>>

Changes == {"live", "terminating", "gone"}
States == Changes \cup {"none"}
Exists(x) == x \in {"live", "terminating"}

Statuses == [n : Nat, of : Nat]
Pools == [replicas : Nat, status : Statuses \cup {None}]

\* what a reconcile has read: desired replicas and status, whether its copy of the
\* pool is still the newest, the listed replicas and those among them that terminate;
\* what it has yet to do; whether it will be repeated
Work == [pc : {"check", "create", "delete", "status"}, desired : Nat, old : Statuses \cup {None}, current : BOOLEAN,
         members : SUBSET VMs, terminating : SUBSET VMs, n : Nat, victims : SUBSET VMs, again : BOOLEAN]

May(kind) == IF kind \in Faults /\ faults < MaxFaults THEN BOOLEAN ELSE {FALSE}
Cost(failed) == IF failed THEN 1 ELSE 0
-----------------------------------------------------------------------------
(* The API server: a changed object is an event for the cache.              *)

PutPool(p) ==
    /\ pool' = p
    /\ pevents' = IF p = pool THEN pevents ELSE Append(pevents, p)

PutVM(v, x) ==
    /\ vm' = [vm EXCEPT ![v] = x]
    /\ events' = Append(events, <<v, x>>)

\* a delete only marks: finalizers keep the replica until it is shut down
MarkVM(v) == IF vm[v] = "live" THEN PutVM(v, "terminating") ELSE UNCHANGED <<vm, events>>

Outdated == IF w # None /\ pool' # pool THEN [w EXCEPT !.current = FALSE] ELSE w
-----------------------------------------------------------------------------
(* Expectations.                                                            *)

ExpectCreations(n) ==
    /\ creations' = creations + n
    /\ expired' = IF n = 0 THEN expired ELSE FALSE
    /\ UNCHANGED deletions

ExpectDeletions(uids) ==
    /\ deletions' = deletions \cup uids
    /\ expired' = IF uids = {} THEN expired ELSE FALSE
    /\ UNCHANGED creations

\* surplus observations are ignored
CreationObserved == creations' = IF creations > 0 THEN creations - 1 ELSE 0

\* mutant: whatever goes settles the deletions
DeletionObservedAny(v) == deletions' = {}

DeletionObserved(v) == deletions' = deletions \ {v}

\* mutant: no limit of time
SatisfiedStrictly == creations = 0 /\ deletions = {}

Satisfied == (creations = 0 /\ deletions = {}) \/ expired
-----------------------------------------------------------------------------
(* The reconcile.                                                           *)

\* the pool and the list of its members come from the caches; a pool read a little
\* earlier than the list is as good as a cache that lags
Start ==
    /\ w = None /\ queued
    /\ queued' = FALSE
    /\ w' = [pc |-> "check", desired |-> cpool.replicas, old |-> cpool.status, current |-> pevents = <<>>,
             members |-> {v \in VMs : Exists(cvm[v])}, terminating |-> {v \in VMs : cvm[v] = "terminating"},
             n |-> 0, victims |-> {}, again |-> FALSE]
    /\ UNCHANGED <<objects, caches, exp, watcher, req, mine, bounds>>

\* v goes before u on a scale-down
Before(v, u) ==
    /\ ~SameSecond
    /\ IF policy = "OldestFirst" THEN v < u ELSE v > u

\* the first n candidates; equal times leave their order open
PickVictims(candidates, n) ==
    IF n <= 0 \/ policy = "Explicit" THEN {{}}
    ELSE {S \in SUBSET candidates :
            /\ Cardinality(S) = IF n > Cardinality(candidates) THEN Cardinality(candidates) ELSE n
            /\ \A u \in S, v \in candidates \ S : ~Before(v, u)}

\* mutant: one less is created than expected
ScaleUpOneLess(n) ==
    /\ ExpectCreations(n)
    /\ w' = [w EXCEPT !.pc = "create", !.n = n - 1]

\* as many as are missing, expected before the first is created
ScaleUp(n) ==
    /\ ExpectCreations(n)
    /\ w' = [w EXCEPT !.pc = "create", !.n = n]

\* mutant: what terminates already is not counted as removed
ScaleDownByAll(surplus) ==
    \E victims \in PickVictims(w.members \ w.terminating, surplus) :
        /\ ExpectDeletions(victims)
        /\ w' = [w EXCEPT !.pc = IF victims = {} THEN "status" ELSE "delete", !.victims = victims]

\* what terminates already counts as removed
ScaleDown(surplus) ==
    \E victims \in PickVictims(w.members \ w.terminating, surplus - Cardinality(w.terminating)) :
        /\ ExpectDeletions(victims)
        /\ w' = [w EXCEPT !.pc = IF victims = {} THEN "status" ELSE "delete", !.victims = victims]

\* the expectations are asked after the list was read
Check ==
    /\ w # None /\ w.pc = "check"
    /\ LET live == Cardinality(w.members)
       IN IF ~Satisfied
          THEN w' = [w EXCEPT !.pc = "status", !.again = TRUE] /\ UNCHANGED exp
          ELSE IF live < w.desired THEN ScaleUp(w.desired - live)
          ELSE IF live > w.desired THEN ScaleDown(live - w.desired)
          ELSE w' = [w EXCEPT !.pc = "status"] /\ UNCHANGED exp
    /\ UNCHANGED <<objects, caches, watcher, queued, req, mine, bounds>>

\* one of the calls; a failed one is not waited for and repeats the reconcile
Create ==
    /\ w # None /\ w.pc = "create"
    /\ \E failed \in May("create") :
        /\ IF failed
           THEN CreationObserved /\ UNCHANGED <<vm, events>>
           ELSE /\ UNCHANGED creations
                /\ \E v \in VMs : /\ vm[v] = "none"
                                  /\ \A u \in VMs : vm[u] = "none" => v <= u
                                  /\ PutVM(v, "live")
        /\ w' = [w EXCEPT !.n = @ - 1, !.pc = IF w.n = 1 THEN "status" ELSE @,
                          !.again = @ \/ failed]
        /\ faults' = faults + Cost(failed)
    /\ UNCHANGED <<policy, pool, cpool, pevents, cvm, deletions, expired, watcher, queued, req, mine, edits>>

\* one of the calls; a replica that is gone is not waited for either
Delete ==
    /\ w # None /\ w.pc = "delete"
    /\ \E v \in w.victims, failed \in May("delete") :
        /\ IF failed \/ vm[v] = "gone"
           THEN DeletionObserved(v) /\ UNCHANGED <<vm, events, mine>>
           ELSE MarkVM(v) /\ mine' = mine \cup {v} /\ UNCHANGED deletions
        /\ w' = [w EXCEPT !.victims = @ \ {v}, !.pc = IF w.victims = {v} THEN "status" ELSE @,
                          !.again = @ \/ failed]
        /\ faults' = faults + Cost(failed)
    /\ UNCHANGED <<policy, pool, cpool, pevents, cvm, creations, expired, watcher, queued, req, edits>>

\* the status reports the listed replicas and is written if it differs from the one
\* read; a refused write repeats the reconcile
UpdateStatus ==
    /\ w # None /\ w.pc = "status"
    /\ LET status == [n |-> Cardinality(w.members), of |-> w.desired]
           changed == status # w.old
       IN /\ PutPool(IF changed /\ w.current THEN [pool EXCEPT !.status = status] ELSE pool)
          /\ queued' = (queued \/ w.again \/ (changed /\ ~w.current))
    /\ w' = None
    /\ UNCHANGED <<policy, vm, cpool, cvm, events, exp, watcher, req, mine, bounds>>
-----------------------------------------------------------------------------
(* The caches and the watcher.                                              *)

SyncPool ==
    /\ pevents # <<>>
    /\ cpool' = Head(pevents) /\ pevents' = Tail(pevents)
    /\ queued' = TRUE
    /\ UNCHANGED <<objects, cvm, events, exp, watcher, w, req, mine, bounds>>

SyncVM ==
    /\ events # <<>>
    /\ cvm' = [cvm EXCEPT ![Head(events)[1]] = Head(events)[2]]
    /\ events' = Tail(events)
    /\ queued' = (queued \/ Head(events)[2] = "terminating")
    /\ UNCHANGED <<objects, cpool, pevents, exp, watcher, w, req, mine, bounds>>

\* the handler of the watcher: a replica was created
CreateEvent(v) ==
    /\ cvm[v] # "none" /\ v \notin told
    /\ told' = told \cup {v}
    /\ CreationObserved
    /\ queued' = TRUE
    /\ UNCHANGED <<objects, caches, deletions, expired, buried, w, req, mine, bounds>>

\* the handler of the watcher: a replica has gone
DeleteEvent(v) ==
    /\ cvm[v] = "gone" /\ v \in told \ buried
    /\ buried' = buried \cup {v}
    /\ DeletionObserved(v)
    /\ queued' = TRUE
    /\ UNCHANGED <<objects, caches, creations, expired, told, w, req, mine, bounds>>

\* the status of a replica changes, which the pool need not care for
OtherEvent ==
    /\ \E v \in VMs : Exists(cvm[v])
    /\ queued' = TRUE
    /\ UNCHANGED <<objects, caches, exp, watcher, w, req, mine, bounds>>

Delivered ==
    /\ events = <<>>
    /\ \A v \in VMs : (cvm[v] # "none" => v \in told) /\ (cvm[v] = "gone" => v \in buried)

\* five minutes have passed since the last expectation: a replica may still be
\* shutting down, but what has happened is known, unless the watch is slow
Expire ==
    /\ ~expired /\ ~(creations = 0 /\ deletions = {})
    /\ ~SlowWatch => w = None /\ Delivered
    /\ expired' = TRUE
    /\ UNCHANGED <<objects, caches, creations, deletions, watcher, queued, w, req, mine, bounds>>

\* the watch broke: replicas that came and went meanwhile are never heard of; the
\* others are reported as updated
Relist ==
    /\ TRUE \in May("relist") /\ events # <<>>
    /\ cvm' = vm /\ events' = <<>>
    /\ LET missed == {v \in VMs : cvm[v] = "none" /\ vm[v] = "gone"}
       IN told' = told \cup missed /\ buried' = buried \cup missed
    /\ queued' = (queued \/ \E v \in VMs : Exists(vm[v]))
    /\ faults' = faults + 1
    /\ UNCHANGED <<objects, cpool, pevents, exp, w, req, mine, edits>>

\* expectations are kept in memory; the caches of the new process are filled first
Restart ==
    /\ TRUE \in May("restart")
    /\ cpool' = pool /\ pevents' = <<>> /\ cvm' = vm /\ events' = <<>>
    /\ creations' = 0 /\ deletions' = {} /\ expired' = FALSE
    /\ told' = {v \in VMs : vm[v] # "none"} /\ buried' = {v \in VMs : vm[v] = "gone"}
    /\ queued' = TRUE /\ w' = None
    /\ faults' = faults + 1
    /\ UNCHANGED <<objects, req, mine, edits>>
-----------------------------------------------------------------------------
(* Users and replicas.                                                      *)

\* the webhook of the scale subresource
ValidateScaleUpdate(n) == n < pool.replicas => policy # "Explicit"

Scale ==
    /\ edits < MaxEdits
    /\ \E n \in 0..MaxReplicas : /\ n # pool.replicas /\ ValidateScaleUpdate(n)
                               /\ PutPool([pool EXCEPT !.replicas = n])
    /\ w' = Outdated
    /\ edits' = edits + 1
    /\ UNCHANGED <<policy, vm, cpool, cvm, events, exp, watcher, queued, req, mine, faults>>

DeleteVM ==
    /\ edits < MaxEdits
    /\ \E v \in VMs : vm[v] = "live" /\ PutVM(v, "terminating")
    /\ edits' = edits + 1
    /\ UNCHANGED <<policy, pool, cpool, pevents, cvm, exp, watcher, queued, w, req, mine, faults>>

\* the replica is shut down and its finalizers are removed
VMGone(v) ==
    /\ vm[v] = "terminating" /\ PutVM(v, "gone")
    /\ UNCHANGED <<policy, pool, cpool, pevents, cvm, exp, watcher, queued, w, req, mine, bounds>>

\* scaleDownWith: the targets are members (also ones that terminate) ...
Validate(r) ==
    /\ req[r] = None /\ edits < MaxEdits
    /\ \E v \in VMs : Exists(vm[v]) /\ req' = [req EXCEPT ![r] = [pc |-> "delete", target |-> v]]
    /\ edits' = edits + 1
    /\ UNCHANGED <<objects, caches, exp, watcher, queued, w, mine, faults>>

\* ... they are deleted, unless somebody else did, ...
DeleteTarget(r) ==
    /\ req[r] # None /\ req[r].pc = "delete"
    /\ \E failed \in May("request") :
        /\ IF failed THEN UNCHANGED <<vm, events>> ELSE MarkVM(req[r].target)
        /\ req' = [req EXCEPT ![r].pc = IF failed THEN "done" ELSE "shrink"]
        /\ faults' = faults + Cost(failed)
    /\ UNCHANGED <<policy, pool, cpool, pevents, cvm, exp, watcher, queued, w, mine, edits>>

\* ... and the pool is shrunk by their number
Shrink(r) ==
    /\ req[r] # None /\ req[r].pc = "shrink"
    /\ \E failed \in May("request") :
        /\ PutPool(IF failed \/ pool.replicas = 0 THEN pool ELSE [pool EXCEPT !.replicas = @ - 1])
        /\ faults' = faults + Cost(failed)
    /\ req' = [req EXCEPT ![r].pc = "done"]
    /\ w' = Outdated
    /\ UNCHANGED <<policy, vm, cpool, cvm, events, exp, watcher, queued, mine, edits>>
-----------------------------------------------------------------------------
Init ==
    /\ policy \in Policies
    /\ pool \in [replicas : 1..MaxReplicas, status : {None}]
    /\ cpool = pool /\ pevents = <<>>
    /\ vm = [v \in VMs |-> "none"] /\ cvm = vm /\ events = <<>>
    /\ told = {} /\ buried = {}
    /\ creations = 0 /\ deletions = {} /\ expired = FALSE
    /\ queued = TRUE /\ w = None
    /\ req = [r \in Requests |-> None]
    /\ mine = {} /\ edits = 0 /\ faults = 0

Reconcile == Start \/ Check \/ Create \/ Delete \/ UpdateStatus
Informer == SyncPool \/ SyncVM \/ \E v \in VMs : CreateEvent(v) \/ DeleteEvent(v)
ScaleDownWith(r) == DeleteTarget(r) \/ Shrink(r)

Next ==
    \/ Reconcile \/ Informer \/ OtherEvent \/ Expire \/ Relist \/ Restart
    \/ Scale \/ DeleteVM \/ \E v \in VMs : VMGone(v)
    \/ \E r \in Requests : Validate(r) \/ ScaleDownWith(r)

Spec == Init /\ [][Next]_vars

\* the worker, the caches and the watcher go on, expectations age, replicas that
\* were told to shut down do, and a request is served; users need not do anything
Fairness ==
    /\ WF_vars(Reconcile) /\ WF_vars(SyncPool) /\ WF_vars(SyncVM) /\ SF_vars(Expire)
    /\ \A v \in VMs : WF_vars(CreateEvent(v)) /\ WF_vars(DeleteEvent(v)) /\ WF_vars(VMGone(v))
    /\ \A r \in Requests : WF_vars(ScaleDownWith(r))

FairSpec == Spec /\ Fairness
-----------------------------------------------------------------------------
\* Type correctness of the objects, the caches, the expectations and the reconcile.
TypeOK ==
    /\ policy \in Policies /\ pool \in Pools /\ cpool \in Pools /\ pevents \in Seq(Pools)
    /\ vm \in [VMs -> States] /\ cvm \in [VMs -> States] /\ events \in Seq(VMs \X Changes)
    /\ told \subseteq VMs /\ buried \subseteq VMs /\ mine \subseteq VMs
    /\ creations \in Nat /\ deletions \subseteq VMs /\ {expired, queued} \subseteq BOOLEAN
    /\ w \in Work \cup {None}
    /\ req \in [Requests -> [pc : {"delete", "shrink", "done"}, target : VMs] \cup {None}]
    /\ edits \in Nat /\ faults \in Nat

\* What the expectations promise: when none is outstanding (the time limit apart) the
\* cache shows every replica that was created, and none that the controller has
\* deleted still looks alive in it.
SatisfiedIsSeen ==
    creations = 0 /\ deletions = {} =>
        \A v \in VMs : /\ vm[v] # "none" => cvm[v] # "none"
                       /\ v \in mine => cvm[v] # "live"

Existing == {v \in VMs : Exists(vm[v])}

\* "Do not create/delete again until previous actions are observed (or expire): this is
\* what stops a lagging cache from over-creating anonymous replicas": no replica is
\* created when there are as many as the reconcile means to have.
NoOverCreation ==
    [][\A v \in VMs : vm[v] = "none" /\ vm'[v] = "live" => Cardinality(Existing) < w.desired]_vars

\* the list the reconcile has read is what the cache shows
ListIsCurrent ==
    /\ w.members = {v \in VMs : Exists(cvm[v])}
    /\ w.terminating = {v \in VMs : cvm[v] = "terminating"}

\* A scale-down that is decided on a list the cache still confirms leaves as many
\* replicas as the reconcile means to have, and none of those is one the controller has
\* deleted before: a lagging cache does not make it count its victims as replicas.
NeverOverDeletes ==
    [][w # None /\ w' # None /\ w.pc = "check" /\ w'.pc = "delete" /\ ListIsCurrent =>
          Cardinality(w.members \ (w.terminating \cup w'.victims \cup mine)) >= w.desired]_vars

\* The pool gets to the number of replicas asked for, whatever events were lost and
\* calls failed, unless only addressed removal is allowed; and its status says so.
Converges ==
    <>[](/\ policy # "Explicit" => Cardinality(Existing) = pool.replicas
         /\ pool.status = [n |-> Cardinality(Existing), of |-> pool.replicas])
-----------------------------------------------------------------------------
(* Why SatisfiedIsSeen holds when the watch is not slow.                    *)

Untold == {v \in VMs : vm[v] # "none" /\ v \notin told}
Left == IF w # None /\ w.pc = "create" THEN w.n ELSE 0

\* every creation the watcher has not seen, or the reconcile has yet to make, is counted
Counted ==
    /\ creations >= Cardinality(Untold) + Left
    /\ w # None /\ w.pc = "create" => w.n > 0

Rank(x) == IF x = "none" THEN 0 ELSE IF x = "live" THEN 1 ELSE IF x = "terminating" THEN 2 ELSE 3

\* the cache moves forward through what happened to a replica, up to its present state
Ordered ==
    /\ \A i \in 1..Len(events) : /\ Rank(cvm[events[i][1]]) < Rank(events[i][2])
                                 /\ Rank(events[i][2]) <= Rank(vm[events[i][1]])
    /\ \A i, j \in 1..Len(events) :
          i < j /\ events[i][1] = events[j][1] => Rank(events[i][2]) < Rank(events[j][2])
    /\ \A v \in VMs : vm[v] # cvm[v] => \E i \in 1..Len(events) : events[i] = <<v, vm[v]>>

\* the watcher and the reconcile only know of replicas that are in the cache
Known ==
    /\ \A v \in told : cvm[v] # "none"
    /\ w # None => \A v \in w.members : cvm[v] # "none"
    /\ w # None => w.victims \subseteq w.members

Unseen(v) == cvm[v] \in {"none", "live"}

\* a deletion is expected until the cache shows it, and from before it is requested
Removed ==
    /\ \A v \in mine : vm[v] \in {"terminating", "gone"}
    /\ \A v \in mine : Unseen(v) => v \in deletions
    /\ w # None /\ w.pc = "delete" =>
          /\ ~expired
          /\ \A v \in w.victims : /\ v \in deletions \/ cvm[v] = "gone"
                                  /\ v \in mine => ~Unseen(v)
    /\ expired => \A v \in mine : ~Unseen(v)

IInv == TypeOK /\ Counted /\ Ordered /\ Known /\ Removed
=============================================================================
