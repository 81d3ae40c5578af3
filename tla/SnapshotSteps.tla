---------------------------- MODULE SnapshotSteps ---------------------------
(***************************************************************************)
(* What the steps of Snapshot do: what a reconcile decides, what it asks   *)
(* of the instance, and what it leaves of the object it saves.  From this, *)
(* type correctness and required consistency, for any number of disk       *)
(* snapshots and VM snapshots, with any of them deleted, any calls and     *)
(* writes failing, and the caches lagging as far as they may.              *)
(***************************************************************************)
EXTENDS Snapshot, TLAPS

\* the reported status is that of the guest, or a request says what became of it
Honest ==
  /\ kv # None => kv.fs = guest \/ kv.req = (IF guest THEN "freeze" ELSE "unfreeze")
  /\ kv = None => ~guest
  /\ ~Agent => ~guest /\ (kv # None => ~kv.fs)

\* a snapshot that has begun and is not Ready
Involved(x) == x # None /\ x.phase \in {"InProgress", "Failed", "Terminating"}

-----------------------------------------------------------------------------
\* The records.

Calls == {"none", "freeze", "unfreeze", "create"}

Outcomes == [phase : Phases, cons : BOOLEAN, call : Calls, synced : BOOLEAN]

\* The fields of a snapshot object.
LEMMA ObjectFields ==
    ASSUME NEW x \in Object
    PROVE  x # None /\ x.phase \in Phases /\ {x.cons, x.del, x.fin} \subseteq BOOLEAN
BY NoneAssumption DEF Object

\* An instance but for the bound on how often it is written.
Written == [uid : 0..MaxPower, req : Requests, fs : BOOLEAN, ver : Nat]

\* Every instance is one of these, and none of them is missing.
LEMMA InstanceWritten == Instance \subseteq Written /\ None \notin Written
BY NoneAssumption, SnapshotAssumption DEF Instance, Written

\* The fields of an instance.
LEMMA InstanceFields ==
    ASSUME NEW k \in Instance
    PROVE  /\ k # None /\ k.uid \in 0 .. MaxPower /\ k.req \in Requests
           /\ k.fs \in BOOLEAN /\ k.ver \in 0 .. MaxVer
BY InstanceWritten DEF Instance

\* SyncFSFreezeRequest changes nothing but the request.
LEMMA SyncedFields ==
    ASSUME NEW k \in Instance
    PROVE  /\ Synced(k) \in Written /\ Synced(k).fs = k.fs
           /\ Followed(k) => Synced(k).req = "none"
           /\ ~Followed(k) => Synced(k) = k
<1>1. k \in Written /\ k.ver + 1 \in Nat
  BY InstanceWritten DEF Written
<1>2. CASE Followed(k)
  <2>1. Synced(k) = [k EXCEPT !.req = "none", !.ver = k.ver + 1]
    BY <1>2 DEF Synced
  <2> QED BY <1>1, <1>2, <2>1, Zenon DEF Written, Requests
<1>3. CASE ~Followed(k)
  BY <1>1, <1>3 DEF Synced
<1> QED BY <1>2, <1>3

\* Freeze and Unfreeze set the request.
LEMMA AnnotatedFields ==
    ASSUME NEW k \in Written, NEW call \in {"freeze", "unfreeze"}
    PROVE  LET a == Annotated(k, call) IN a \in Written /\ a.fs = k.fs /\ a.req = call
<1>1. Annotated(k, call) = [k EXCEPT !.req = call, !.ver = k.ver + 1] /\ k.ver + 1 \in Nat
  BY DEF Annotated, Written
<1> QED BY <1>1, Zenon DEF Written, Requests

\* A written instance within the bound is one.
LEMMA WithinBound ==
    ASSUME NEW k \in Written, k.ver <= MaxVer
    PROVE  k \in Instance
BY SnapshotAssumption DEF Written, Instance

\* Nothing is synchronised where there is no instance.
LEMMA NoneSynced == Synced(None) = None /\ Trusted(None) /\ ~Followed(None) /\ ~Frozen(None)
BY DEF Synced, Followed, Trusted, Frozen

-----------------------------------------------------------------------------
\* What a reconcile asks of the instance.

\* the copy of the instance a reconcile decides on
Seen(o) == IF o.synced THEN Synced(ck) ELSE ck

Asks(s, o) ==
  /\ o.synced => Followed(ck) /\ ck = kv
  /\ o.call = "freeze" => Trusted(Seen(o)) /\ CanFreeze(Seen(o))
  /\ o.call = "unfreeze" =>
       Trusted(Seen(o)) /\ Frozen(Seen(o)) /\ \A x \in Snaps \ {s} : ~InProgress(x)

\* What is seen is there if the copy is, and reports the same status.
LEMMA SeenFields ==
    ASSUME TypeOK, NEW o \in Outcomes
    PROVE  /\ ck = None => Seen(o) = None
           /\ ck # None => Seen(o) \in Written /\ Seen(o).fs = ck.fs /\ Seen(o) # None
<1>1. ck \in Instance \cup {None}
  BY DEF TypeOK
<1>2. CASE ck = None
  BY <1>2, NoneSynced DEF Seen
<1>3. CASE ck \in Instance
  <2>1. ck \in Written /\ Synced(ck) \in Written /\ Synced(ck).fs = ck.fs
    BY <1>3, InstanceWritten, SyncedFields
  <2> QED BY <2>1, InstanceWritten DEF Seen
<1> QED BY <1>1, <1>2, <1>3

\* A status that is trusted, in a copy that is the latest, is that of the guest.
LEMMA TrustedStatus ==
    ASSUME TypeOK, Honest, NEW o \in Outcomes, o.synced => Followed(ck), ck = kv, ck # None,
           Trusted(Seen(o))
    PROVE  ck.fs = guest
<1>1. ck \in Instance /\ guest \in BOOLEAN /\ ck.fs \in BOOLEAN /\ ck.req \in Requests
  BY InstanceFields DEF TypeOK
<1>2. CASE o.synced
  BY <1>1, <1>2 DEF Honest, Followed, Trusted, Requests
<1>3. CASE ~o.synced
  <2>1. ck.req = "none"
    BY <1>3 DEF Seen, Trusted
  <2> QED BY <1>1, <2>1 DEF Honest
<1> QED BY <1>2, <1>3

\* What a reconcile does to the instance and to the guest.
LEMMA Called ==
    ASSUME TypeOK, NEW s \in Snaps, NEW o \in Outcomes, Asks(s, o),
           NEW result \in CallResults(o.call), CallInstance(o, result)
    PROVE  /\ kv' \in Instance \cup {None} /\ guest' \in BOOLEAN
           /\ kv' = None <=> kv = None
           /\ kv # None => kv'.fs = kv.fs
           /\ guest' # guest => o.call = (IF guest' THEN "freeze" ELSE "unfreeze") /\ ck = kv /\ kv # None
           /\ o.call = "unfreeze" /\ result = "done" => ~guest'
           /\ Honest => Honest'
<1> DEFINE k == IF o.synced THEN Synced(kv) ELSE kv
           sent == o.call \in {"freeze", "unfreeze"} /\ result # "refused"
<1>1. /\ kv' = IF sent THEN Annotated(k, o.call) ELSE k
      /\ kv' # None => kv'.ver <= MaxVer
      /\ guest' = IF sent /\ result = "done" THEN o.call = "freeze" ELSE guest
  BY DEF CallInstance
<1>2. sent => ck = kv /\ k = Seen(o)
  BY DEF CallResults, Seen
<1>3. kv \in Instance \cup {None} /\ ck \in Instance \cup {None} /\ guest \in BOOLEAN
  BY DEF TypeOK
<1>4. /\ kv = None => k = None
      /\ kv # None => /\ k \in Written /\ k.fs = kv.fs
                      /\ o.synced /\ Followed(kv) => k.req = "none"
                      /\ ~(o.synced /\ Followed(kv)) => k = kv
  <2>1. CASE kv = None
    BY <2>1, NoneSynced
  <2>2. CASE kv \in Instance
    BY <2>2, SyncedFields, InstanceWritten
  <2> QED BY <1>3, <2>1, <2>2
<1>5. sent => kv # None
  <2>1. sent => Seen(o) # None
    BY DEF Asks, CanFreeze, Frozen
  <2> QED BY <1>2, <1>4, <2>1
<1> HIDE DEF k
<1>6. CASE sent
  <2>1. kv # None /\ ck = kv /\ k = Seen(o) /\ k \in Written /\ k.fs = kv.fs
    BY <1>2, <1>4, <1>5, <1>6
  <2>2. kv' = Annotated(k, o.call) /\ o.call \in {"freeze", "unfreeze"}
    BY <1>1, <1>6
  <2>3. kv' \in Written /\ kv'.fs = kv.fs /\ kv'.req = o.call
    BY <2>1, <2>2, AnnotatedFields
  <2>4. kv' # None /\ kv' \in Instance
    BY <1>1, <2>3, InstanceWritten, WithinBound
  <2>5. guest' = IF result = "done" THEN o.call = "freeze" ELSE guest
    BY <1>1, <1>6
  <2>6. guest' \in BOOLEAN /\ (guest' # guest => o.call = IF guest' THEN "freeze" ELSE "unfreeze")
    BY <1>3, <2>2, <2>5, Zenon
  <2>7. ASSUME Honest
        PROVE  Honest'
    <3>1. o.synced => Followed(ck)
      BY DEF Asks
    <3>2. Trusted(Seen(o))
      BY <2>2 DEF Asks
    <3>3. kv.fs = guest
      BY <2>1, <2>7, <3>1, <3>2, TrustedStatus
    <3>4. kv'.fs = guest' \/ kv'.req = IF guest' THEN "freeze" ELSE "unfreeze"
      BY <1>3, <2>2, <2>3, <2>5, <3>3, Zenon
    <3>5. ~Agent => o.call # "freeze"
      BY DEF Asks, CanFreeze
    <3>6. ~Agent => ~guest' /\ ~kv'.fs
      BY <2>1, <2>3, <2>5, <2>7, <3>5, Zenon DEF Honest
    <3> QED BY <2>4, <3>4, <3>6 DEF Honest
  <2> QED BY <2>1, <2>2, <2>3, <2>4, <2>5, <2>6, <2>7
<1>7. CASE ~sent
  <2>1. kv' = k /\ guest' = guest
    BY <1>1, <1>7
  <2>2. kv' = None <=> kv = None
    BY <1>4, <2>1, InstanceWritten
  <2>3. kv' \in Instance \cup {None} /\ (kv # None => kv'.fs = kv.fs)
    BY <1>1, <1>4, <2>1, <2>2, WithinBound
  <2>4. ASSUME Honest, kv # None
        PROVE  kv'.fs = guest' \/ kv'.req = IF guest' THEN "freeze" ELSE "unfreeze"
    <3>1. CASE o.synced /\ Followed(kv)
      BY <1>3, <2>1, <2>3, <2>4, <3>1, InstanceFields DEF Followed, Trusted, Honest, Requests
    <3>2. CASE ~(o.synced /\ Followed(kv))
      BY <1>4, <2>1, <2>4, <3>2 DEF Honest
    <3> QED BY <3>1, <3>2
  <2>5. Honest => Honest'
    BY <2>1, <2>2, <2>3, <2>4 DEF Honest
  <2>6. ~(o.call = "unfreeze" /\ result = "done")
    BY <1>7
  <2> QED BY <1>3, <2>1, <2>2, <2>3, <2>5, <2>6
<1> QED BY <1>6, <1>7

-----------------------------------------------------------------------------
\* What Resource.Update leaves of the object: what was there, nothing, what was
\* there with another finalizer, or the status where the copy is the latest.
Saved(x, s, c, phase, cons, fin) ==
  \/ x = snap[s]
  \/ x = None /\ snap[s] # None /\ c.del /\ c.fin /\ ~fin
  \/ /\ snap[s] # None /\ x \in Object /\ x.phase = snap[s].phase /\ x.cons = snap[s].cons
     /\ x.del = snap[s].del /\ (x.fin = snap[s].fin \/ x.fin = fin)
     /\ ~(c.del /\ c.fin /\ ~fin)
  \/ /\ c = snap[s] /\ x \in Object /\ x.phase = phase /\ x.cons = cons
     /\ x.del = c.del /\ x.fin = fin /\ ~(c.del /\ c.fin /\ ~fin)

\* Resource.Update does one of these.
LEMMA SaveResult ==
    ASSUME TypeOK, NEW s \in Snaps, NEW c \in Object, NEW phase \in Phases, NEW cons \in BOOLEAN,
           NEW fin \in BOOLEAN, NEW lost \in BOOLEAN
    PROVE  /\ Saved(Save(s, c, phase, cons, fin, lost), s, c, phase, cons, fin)
           /\ Save(s, c, phase, cons, fin, lost) \in Object \cup {None}
<1> DEFINE x == Save(s, c, phase, cons, fin, lost)
           same == phase = c.phase /\ cons = c.cons
<1>1. snap[s] \in Object \cup {None}
  BY DEF TypeOK
<1>2. CASE snap[s] = None \/ lost \/ (c # snap[s] /\ ~same)
  <2>1. x = snap[s]
    BY <1>2 DEF Save
  <2> QED BY <1>1, <2>1 DEF Saved
<1>3. CASE ~(snap[s] = None \/ lost \/ (c # snap[s] /\ ~same))
  <2>1. snap[s] \in Object
    BY <1>1, <1>3
  <2>2. CASE c.del /\ c.fin /\ ~fin
    <3>1. x = None
      BY <1>3, <2>2 DEF Save
    <3> QED BY <1>3, <2>2, <3>1, Zenon DEF Saved
  <2>3. CASE ~(c.del /\ c.fin /\ ~fin) /\ same
    <3>1. x = [snap[s] EXCEPT !.fin = IF fin # c.fin THEN fin ELSE snap[s].fin]
      BY <1>3, <2>3 DEF Save
    <3>2. /\ x \in Object /\ x.phase = snap[s].phase /\ x.cons = snap[s].cons
          /\ x.del = snap[s].del /\ (x.fin = snap[s].fin \/ x.fin = fin)
      BY <2>1, <3>1 DEF Object
    <3> QED BY <1>3, <2>3, <3>2 DEF Saved
  <2>4. CASE ~(c.del /\ c.fin /\ ~fin) /\ ~same
    <3>1. c = snap[s] /\ x = [c EXCEPT !.phase = phase, !.cons = cons, !.fin = fin]
      BY <1>3, <2>4 DEF Save
    <3>2. /\ x \in Object /\ x.phase = phase /\ x.cons = cons
          /\ x.del = c.del /\ x.fin = fin
      BY <3>1, Zenon DEF Object
    <3> QED BY <2>4, <3>1, <3>2 DEF Saved
  <2> QED BY <2>2, <2>3, <2>4
<1> QED BY <1>2, <1>3

-----------------------------------------------------------------------------
\* What a reconcile of a disk snapshot decides.
DiskDecides(s, o) ==
  /\ o \in Outcomes /\ Asks(s, o)
  /\ o.call = "freeze" => ~cs[s].del /\ cs[s].phase \in {"InProgress", "Terminating"} /\ o.phase = "InProgress"
  /\ o.call = "unfreeze" => cs[s].del \/ cs[s].phase = "Failed" \/ cv[s] \in {"clean", "dirty"}
  /\ o.call = "create" =>
       /\ ~cs[s].del /\ cs[s].phase \in {"InProgress", "Terminating"} /\ o.phase = "InProgress" /\ cv[s] = None
       /\ Trusted(Seen(o)) /\ (vm = "Stopped" \/ Frozen(Seen(o)) \/ ~CanFreeze(Seen(o)))
  /\ \/ o.cons = cs[s].cons
     \/ /\ o.cons /\ ~cs[s].del /\ cs[s].phase \notin {"Failed", "Ready"}
        /\ cv[s] \in {"clean", "dirty"}
        /\ Trusted(Seen(o)) /\ (vm = "Stopped" \/ Frozen(Seen(o)))
  /\ o.phase = "Ready" /\ cs[s].phase # "Ready" =>
       /\ ~cs[s].del /\ cv[s] \in {"clean", "dirty"} /\ o.cons = cs[s].cons
       /\ RequiredConsistency(s) => cs[s].cons
       /\ Trusted(Seen(o)) /\ (Frozen(Seen(o)) => \E x \in Snaps \ {s} : InProgress(x))
  /\ cs[s].phase = "Failed" => cs[s].del \/ o.phase = "Failed"
  /\ o.phase = "Terminating" => cs[s].del \/ cs[s].phase = "Terminating"
  /\ Involved(cs[s]) => o.phase \in {"InProgress", "Failed", "Terminating", "Ready"}
  /\ cs[s].del => o.call = DeletionCall(s, cs[s]) /\ Seen(o) = ck

\* The fields of an outcome.
LEMMA OutcomeFields ==
    ASSUME NEW c \in Object, NEW phase \in Phases, NEW call \in Calls, NEW synced \in BOOLEAN
    PROVE  LET o == Outcome(c, phase, call, synced)
           IN /\ o \in Outcomes /\ o.phase = phase /\ o.cons = c.cons
              /\ o.call = call /\ o.synced = synced
BY ObjectFields DEF Outcome, Outcomes

\* An outcome with another call.
LEMMA OutcomeCall ==
    ASSUME NEW o \in Outcomes, NEW call \in Calls
    PROVE  LET p == [o EXCEPT !.call = call]
           IN /\ p \in Outcomes /\ p.phase = o.phase /\ p.cons = o.cons
              /\ p.call = call /\ p.synced = o.synced
BY DEF Outcomes

\* A synchronisation that succeeds leaves a copy that is trusted.
LEMMA SyncTrusted ==
    ASSUME TypeOK, SyncSucceeds
    PROVE  Trusted(Synced(ck)) /\ (Followed(ck) => ck = kv) /\ (~Followed(ck) => Synced(ck) = ck)
<1>1. CASE Followed(ck)
  <2>1. ck \in Instance
    BY <1>1, NoneSynced DEF TypeOK
  <2> QED BY <1>1, <2>1, SyncedFields DEF SyncSucceeds, Followed, Trusted
<1>2. CASE ~Followed(ck)
  BY <1>2 DEF SyncSucceeds, Synced
<1> QED BY <1>1, <1>2

\* LifeCycleHandler.Handle and DeletionHandler.Handle of disk snapshots.
LEMMA DiskDecision ==
    ASSUME TypeOK, NEW s \in Disks, cs[s] # None, NEW ready \in BOOLEAN,
           NEW o, o = [DiskLifeCycle(s, cs[s], ready)
                         EXCEPT !.call = IF cs[s].del THEN DeletionCall(s, cs[s]) ELSE @]
    PROVE  DiskDecides(s, o)
<1> DEFINE life == DiskLifeCycle(s, cs[s], ready)
           k == Synced(ck)
<1>0. PICK c \in Object : c = cs[s]
  BY DEF TypeOK, Snaps
<1>1. /\ c.phase \in Phases /\ c.cons \in BOOLEAN /\ c.del \in BOOLEAN
      /\ cv[s] \in VolumeStates \cup {None} /\ ck \in Instance \cup {None}
      /\ kv \in Instance \cup {None} /\ s \in Snaps
  BY <1>0, ObjectFields DEF TypeOK, Snaps
<1>2. SyncSucceeds => Trusted(k) /\ (Followed(ck) => ck = kv) /\ (~Followed(ck) => k = ck)
  BY SyncTrusted
<1> HIDE DEF k
<1>4. CASE c.del
  <2>1. life = Outcome(c, "Terminating", "none", FALSE)
    BY <1>0, <1>4 DEF DiskLifeCycle
  <2>2. DeletionCall(s, c) \in {"none", "unfreeze"}
    BY DEF DeletionCall
  <2>3. /\ life \in Outcomes /\ life.phase = "Terminating" /\ life.cons = c.cons
        /\ life.synced = FALSE
    BY <1>1, <2>1 DEF Outcome, Outcomes, Phases, Calls
  <2> HIDE DEF life
  <2>4. o = [life EXCEPT !.call = DeletionCall(s, c)]
    BY <1>0, <1>4 DEF life
  <2>5. /\ o \in Outcomes /\ o.phase = "Terminating" /\ o.cons = c.cons /\ o.synced = FALSE
        /\ o.call = DeletionCall(s, c)
    BY <2>2, <2>3, <2>4 DEF Outcomes, Calls
  <2>6. Asks(s, o)
    BY <2>5 DEF Asks, Seen, DeletionCall, CanUnfreezeWithVirtualDiskSnapshot
  <2>7. Seen(o) = ck
    BY <2>5 DEF Seen
  <2> QED BY <1>0, <1>4, <2>2, <2>5, <2>6, <2>7 DEF DiskDecides
<1>5. ASSUME ~c.del
      PROVE  DiskDecides(s, o)
  <2> HIDE DEF life
  <2>1. life \in Outcomes => o = life
    BY <1>0, <1>5 DEF Outcomes, life
  <2>2. Followed(ck) \in BOOLEAN /\ Started(c) \in {"Pending", "InProgress", c.phase}
        /\ Started(c) \in Phases /\ Started(c) # "New"
    BY <1>1 DEF Followed, Started, Phases
  <2>3. CASE c.phase = "Failed"
    <3>1. life = ThawFailed(s, c)
      BY <1>0, <1>5, <2>3 DEF DiskLifeCycle, life
    <3>2. /\ life \in Outcomes /\ life.phase = "Failed" /\ life.cons = c.cons /\ life.synced = FALSE
          /\ life.call \in {"none", "unfreeze"}
          /\ life.call = "unfreeze" => CanUnfreezeWithVirtualDiskSnapshot(s, ck)
      BY <1>1, <3>1 DEF ThawFailed, Outcome, Outcomes, Phases, Calls
    <3>3. o = life /\ Seen(o) = ck
      BY <2>1, <3>2, Zenon DEF Seen
    <3>4. Asks(s, o)
      BY <3>2, <3>3, Zenon DEF Asks, CanUnfreezeWithVirtualDiskSnapshot
    <3> QED BY <1>0, <1>5, <2>3, <3>2, <3>3, <3>4, Zenon DEF DiskDecides
  <2>4. CASE /\ c.phase # "Failed"
             /\ c.phase = "Ready" \/ ~ready \/ ~SyncSucceeds
    <3>1. life = Stay(c, FALSE) \/ life = Fail(c, FALSE)
      <4>1. CASE c.phase = "Ready" \/ ~ready
        BY <1>0, <1>5, <2>4, <4>1, Zenon DEF DiskLifeCycle, life
      <4>2. CASE c.phase # "Ready" /\ ready /\ ~SyncSucceeds
        BY <1>0, <1>5, <2>4, <4>2, Zenon DEF DiskLifeCycle, life, Unsynced
      <4> QED BY <2>4, <4>1, <4>2, Zenon
    <3>2. /\ life \in Outcomes /\ life.phase \in {Started(c), "Failed"} /\ life.cons = c.cons
          /\ life.synced = FALSE /\ life.call = "none"
      <4>1. CASE life = Stay(c, FALSE)
        BY <1>1, <2>2, <4>1 DEF Stay, Outcome, Outcomes, Calls
      <4>2. CASE life = Fail(c, FALSE)
        BY <1>1, <4>2 DEF Fail, Outcome, Outcomes, Phases, Calls
      <4> QED BY <3>1, <4>1, <4>2, Zenon
    <3>3. o = life
      BY <2>1, <3>2
    <3>4. Asks(s, o)
      BY <3>2, <3>3, Zenon DEF Asks
    <3>5. o.phase = "Ready" => c.phase = "Ready"
      BY <3>2, <3>3 DEF Started
    <3>6. (o.phase = "Terminating" => c.phase = "Terminating")
          /\ (Involved(c) => o.phase \in {"InProgress", "Failed", "Terminating", "Ready"})
      BY <3>2, <3>3, Zenon DEF Started, Involved
    <3> QED BY <1>0, <1>5, <2>4, <3>2, <3>3, <3>4, <3>5, <3>6, Zenon DEF DiskDecides
  <2>5. CASE c.phase \notin {"Failed", "Ready"} /\ ready /\ SyncSucceeds
    <3>1. ASSUME life \in Outcomes, life.synced = Followed(ck),
                 life.call = "freeze" => CanFreeze(k),
                 life.call = "unfreeze" => CanUnfreezeWithVirtualDiskSnapshot(s, k)
          PROVE  o = life /\ Seen(o) = k /\ Asks(s, o) /\ Trusted(Seen(o))
      <4>1. o = life
        BY <2>1, <3>1
      <4>2. Seen(o) = k
        BY <1>2, <2>5, <3>1, <4>1, Zenon DEF Seen, k
      <4>3. Trusted(k) /\ (o.synced => Followed(ck) /\ ck = kv)
        BY <1>2, <2>5, <3>1, <4>1, Zenon
      <4>4. Asks(s, o)
        BY <3>1, <4>1, <4>2, <4>3, Zenon DEF Asks, CanUnfreezeWithVirtualDiskSnapshot
      <4> QED BY <4>1, <4>2, <4>3, <4>4
    <3>2. CASE cv[s] = None
      <4>1. life = TakeVolume(s, c, k)
        BY <1>0, <1>5, <2>5, <3>2, Zenon DEF DiskLifeCycle, life, k
      <4>2. /\ life \in Outcomes /\ life.synced = Followed(ck) /\ life.cons = c.cons
            /\ life.phase \in {"InProgress", "Failed"}
            /\ life.call \in {"none", "freeze", "create"}
            /\ life.call # "none" => life.phase = "InProgress" /\ Started(c) # "Pending"
            /\ life.call = "freeze" => CanFreeze(k)
            /\ life.call = "create" => vm = "Stopped" \/ Frozen(k) \/ ~CanFreeze(k)
        BY <1>1, <2>2, <4>1 DEF TakeVolume, Fail, Outcome, Outcomes, Phases, Calls
      <4>3. o = life /\ Seen(o) = k /\ Asks(s, o) /\ Trusted(Seen(o))
        BY <3>1, <4>2
      <4>4. life.call # "none" => c.phase \in {"InProgress", "Terminating"}
        BY <1>1, <2>5, <4>2 DEF Started, Phases
      <4> QED BY <1>0, <1>5, <2>5, <3>2, <4>2, <4>3, <4>4, Zenon DEF DiskDecides
    <3>3. CASE cv[s] \in {"error", "new"}
      <4>1. life = IF cv[s] = "error" THEN Fail(c, Followed(ck))
                   ELSE Outcome(c, "InProgress", "none", Followed(ck))
        BY <1>0, <1>5, <2>5, <3>3, NoneAssumption, Zenon DEF DiskLifeCycle, life, VolumeStates
      <4>2. /\ life \in Outcomes /\ life.synced = Followed(ck) /\ life.cons = c.cons
            /\ life.phase \in {"InProgress", "Failed"} /\ life.call = "none"
        BY <1>1, <2>2, <4>1 DEF Fail, Outcome, Outcomes, Phases, Calls
      <4>3. o = life /\ Seen(o) = k /\ Asks(s, o) /\ Trusted(Seen(o))
        BY <3>1, <4>2
      <4> QED BY <1>0, <1>5, <2>5, <4>2, <4>3, Zenon DEF DiskDecides
    <3>4. CASE cv[s] \in {"clean", "dirty"}
      <4>1. life = FinishVolume(s, c, k)
        BY <1>0, <1>5, <2>5, <3>4, NoneAssumption, Zenon DEF DiskLifeCycle, life, k, VolumeStates
      <4>2. /\ life \in Outcomes /\ life.synced = Followed(ck)
            /\ life.call \in {"none", "unfreeze"}
            /\ life.call = "unfreeze" => CanUnfreezeWithVirtualDiskSnapshot(s, k)
            /\ life.phase \in {Started(c), "InProgress", "Failed", "Ready"}
            /\ life.cons = c.cons \/ (life.cons /\ (vm = "Stopped" \/ Frozen(k)))
        BY <1>1, <2>2, <4>1, Zenon DEF FinishVolume, Stay, Fail, Outcome, Outcomes, Phases, Calls
      <4>3. life.phase = "Ready" => /\ life.cons = c.cons /\ (RequiredConsistency(s) => c.cons)
                                    /\ ~CanUnfreezeWithVirtualDiskSnapshot(s, k)
        BY <1>1, <2>5, <4>1, Zenon DEF FinishVolume, Stay, Started, Fail, Outcome
      <4>4. o = life /\ Seen(o) = k /\ Asks(s, o) /\ Trusted(Seen(o))
        BY <3>1, <4>2
      <4>5. life.phase = "Ready" => (Frozen(k) => \E x \in Snaps \ {s} : InProgress(x))
        BY <4>3, <4>4 DEF CanUnfreezeWithVirtualDiskSnapshot
      <4>6. (life.phase = "Terminating" => c.phase = "Terminating")
            /\ (Involved(c) => life.phase \in {"InProgress", "Failed", "Terminating", "Ready"})
        BY <4>2 DEF Started, Involved
      <4> QED BY <1>0, <1>5, <2>5, <3>4, <4>2, <4>3, <4>4, <4>5, <4>6, Zenon DEF DiskDecides
    <3> QED BY <1>1, <3>2, <3>3, <3>4 DEF VolumeStates
  <2> QED BY <1>0, <2>3, <2>4, <2>5
<1> QED BY <1>0, <1>1, <1>4, <1>5

\* What a reconcile of a VM snapshot decides.
MachineDecides(s, o) ==
  /\ o \in Outcomes /\ Asks(s, o)
  /\ o.call = "freeze" => ~cs[s].del /\ o.phase = "InProgress"
  /\ o.call \in {"freeze", "create"} => cs[s].phase \in {"InProgress", "Terminating"}
  /\ o.call = "create" => ~cs[s].del /\ o.phase \in {"InProgress", "Failed"}
  /\ \/ o.cons = cs[s].cons
     \/ /\ \A d \in Own[s] : cs[d] # None /\ cs[d].phase = "Ready"
        /\ o.cons = \A d \in Own[s] : cs[d].cons
  /\ o.phase = "Ready" /\ cs[s].phase # "Ready" =>
       /\ ~cs[s].del /\ \A d \in Own[s] : cs[d] # None /\ cs[d].phase = "Ready"
       /\ o.cons = \A d \in Own[s] : cs[d].cons
       /\ Trusted(Seen(o))
       /\ vm = "Running" /\ Frozen(Seen(o)) => \E x \in Snaps \ {s} : InProgress(x)
  /\ cs[s].phase = "Failed" => cs[s].del \/ o.phase = "Failed"
  /\ cs[s].phase = "Ready" => o.cons = cs[s].cons
  /\ o.phase = "Terminating" => cs[s].del \/ cs[s].phase = "Terminating"
  /\ Involved(cs[s]) => o.phase \in {"InProgress", "Failed", "Terminating", "Ready"}

\* LifeCycleHandler.Handle of VM snapshots.
LEMMA MachineDecision ==
    ASSUME TypeOK, NEW s \in VSnaps, cs[s] # None, NEW ready \in BOOLEAN,
           NEW o, o = MachineLifeCycle(s, cs[s], ready)
    PROVE  MachineDecides(s, o)
<1> DEFINE k == Synced(ck)
<1>0. PICK c \in Object : c = cs[s]
  BY DEF TypeOK, Snaps
<1>1. /\ c.phase \in Phases /\ c.cons \in BOOLEAN /\ c.del \in BOOLEAN
      /\ Followed(ck) \in BOOLEAN
      /\ Started(c) \in Phases /\ Started(c) \in {"Pending", c.phase} /\ Started(c) # "New"
  BY <1>0, ObjectFields DEF Followed, Started, Phases
<1>2. SyncSucceeds => Trusted(k) /\ (Followed(ck) => ck = kv) /\ (~Followed(ck) => k = ck)
  BY SyncTrusted
<1> HIDE DEF k
<1>3. CASE ~SyncSucceeds
  <2>1. o = Stay(c, FALSE) \/ o = Fail(c, FALSE)
    BY <1>0, <1>3, Zenon DEF MachineLifeCycle, Unsynced
  <2>2. /\ o \in Outcomes /\ o.phase \in {Started(c), "Failed"} /\ o.cons = c.cons
        /\ o.synced = FALSE /\ o.call = "none"
    <3>1. CASE o = Stay(c, FALSE)
      BY <1>1, <3>1 DEF Stay, Outcome, Outcomes, Calls
    <3>2. CASE o = Fail(c, FALSE)
      BY <1>1, <3>2 DEF Fail, Outcome, Outcomes, Phases, Calls
    <3> QED BY <2>1, <3>1, <3>2, Zenon
  <2>3. Asks(s, o)
    BY <2>2 DEF Asks
  <2>4. Started(c) = "Pending" => c.phase \in {"New", "Pending"}
    BY DEF Started
  <2> QED BY <1>0, <1>1, <2>2, <2>3, <2>4, Zenon DEF MachineDecides, Involved
<1>4. CASE SyncSucceeds
  <2>1. ASSUME o \in Outcomes, o.synced = Followed(ck), o.call = "freeze" => CanFreeze(k),
               o.call = "unfreeze" => CanUnfreezeWithVirtualMachineSnapshot(s, k)
        PROVE  Seen(o) = k /\ Asks(s, o) /\ Trusted(Seen(o))
    <3>1. Seen(o) = k
      BY <1>2, <1>4, <2>1 DEF Seen, k
    <3>2. Trusted(k) /\ (o.synced => Followed(ck) /\ ck = kv)
      BY <1>2, <1>4, <2>1
    <3>3. Asks(s, o)
      BY <2>1, <3>1, <3>2 DEF Asks, CanUnfreezeWithVirtualMachineSnapshot
    <3> QED BY <3>1, <3>2, <3>3
  <2>2. /\ unfreezeVirtualMachineIfCan(s, k) \in {"none", "unfreeze"}
        /\ unfreezeVirtualMachineIfCan(s, k) = "unfreeze" =>
             CanUnfreezeWithVirtualMachineSnapshot(s, k)
        /\ unfreezeVirtualMachineIfCan(s, k) = "none" =>
             ~(vm = "Running" /\ CanUnfreezeWithVirtualMachineSnapshot(s, k))
    BY DEF unfreezeVirtualMachineIfCan
  <2>3. CASE c.del \/ c.phase = "Failed"
    <3>1. o = Outcome(c, IF c.del THEN "Terminating" ELSE "Failed",
                      unfreezeVirtualMachineIfCan(s, k), Followed(ck))
      BY <1>0, <1>4, <2>3 DEF MachineLifeCycle, k
    <3>2. /\ o \in Outcomes /\ o.phase = (IF c.del THEN "Terminating" ELSE "Failed")
          /\ o.cons = c.cons /\ o.synced = Followed(ck)
          /\ o.call = unfreezeVirtualMachineIfCan(s, k)
      BY <1>1, <2>2, <3>1 DEF Outcome, Outcomes, Phases, Calls
    <3>3. Asks(s, o)
      BY <2>1, <2>2, <3>2
    <3> QED BY <1>0, <1>1, <2>2, <2>3, <3>2, <3>3 DEF MachineDecides
  <2>4. CASE /\ ~c.del /\ c.phase # "Failed"
             /\ \/ c.phase = "Ready" /\ o = Stay(c, Followed(ck))
                \/ o = Fail(c, Followed(ck))
                \/ o = Outcome(c, "InProgress", "none", Followed(ck))
    <3>1. /\ o \in Outcomes /\ o.phase \in {c.phase, "Failed", "InProgress"} /\ o.cons = c.cons
          /\ o.synced = Followed(ck) /\ o.call = "none"
          /\ o.phase = "Ready" => c.phase = "Ready"
          /\ o.phase # "Terminating"
      <4>1. CASE c.phase = "Ready" /\ o = Stay(c, Followed(ck))
        BY <1>1, <4>1 DEF Stay, Started, Outcome, Outcomes, Calls
      <4>2. CASE o = Fail(c, Followed(ck))
        BY <1>1, <4>2 DEF Fail, Outcome, Outcomes, Phases, Calls
      <4>3. CASE o = Outcome(c, "InProgress", "none", Followed(ck))
        BY <1>1, <4>3 DEF Outcome, Outcomes, Phases, Calls
      <4> QED BY <2>4, <4>1, <4>2, <4>3
    <3>2. Asks(s, o)
      BY <2>1, <3>1
    <3> QED BY <1>0, <1>1, <2>4, <3>1, <3>2, Zenon DEF MachineDecides, Involved
  <2>5. CASE /\ ~c.del /\ c.phase \notin {"Failed", "Ready"} /\ Started(c) # "Pending"
             /\ o = Outcome(c, "InProgress", "freeze", Followed(ck)) /\ CanFreeze(k)
    <3>1. /\ o \in Outcomes /\ o.phase = "InProgress" /\ o.cons = c.cons
          /\ o.synced = Followed(ck) /\ o.call = "freeze"
      BY <1>1, <2>5 DEF Outcome, Outcomes, Phases, Calls
    <3>2. Asks(s, o)
      BY <2>1, <2>5, <3>1
    <3>3. c.phase \in {"InProgress", "Terminating"}
      BY <1>1, <2>5 DEF Started, Phases
    <3> QED BY <1>0, <2>5, <3>1, <3>2, <3>3, Zenon DEF MachineDecides
  <2>6. CASE /\ ~c.del /\ c.phase \notin {"Failed", "Ready"} /\ Started(c) # "Pending"
             /\ o = TakeDisks(s, c, k)
    <3>0. c.phase \in {"InProgress", "Terminating"}
      BY <1>1, <2>6 DEF Started, Phases
    <3>1. CASE \/ CreateClashes(s) \/ \E d \in Own[s] \ Absent(s) : cs[d].phase = "Failed"
               \/ Absent(s) # {}
      <4>1. \/ o = Outcome(c, "Failed", "create", Followed(ck))
            \/ o = Outcome(c, "InProgress", "create", Followed(ck))
        BY <2>6, <3>1 DEF TakeDisks
      <4>2. /\ o \in Outcomes /\ o.phase \in {"Failed", "InProgress"} /\ o.cons = c.cons
            /\ o.synced = Followed(ck) /\ o.call = "create"
        BY <1>1, <4>1 DEF Outcome, Outcomes, Phases, Calls
      <4>3. Asks(s, o)
        BY <2>1, <4>2, Zenon
      <4> QED BY <1>0, <2>6, <3>0, <4>2, <4>3, Zenon DEF MachineDecides
    <3>2. CASE /\ ~CreateClashes(s) /\ ~\E d \in Own[s] \ Absent(s) : cs[d].phase = "Failed"
               /\ Absent(s) = {} /\ \E d \in Own[s] : cs[d].phase # "Ready"
      <4>1. o = Outcome(c, "InProgress", "none", Followed(ck))
        BY <2>6, <3>2 DEF TakeDisks
      <4> QED BY <2>4, <2>6, <4>1
    <3>3. CASE /\ ~CreateClashes(s) /\ ~\E d \in Own[s] \ Absent(s) : cs[d].phase = "Failed"
               /\ Absent(s) = {} /\ ~\E d \in Own[s] : cs[d].phase # "Ready"
      <4> DEFINE call == unfreezeVirtualMachineIfCan(s, k)
                 all == \A d \in Own[s] : cs[d].cons
      <4>1. o = [Outcome(c, IF call = "unfreeze" THEN "InProgress" ELSE "Ready", call, Followed(ck))
                   EXCEPT !.cons = all]
        BY <2>6, <3>3 DEF TakeDisks
      <4>2. call \in {"none", "unfreeze"} /\ all \in BOOLEAN
        BY <2>2
      <4>3. \A d \in Own[s] : cs[d] # None /\ cs[d].phase = "Ready"
        BY <3>3 DEF Absent
      <4> HIDE DEF call, all
      <4>4. /\ o \in Outcomes /\ o.phase = (IF call = "unfreeze" THEN "InProgress" ELSE "Ready")
            /\ o.cons = all /\ o.synced = Followed(ck) /\ o.call = call
        BY <1>1, <4>1, <4>2 DEF Outcome, Outcomes, Phases, Calls
      <4>5. Seen(o) = k /\ Asks(s, o) /\ Trusted(Seen(o))
        BY <2>1, <2>2, <4>2, <4>4 DEF call
      <4>6. o.phase = "Ready" => /\ vm = "Running" /\ Frozen(k) => \E x \in Snaps \ {s} : InProgress(x)
        BY <2>2, <4>2, <4>4, <4>5 DEF call, CanUnfreezeWithVirtualMachineSnapshot
      <4> QED BY <1>0, <2>6, <3>0, <4>2, <4>3, <4>4, <4>5, <4>6, Zenon DEF MachineDecides, all
    <3> QED BY <3>1, <3>2, <3>3
  <2>7. CASE ~c.del /\ c.phase # "Failed"
    <3>1. CASE c.phase = "Ready"
      BY <1>0, <1>4, <2>4, <2>7, <3>1 DEF MachineLifeCycle
    <3>2. CASE c.phase # "Ready" /\ (~ready \/ (needToFreeze(s, c, k) /\ ~CanFreeze(k)))
      <4>1. o = Fail(c, Followed(ck))
        BY <1>0, <1>4, <2>7, <3>2 DEF MachineLifeCycle, k
      <4> QED BY <2>4, <2>7, <4>1
    <3>3. CASE c.phase # "Ready" /\ ~(~ready \/ (needToFreeze(s, c, k) /\ ~CanFreeze(k)))
      <4>1. CASE Started(c) = "Pending"
        <5>1. o = Outcome(c, "InProgress", "none", Followed(ck))
          BY <1>0, <1>4, <2>7, <3>3, <4>1 DEF MachineLifeCycle, k
        <5> QED BY <2>4, <2>7, <5>1
      <4>2. CASE Started(c) # "Pending"
        <5>1. o = IF needToFreeze(s, c, k) THEN Outcome(c, "InProgress", "freeze", Followed(ck))
                  ELSE TakeDisks(s, c, k)
          BY <1>0, <1>4, <2>7, <3>3, <4>2, Zenon DEF MachineLifeCycle, k
        <5> QED BY <2>5, <2>6, <2>7, <3>3, <4>2, <5>1
      <4> QED BY <4>1, <4>2
    <3> QED BY <3>1, <3>2, <3>3
  <2> QED BY <1>1, <2>3, <2>7
<1> QED BY <1>3, <1>4

-----------------------------------------------------------------------------
\* The steps.

\* The effect of a reconcile of a disk snapshot that decided o.
DiskEffect(s, o, result, fin) ==
  /\ DiskDecides(s, o) /\ o.phase \in Phases /\ o.cons \in BOOLEAN
  /\ CallInstance(o, result)
  /\ fin \in BOOLEAN /\ fin = KeepsFinalizer(s, cs[s], result = "done")
  /\ snap' \in [Snaps -> Object \cup {None}]
  /\ \A x \in Snaps \ {s} : snap'[x] = snap[x]
  /\ Saved(snap'[s], s, cs[s], o.phase, o.cons, fin)
  /\ vs' = [vs EXCEPT ![s] = IF snap'[s] = None \/ (cs[s].del /\ cv[s] # None) THEN None
                             ELSE IF o.call = "create" /\ vs[s] = None THEN "new" ELSE vs[s]]

\* A reconcile of a disk snapshot.
LEMMA DiskStep ==
    ASSUME TypeOK, NEW s \in Disks, DiskReconcile(s)
    PROVE  /\ cs[s] # None /\ (Prompt => Fresh)
           /\ UNCHANGED <<cs, cv, ck, vm, asked, power>> /\ faults' \in 0 .. MaxFaults
           /\ \E o \in Outcomes : \E result \in CallResults(o.call), fin \in BOOLEAN :
                DiskEffect(s, o, result, fin)
<1>1. /\ cs[s] # None /\ (Prompt => Fresh) /\ UNCHANGED <<cs, cv, ck, vm, asked, power>>
      /\ cs[s] \in Object /\ s \in Snaps /\ faults \in Nat /\ MaxFaults \in Nat
      /\ snap \in [Snaps -> Object \cup {None}]
  BY SnapshotAssumption DEF DiskReconcile, TypeOK, Snaps
<1>2. PICK ready \in VirtualDiskReady, lost \in Choices("write") :
        LET c == cs[s]
            life == DiskLifeCycle(s, c, ready)
            o == [life EXCEPT !.call = IF c.del THEN DeletionCall(s, c) ELSE @]
        IN \E result \in CallResults(o.call) :
            LET fin == KeepsFinalizer(s, c, result = "done") IN
            /\ faults' = faults + Spends(ready, result, lost) /\ faults' <= MaxFaults
            /\ CallInstance(o, result)
            /\ snap' = [snap EXCEPT ![s] = Save(s, c, o.phase, o.cons, fin, lost)]
            /\ vs' = [vs EXCEPT ![s] =
                        IF snap'[s] = None \/ (c.del /\ cv[s] # None) THEN None
                        ELSE IF o.call = "create" /\ @ = None THEN "new" ELSE @]
  BY Zenon DEF DiskReconcile
<1>3. ready \in BOOLEAN /\ lost \in BOOLEAN
  BY Zenon DEF VirtualDiskReady, Choices
<1>4. PICK o : o = [DiskLifeCycle(s, cs[s], ready)
                      EXCEPT !.call = IF cs[s].del THEN DeletionCall(s, cs[s]) ELSE @]
  BY Zenon
<1>5. PICK result \in CallResults(o.call) :
        /\ faults' = faults + Spends(ready, result, lost) /\ faults' <= MaxFaults
        /\ CallInstance(o, result)
        /\ snap' = [snap EXCEPT ![s] = Save(s, cs[s], o.phase, o.cons,
                                            KeepsFinalizer(s, cs[s], result = "done"), lost)]
        /\ vs' = [vs EXCEPT ![s] =
                    IF snap'[s] = None \/ (cs[s].del /\ cv[s] # None) THEN None
                    ELSE IF o.call = "create" /\ vs[s] = None THEN "new" ELSE vs[s]]
  BY <1>2, <1>4, Zenon
<1>6. DiskDecides(s, o)
  BY <1>1, <1>3, <1>4, DiskDecision
<1>7. o \in Outcomes /\ o.phase \in Phases /\ o.cons \in BOOLEAN
  BY <1>6, Zenon DEF DiskDecides, Outcomes
<1>8. PICK fin \in BOOLEAN : fin = KeepsFinalizer(s, cs[s], result = "done")
  BY Zenon DEF KeepsFinalizer
<1>9. faults' \in 0 .. MaxFaults
  BY <1>1, <1>5 DEF Spends
<1>10. PICK x : x = Save(s, cs[s], o.phase, o.cons, fin, lost)
  OBVIOUS
<1>11. Saved(x, s, cs[s], o.phase, o.cons, fin) /\ x \in Object \cup {None}
  BY <1>1, <1>3, <1>7, <1>10, SaveResult
<1>12. snap' = [snap EXCEPT ![s] = x]
  BY <1>5, <1>8, <1>10, Zenon
<1>13. snap' \in [Snaps -> Object \cup {None}] /\ snap'[s] = x /\ \A y \in Snaps \ {s} : snap'[y] = snap[y]
  BY <1>1, <1>11, <1>12
<1>14. DiskEffect(s, o, result, fin)
  BY <1>5, <1>6, <1>7, <1>8, <1>11, <1>13, Zenon DEF DiskEffect
<1> QED BY <1>1, <1>7, <1>9, <1>14

\* The effect of a reconcile of a VM snapshot that decided o.
MachineEffect(s, o, result, made) ==
  /\ MachineDecides(s, o) /\ AfterCall(o, result) \in Phases /\ o.cons \in BOOLEAN
  /\ CallInstance(o, result)
  /\ made \subseteq Own[s] /\ made \subseteq Disks /\ made \cap asked = {} /\ asked' = asked \cup made
  /\ snap' \in [Snaps -> Object \cup {None}]
  /\ \A x \in Snaps \ ({s} \cup made) : snap'[x] = snap[x]
  /\ \A x \in made : snap'[x] = NewObject
  /\ Saved(snap'[s], s, cs[s], AfterCall(o, result), o.cons, cs[s].fin)

\* A new snapshot.
LEMMA NewFields ==
    /\ NewObject \in Object /\ NewObject # None /\ NewObject.phase = "New"
    /\ ~NewObject.cons /\ ~NewObject.del /\ ~NewObject.fin
<1>1. NewObject \in Object
  BY DEF NewObject, Object, Phases
<1>2. NewObject.phase = "New" /\ ~NewObject.cons /\ ~NewObject.del /\ ~NewObject.fin
  BY DEF NewObject
<1> QED BY <1>1, <1>2, ObjectFields

\* VM snapshots own disk snapshots.
LEMMA Owned ==
    ASSUME NEW v \in VSnaps
    PROVE  /\ v \in Snaps /\ v \notin Disks /\ Own[v] \subseteq Disks /\ Own[v] \subseteq Snaps
           /\ \A d \in Own[v] : RequiredConsistency(d) <=> RequiredConsistency(v)
<1>1. v \in Snaps /\ v \notin Disks /\ Own[v] \subseteq Disks \ DSnaps
  BY SnapshotAssumption DEF Snaps
<1>2. ASSUME NEW d \in Own[v]
      PROVE  Owner(d) = v
  <2>1. Owner(d) \in VSnaps /\ d \in Own[Owner(d)]
    BY <1>2 DEF Owner
  <2> QED BY <1>2, <2>1, SnapshotAssumption
<1> QED BY <1>1, <1>2 DEF RequiredConsistency, Snaps

\* A reconcile of a VM snapshot.
LEMMA MachineStep ==
    ASSUME TypeOK, NEW s \in VSnaps, MachineReconcile(s)
    PROVE  /\ cs[s] # None /\ (Prompt => Fresh)
           /\ UNCHANGED <<cs, vs, cv, ck, vm, power>> /\ faults' \in 0 .. MaxFaults
           /\ \E o \in Outcomes : \E result \in CallResults(o.call), made \in SUBSET Own[s] :
                MachineEffect(s, o, result, made)
<1>1. /\ cs[s] # None /\ (Prompt => Fresh) /\ UNCHANGED <<cs, vs, cv, ck, vm, power>>
      /\ cs[s] \in Object /\ s \in Snaps /\ faults \in Nat /\ MaxFaults \in Nat
      /\ snap \in [Snaps -> Object \cup {None}] /\ cs[s].fin \in BOOLEAN
  BY SnapshotAssumption, ObjectFields DEF MachineReconcile, TypeOK, Snaps
<1>2. PICK ready \in VirtualMachineReady, lost \in Choices("write") :
        LET c == cs[s]
            o == MachineLifeCycle(s, c, ready)
        IN \E result \in CallResults(o.call), made \in Creates(s, o) :
            /\ faults' = faults + Spends(ready, result, lost) /\ faults' <= MaxFaults
            /\ CallInstance(o, result)
            /\ snap' = [x \in Snaps |->
                          IF x = s THEN Save(s, c, AfterCall(o, result), o.cons, c.fin, lost)
                          ELSE IF x \in made THEN NewObject ELSE snap[x]]
            /\ made \cap asked = {} /\ asked' = asked \cup made
  BY Zenon DEF MachineReconcile
<1>3. ready \in BOOLEAN /\ lost \in BOOLEAN
  BY Zenon DEF VirtualMachineReady, Choices
<1>4. PICK o : o = MachineLifeCycle(s, cs[s], ready)
  OBVIOUS
<1>5. PICK result \in CallResults(o.call), made \in Creates(s, o) :
        /\ faults' = faults + Spends(ready, result, lost) /\ faults' <= MaxFaults
        /\ CallInstance(o, result)
        /\ snap' = [x \in Snaps |->
                      IF x = s THEN Save(s, cs[s], AfterCall(o, result), o.cons, cs[s].fin, lost)
                      ELSE IF x \in made THEN NewObject ELSE snap[x]]
        /\ made \cap asked = {} /\ asked' = asked \cup made
  BY <1>2, <1>4, Zenon
<1>6. MachineDecides(s, o)
  BY <1>1, <1>3, <1>4, MachineDecision, Zenon
<1>7. o \in Outcomes /\ AfterCall(o, result) \in Phases /\ o.cons \in BOOLEAN
  BY <1>6, Zenon DEF MachineDecides, Outcomes, AfterCall, Phases
<1>8. made \subseteq Own[s] /\ made \subseteq Disks /\ s \notin made
  BY Owned, Zenon DEF Creates, Absent
<1>9. faults' \in 0 .. MaxFaults
  BY <1>1, <1>5, SMTT(20), ZenonT(20), SMTT(40) DEF Spends
<1>10. PICK y : y = Save(s, cs[s], AfterCall(o, result), o.cons, cs[s].fin, lost)
  OBVIOUS
<1>11. Saved(y, s, cs[s], AfterCall(o, result), o.cons, cs[s].fin) /\ y \in Object \cup {None}
  BY <1>1, <1>3, <1>7, <1>10, SaveResult, SMTT(20), ZenonT(20), SMTT(40)
<1>12. /\ snap' = [x \in Snaps |-> IF x = s THEN y ELSE IF x \in made THEN NewObject ELSE snap[x]]
       /\ made \subseteq Snaps
  BY <1>5, <1>8, <1>10, Zenon DEF Snaps
<1>13. /\ snap' \in [Snaps -> Object \cup {None}] /\ snap'[s] = y
       /\ \A x \in Snaps \ ({s} \cup made) : snap'[x] = snap[x]
       /\ \A x \in made : snap'[x] = NewObject
  BY <1>1, <1>8, <1>11, <1>12, NewFields, Zenon
<1>14. MachineEffect(s, o, result, made)
  BY <1>5, <1>6, <1>7, <1>8, <1>11, <1>13, Zenon DEF MachineEffect
<1> QED BY <1>1, <1>7, <1>8, <1>9, <1>14

-----------------------------------------------------------------------------
\* Type correctness.

\* The variables a reconcile of a disk snapshot leaves alone, and the types of the others.
LEMMA DiskTypes ==
    ASSUME TypeOK, NEW s \in Disks, DiskReconcile(s)
    PROVE  TypeOK'
<1>1. /\ UNCHANGED <<cs, cv, ck, vm, asked, power>> /\ faults' \in 0 .. MaxFaults
      /\ \E o \in Outcomes : \E result \in CallResults(o.call), fin \in BOOLEAN :
           DiskEffect(s, o, result, fin)
  BY DiskStep
<1>0. PICK o \in Outcomes : \E result \in CallResults(o.call), fin \in BOOLEAN :
        DiskEffect(s, o, result, fin)
  BY <1>1
<1>2. PICK result \in CallResults(o.call), fin \in BOOLEAN : DiskEffect(s, o, result, fin)
  BY <1>0
<1>3. Asks(s, o) /\ CallInstance(o, result) /\ s \in Snaps
  BY <1>2, Zenon DEF DiskEffect, DiskDecides, Snaps
<1>4. kv' \in Instance \cup {None} /\ guest' \in BOOLEAN
  BY <1>3, Called
<1>5. vs' \in [Disks -> VolumeStates \cup {None}] /\ snap' \in [Snaps -> Object \cup {None}]
  BY <1>2 DEF DiskEffect, TypeOK, VolumeStates
<1> QED BY <1>1, <1>4, <1>5 DEF TypeOK

\* The same of a VM snapshot.
LEMMA MachineTypes ==
    ASSUME TypeOK, NEW s \in VSnaps, MachineReconcile(s)
    PROVE  TypeOK'
<1>1. /\ UNCHANGED <<cs, vs, cv, ck, vm, power>> /\ faults' \in 0 .. MaxFaults
      /\ \E o \in Outcomes : \E result \in CallResults(o.call), made \in SUBSET Own[s] :
           MachineEffect(s, o, result, made)
  BY MachineStep
<1>0. PICK o \in Outcomes : \E result \in CallResults(o.call), made \in SUBSET Own[s] :
        MachineEffect(s, o, result, made)
  BY <1>1, Zenon
<1>2. PICK result \in CallResults(o.call), made \in SUBSET Own[s] : MachineEffect(s, o, result, made)
  BY <1>0
<1>3. Asks(s, o) /\ CallInstance(o, result) /\ s \in Snaps
  BY <1>2, Zenon DEF MachineEffect, MachineDecides, Snaps
<1>4. kv' \in Instance \cup {None} /\ guest' \in BOOLEAN
  BY <1>3, Called, Zenon
<1>5. asked' \subseteq Snaps /\ snap' \in [Snaps -> Object \cup {None}]
  BY <1>2, Zenon DEF MachineEffect, TypeOK, Snaps
<1> QED BY <1>1, <1>4, <1>5 DEF TypeOK

\* Deletion marks a disk snapshot that has a finalizer, and removes another
\* together with its volume snapshot; nothing else changes.
Deletes(d) ==
  /\ snap[d] # None /\ ~snap[d].del
  /\ \/ snap'[d] = None /\ ~snap[d].fin /\ vs' = [vs EXCEPT ![d] = None]
     \/ /\ snap'[d] \in Object /\ snap'[d].phase = snap[d].phase /\ snap'[d].cons = snap[d].cons
        /\ snap'[d].del /\ snap'[d].fin /\ snap[d].fin /\ vs' = vs
  /\ snap' \in [Snaps -> Object \cup {None}] /\ \A x \in Snaps \ {d} : snap'[x] = snap[x]
  /\ UNCHANGED <<cs, cv, kv, ck, guest, vm, asked, power, faults>>

\* DeleteDisk and CollectOwned delete a disk snapshot.
LEMMA DeletesDisk ==
    ASSUME TypeOK, NEW d \in Disks, DeleteDisk(d) \/ \E v \in VSnaps : CollectOwned(v, d)
    PROVE  Deletes(d)
<1>1. /\ snap[d] # None /\ ~snap[d].del /\ snap' = [snap EXCEPT ![d] = Deleted(d)]
      /\ vs' = IF snap'[d] = None THEN [vs EXCEPT ![d] = None] ELSE vs
      /\ UNCHANGED <<cs, cv, kv, ck, guest, vm, asked, power, faults>>
  BY DEF DeleteDisk, CollectOwned
<1>2. snap \in [Snaps -> Object \cup {None}] /\ d \in Snaps
  BY DEF TypeOK, Snaps
<1>3. PICK b \in Object : b = snap[d]
  BY <1>1, <1>2
<1>4. CASE b.fin
  <2>1. Deleted(d) = [b EXCEPT !.del = TRUE]
    BY <1>1, <1>3, <1>4 DEF Deleted
  <2>2. PICK x \in Object : x = Deleted(d) /\ x.phase = b.phase /\ x.cons = b.cons /\ x.del /\ x.fin
    BY <1>4, <2>1, Zenon DEF Object
  <2>3. snap' = [snap EXCEPT ![d] = x] /\ x # None
    BY <1>1, <2>2, ObjectFields, Zenon
  <2>4. snap' \in [Snaps -> Object \cup {None}] /\ snap'[d] = x /\ \A y \in Snaps \ {d} : snap'[y] = snap[y]
    BY <1>2, <2>3
  <2> QED BY <1>1, <1>3, <1>4, <2>2, <2>3, <2>4, Zenon DEF Deletes
<1>5. CASE ~b.fin
  <2>1. Deleted(d) = None
    BY <1>3, <1>5 DEF Deleted
  <2>2. snap' \in [Snaps -> Object \cup {None}] /\ snap'[d] = None /\ \A y \in Snaps \ {d} : snap'[y] = snap[y]
    BY <1>1, <1>2, <2>1
  <2> QED BY <1>1, <1>3, <1>5, <2>2 DEF Deletes
<1> QED BY <1>4, <1>5

\* A VM snapshot goes, or is marked as deleted.
Drops(v) ==
  /\ snap[v] # None
  /\ \/ snap'[v] = None
     \/ /\ snap'[v] \in Object /\ snap'[v].phase = snap[v].phase /\ snap'[v].cons = snap[v].cons
        /\ snap'[v].del
  /\ snap' \in [Snaps -> Object \cup {None}] /\ \A x \in Snaps \ {v} : snap'[x] = snap[x]
  /\ UNCHANGED <<cs, vs, cv, kv, ck, guest, vm, asked, power, faults>>

\* DeleteMachine and CollectOwner do this.
LEMMA DropsMachine ==
    ASSUME TypeOK, NEW v \in VSnaps, DeleteMachine(v) \/ CollectOwner(v)
    PROVE  Drops(v)
<1>1. snap \in [Snaps -> Object \cup {None}] /\ v \in Snaps /\ snap[v] # None
      /\ UNCHANGED <<cs, vs, cv, kv, ck, guest, vm, asked, power, faults>>
  BY DEF TypeOK, Snaps, DeleteMachine, CollectOwner
<1>2. PICK b \in Object : b = snap[v]
  BY <1>1
<1>3. PICK x : x = [b EXCEPT !.del = TRUE, !.fin = TRUE]
  OBVIOUS
<1>7. x \in Object /\ x.phase = b.phase /\ x.cons = b.cons /\ x.del
  BY <1>3, Zenon DEF Object
<1>4. snap' = [snap EXCEPT ![v] = x] \/ snap' = [snap EXCEPT ![v] = None]
  BY <1>2, <1>3 DEF DeleteMachine, CollectOwner
<1>5. CASE snap' = [snap EXCEPT ![v] = x]
  <2>1. snap' \in [Snaps -> Object \cup {None}] /\ snap'[v] = x /\ \A y \in Snaps \ {v} : snap'[y] = snap[y]
    BY <1>1, <1>5, <1>7
  <2> QED BY <1>1, <1>2, <1>7, <2>1 DEF Drops
<1>6. CASE snap' = [snap EXCEPT ![v] = None]
  <2>1. snap' \in [Snaps -> Object \cup {None}] /\ snap'[v] = None /\ \A y \in Snaps \ {v} : snap'[y] = snap[y]
    BY <1>1, <1>6
  <2> QED BY <1>1, <2>1 DEF Drops
<1> QED BY <1>4, <1>5, <1>6

\* What the instance does by itself.
LEMMA InstanceTypes ==
    ASSUME TypeOK, Report \/ Stop \/ Start
    PROVE  TypeOK'
<1>1. power \in 0 .. MaxPower /\ MaxPower \in Nat /\ MaxVer \in Nat /\ kv \in Instance \cup {None}
  BY SnapshotAssumption DEF TypeOK
<1>2. CASE Report
  <2>1. kv \in Instance /\ kv.ver < MaxVer /\ guest \in BOOLEAN
    BY <1>1, <1>2 DEF Report, TypeOK
  <2>2. kv' = [kv EXCEPT !.fs = guest, !.ver = kv.ver + 1] /\ kv.ver + 1 \in 0 .. MaxVer
    BY <1>1, <1>2, <2>1, InstanceFields DEF Report
  <2>3. kv' \in Instance
    BY <2>1, <2>2, Zenon DEF Instance
  <2> QED BY <1>2, <2>3 DEF Report, TypeOK
<1>3. CASE Stop
  <2>1. power + 1 \in 0 .. MaxPower
    BY <1>1, <1>3 DEF Stop
  <2> QED BY <1>3, <2>1, Zenon DEF Stop, TypeOK
<1>4. CASE Start
  <2>1. NewInstance(power + 1) \in Instance /\ power + 1 \in 0 .. MaxPower
    BY <1>1, <1>4 DEF Start, NewInstance, Instance, Requests
  <2> QED BY <1>4, <2>1, Zenon DEF Start, TypeOK
<1> QED BY <1>2, <1>3, <1>4

\* Every step keeps the types.
LEMMA TypesKept ==
    ASSUME TypeOK, [Next]_vars
    PROVE  TypeOK'
<1>1. ASSUME NEW d \in Disks, DiskReconcile(d)
      PROVE  TypeOK'
  BY <1>1, DiskTypes
<1>2. ASSUME NEW v \in VSnaps, MachineReconcile(v)
      PROVE  TypeOK'
  BY <1>2, MachineTypes
<1>3. ASSUME NEW d \in Disks, DeleteDisk(d) \/ \E v \in VSnaps : CollectOwned(v, d)
      PROVE  TypeOK'
  <2>1. Deletes(d)
    BY <1>3, DeletesDisk
  <2> QED BY <2>1 DEF Deletes, TypeOK
<1>4. ASSUME NEW v \in VSnaps, DeleteMachine(v) \/ CollectOwner(v)
      PROVE  TypeOK'
  <2>1. Drops(v)
    BY <1>4, DropsMachine
  <2> QED BY <2>1 DEF Drops, TypeOK
<1>5. ASSUME NEW s \in DSnaps \cup VSnaps, Create(s)
      PROVE  TypeOK'
  <2>1. s \in Snaps
    BY DEF Snaps, Disks
  <2> QED BY <1>5, <2>1, NewFields DEF Create, TypeOK
<1>6. ASSUME NEW d \in Disks, TakeSnapshot(d) \/ SyncVolume(d)
      PROVE  TypeOK'
  <2>1. CASE TakeSnapshot(d)
    <3>1. /\ vs' \in [Disks -> VolumeStates \cup {None}] /\ faults' \in 0 .. MaxFaults
          /\ UNCHANGED <<snap, cs, cv, kv, ck, guest, vm, asked, power>>
      BY <2>1, SnapshotAssumption, SMTT(20), ZenonT(20), SMTT(40) DEF TakeSnapshot, TypeOK, VolumeStates
    <3> QED BY <3>1 DEF TypeOK
  <2>2. CASE SyncVolume(d)
    BY <2>2 DEF SyncVolume, TypeOK
  <2> QED BY <1>6, <2>1, <2>2
<1>7. ASSUME NEW s \in Snaps, SyncSnap(s)
      PROVE  TypeOK'
  BY <1>7 DEF SyncSnap, TypeOK
<1>8. CASE SyncVM \/ SyncInstance
  BY <1>8 DEF SyncVM, SyncInstance, TypeOK
<1>9. CASE UNCHANGED vars
  BY <1>9 DEF vars, TypeOK
<1> QED BY <1>1, <1>2, <1>3, <1>4, <1>5, <1>6, <1>7, <1>8, <1>9, InstanceTypes DEF Next

\* The variables keep their types: whatever fails, is deleted or lags.
THEOREM TypeCorrect == Spec => []TypeOK
<1>1. Init => TypeOK
  <2> SUFFICES ASSUME Init
               PROVE  TypeOK
    OBVIOUS
  <2>1. NewInstance(0) \in Instance
    BY SnapshotAssumption DEF NewInstance, Instance, Requests
  <2>2. kv \in Instance \cup {None} /\ vm \in {"Running", "Stopped"}
    BY <2>1 DEF Init
  <2>3. power \in 0 .. MaxPower /\ faults \in 0 .. MaxFaults
    BY SnapshotAssumption DEF Init
  <2> QED BY <2>2, <2>3, Zenon DEF Init, TypeOK
<1> QED BY <1>1, TypesKept, PTL DEF Spec

-----------------------------------------------------------------------------
\* What holds however far the caches lag.

\* each name is created once
Named ==
  /\ \A s \in Snaps \ asked : snap[s] = None /\ cs[s] = None
  /\ \A d \in Disks \ asked : vs[d] = None /\ cv[d] = None

\* a volume snapshot goes with its disk snapshot, and changes no more once taken
Volumes ==
  /\ \A s \in Snaps : cs[s] # None /\ cs[s].del => snap[s] = None \/ snap[s].del
  /\ \A d \in Disks : snap[d] = None => vs[d] = None
  /\ \A d \in Disks : cv[d] \in {"clean", "dirty", "error"} =>
       vs[d] = cv[d] \/ snap[d] = None \/ snap[d].del

Ready(x) == x # None /\ x.phase = "Ready"

\* who is Ready met what is required, in the caches as well
Met ==
  /\ \A s \in Snaps : RequiredConsistency(s) =>
       (Ready(snap[s]) => snap[s].cons) /\ (Ready(cs[s]) => cs[s].cons)
  /\ \A d \in Disks : Ready(snap[d]) /\ ~snap[d].del => vs[d] \in {"clean", "dirty"}

\* only what is deleted is Terminating
Ended ==
  \A s \in Snaps : /\ snap[s] # None /\ snap[s].phase = "Terminating" => snap[s].del
                   /\ cs[s] # None /\ cs[s].phase = "Terminating" => cs[s].del

RInv == Named /\ Volumes /\ Met /\ Ended

-----------------------------------------------------------------------------
\* Required consistency, however far the caches lag.

\* the written object x of s: deleted as the object was, and its status is the old
\* one or, when the copy was current, the new one
SavedAs(x, s, phase, cons) ==
  /\ snap[s] # None /\ (cs[s].del => x.del) /\ (x.del <=> snap[s].del)
  /\ \/ x.phase = snap[s].phase /\ x.cons = snap[s].cons
     \/ cs[s] = snap[s] /\ x.phase = phase /\ x.cons = cons

\* What Resource.Update leaves of an object.
LEMMA SavedFields ==
    ASSUME TypeOK, RInv, NEW s \in Snaps, cs[s] # None, NEW phase, NEW cons, NEW fin,
           NEW x \in Object \cup {None}, Saved(x, s, cs[s], phase, cons, fin), x # None
    PROVE  SavedAs(x, s, phase, cons)
BY ObjectFields, Zenon DEF Saved, SavedAs, RInv, Volumes

\* A reconcile of a disk snapshot keeps it.
LEMMA DiskRequired ==
    ASSUME TypeOK, RInv, NEW s \in Disks, DiskReconcile(s)
    PROVE  RInv'
<1>1. /\ UNCHANGED <<cs, cv, ck, vm, asked, power>> /\ cs[s] # None
      /\ \E o \in Outcomes : \E result \in CallResults(o.call), fin \in BOOLEAN :
           DiskEffect(s, o, result, fin)
  BY DiskStep
<1>0. PICK o \in Outcomes : \E result \in CallResults(o.call), fin \in BOOLEAN :
        DiskEffect(s, o, result, fin)
  BY <1>1
<1>2. PICK result \in CallResults(o.call), fin \in BOOLEAN : DiskEffect(s, o, result, fin)
  BY <1>0
<1>3. /\ snap' \in [Snaps -> Object \cup {None}]
      /\ \A x \in Snaps \ {s} : snap'[x] = snap[x]
      /\ Saved(snap'[s], s, cs[s], o.phase, o.cons, fin)
      /\ vs'[s] = IF snap'[s] = None \/ (cs[s].del /\ cv[s] # None) THEN None
                  ELSE IF o.call = "create" /\ vs[s] = None THEN "new" ELSE vs[s]
      /\ \A d \in Disks \ {s} : vs'[d] = vs[d]
      /\ s \in Snaps /\ Disks \subseteq Snaps
  BY <1>2, Zenon DEF DiskEffect, TypeOK, Snaps
<1>4. s \in asked
  BY <1>1, <1>3, Zenon DEF RInv, Named
<1>5. snap'[s] # None =>
        /\ snap[s] # None /\ (cs[s].del => snap'[s].del) /\ (snap'[s].del <=> snap[s].del)
        /\ \/ snap'[s].phase = snap[s].phase /\ snap'[s].cons = snap[s].cons
           \/ cs[s] = snap[s] /\ snap'[s].phase = o.phase /\ snap'[s].cons = o.cons
  <2>1. snap'[s] \in Object \cup {None}
    BY <1>3, Zenon
  <2>2. snap'[s] # None => SavedAs(snap'[s], s, o.phase, o.cons)
    BY <1>1, <1>3, <2>1, SavedFields, Zenon
  <2> QED BY <2>2, Zenon DEF SavedAs
<1>6. Named'
  BY <1>1, <1>3, <1>4, Zenon DEF RInv, Named
<1>7. /\ o.call = "create" => cv[s] = None
      /\ o.cons = cs[s].cons \/ (o.cons /\ cs[s].phase # "Ready")
      /\ o.phase = "Ready" /\ cs[s].phase # "Ready" =>
           /\ ~cs[s].del /\ cv[s] \in {"clean", "dirty"} /\ o.cons = cs[s].cons
           /\ RequiredConsistency(s) => cs[s].cons
      /\ o.phase = "Terminating" => cs[s].del \/ cs[s].phase = "Terminating"
  BY <1>2, Zenon DEF DiskEffect, DiskDecides
<1>8. Volumes'
  <2>1. \A x \in Snaps : cs[x] # None /\ cs[x].del => snap'[x] = None \/ snap'[x].del
    BY <1>3, <1>5, Zenon DEF RInv, Volumes
  <2>2. \A d \in Disks : snap'[d] = None => vs'[d] = None
    BY <1>3, Zenon DEF RInv, Volumes
  <2>3. cv[s] \in {"clean", "dirty", "error"} => vs'[s] = cv[s] \/ snap'[s] = None \/ snap'[s].del
    BY <1>3, <1>5, <1>7, NoneAssumption, Zenon DEF RInv, Volumes, VolumeStates
  <2>4. \A d \in Disks : cv[d] \in {"clean", "dirty", "error"} =>
          vs'[d] = cv[d] \/ snap'[d] = None \/ snap'[d].del
    BY <1>3, <2>3, Zenon DEF RInv, Volumes
  <2> QED BY <1>1, <2>1, <2>2, <2>4, Zenon DEF Volumes
<1>9. Met'
  <2>1. RequiredConsistency(s) /\ Ready(snap'[s]) => snap'[s].cons
    BY <1>1, <1>5, <1>7, Zenon DEF RInv, Met, Ready, Snaps
  <2>2. Ready(snap'[s]) /\ ~snap'[s].del => vs'[s] \in {"clean", "dirty"}
    <3> SUFFICES ASSUME snap'[s] # None, snap'[s].phase = "Ready", ~snap'[s].del
                 PROVE  vs'[s] \in {"clean", "dirty"}
      BY DEF Ready
    <3>1. snap[s] # None /\ ~snap[s].del /\ ~cs[s].del
      BY <1>5, Zenon
    <3>2. CASE snap[s].phase = "Ready"
      <4>1. vs[s] \in {"clean", "dirty"}
        BY <3>1, <3>2, Zenon DEF RInv, Met, Ready
      <4> QED BY <1>3, <3>1, <4>1, NoneAssumption, Zenon DEF VolumeStates
    <3>3. CASE snap[s].phase # "Ready"
      <4>1. cs[s] = snap[s] /\ o.phase = "Ready"
        BY <1>5, <3>3, Zenon
      <4>2. cv[s] \in {"clean", "dirty"}
        BY <1>7, <3>3, <4>1, Zenon
      <4>3. vs[s] = cv[s]
        BY <3>1, <4>2 DEF RInv, Volumes
      <4> QED BY <1>3, <3>1, <4>2, <4>3, NoneAssumption, Zenon DEF VolumeStates
    <3> QED BY <3>2, <3>3, Zenon
  <2>3. \A x \in Snaps : RequiredConsistency(x) => (Ready(snap'[x]) => snap'[x].cons)
    BY <1>3, <2>1, Zenon DEF RInv, Met
  <2>4. \A d \in Disks : Ready(snap'[d]) /\ ~snap'[d].del => vs'[d] \in {"clean", "dirty"}
    BY <1>3, <2>2, Zenon DEF RInv, Met
  <2> QED BY <1>1, <2>3, <2>4, Zenon DEF RInv, Met, Ready, RequiredConsistency
<1>10. Ended'
  <2>1. snap'[s] # None /\ snap'[s].phase = "Terminating" => snap'[s].del
    BY <1>1, <1>3, <1>5, <1>7, Zenon DEF RInv, Ended
  <2> QED BY <1>1, <1>3, <2>1, Zenon DEF RInv, Ended
<1> QED BY <1>6, <1>8, <1>9, <1>10 DEF RInv

\* A reconcile of a VM snapshot keeps it: a VM snapshot that becomes Ready has
\* found its disk snapshots Ready, which are as consistent as it requires.
LEMMA MachineRequired ==
    ASSUME TypeOK, RInv, NEW s \in VSnaps, MachineReconcile(s)
    PROVE  RInv'
<1>1. /\ UNCHANGED <<cs, vs, cv, ck, vm, power>> /\ cs[s] # None
      /\ \E o \in Outcomes : \E result \in CallResults(o.call), made \in SUBSET Own[s] :
           MachineEffect(s, o, result, made)
  BY MachineStep, Zenon
<1>0. PICK o \in Outcomes : \E result \in CallResults(o.call), made \in SUBSET Own[s] :
        MachineEffect(s, o, result, made)
  BY <1>1, Zenon
<1>2. PICK result \in CallResults(o.call), made \in SUBSET Own[s] : MachineEffect(s, o, result, made)
  BY <1>0, Zenon
<1>3. /\ snap' \in [Snaps -> Object \cup {None}]
      /\ \A x \in Snaps \ ({s} \cup made) : snap'[x] = snap[x]
      /\ \A x \in made : snap'[x] = NewObject
      /\ Saved(snap'[s], s, cs[s], AfterCall(o, result), o.cons, cs[s].fin)
      /\ made \subseteq Disks /\ made \cap asked = {} /\ asked' = asked \cup made
      /\ s \in Snaps /\ s \notin Disks /\ Disks \subseteq Snaps
  BY <1>2, Owned, Zenon DEF MachineEffect, Snaps
<1>4. s \in asked
  BY <1>1, <1>3, Zenon DEF RInv, Named
<1>5. snap'[s] # None =>
        /\ snap[s] # None /\ (cs[s].del => snap'[s].del) /\ (snap'[s].del <=> snap[s].del)
        /\ \/ snap'[s].phase = snap[s].phase /\ snap'[s].cons = snap[s].cons
           \/ cs[s] = snap[s] /\ snap'[s].phase = AfterCall(o, result) /\ snap'[s].cons = o.cons
  <2>1. snap'[s] \in Object \cup {None} /\ s \in Snaps /\ cs[s] # None
    BY <1>1, <1>3, Zenon
  <2>2. Saved(snap'[s], s, cs[s], AfterCall(o, result), o.cons, cs[s].fin)
    BY <1>3, Zenon
  <2>3. snap'[s] # None => SavedAs(snap'[s], s, AfterCall(o, result), o.cons)
    BY <2>1, <2>2, SavedFields, Zenon
  <2> QED BY <2>3, Zenon DEF SavedAs
<1>6. \A x \in made : cs[x] = None /\ cv[x] = None /\ vs[x] = None /\ snap[x] = None
  BY <1>3, Zenon DEF RInv, Named
<1>7. Named'
  BY <1>1, <1>3, <1>4, Zenon DEF RInv, Named
<1>8. Volumes'
  <2>1. \A x \in Snaps : cs[x] # None /\ cs[x].del => snap'[x] = None \/ snap'[x].del
    BY <1>3, <1>5, <1>6, Zenon DEF RInv, Volumes
  <2>2. \A d \in Disks : snap'[d] = None => vs[d] = None
    BY <1>3, <1>6, Zenon DEF RInv, Volumes
  <2>3. \A d \in Disks : cv[d] \in {"clean", "dirty", "error"} =>
          vs[d] = cv[d] \/ snap'[d] = None \/ snap'[d].del
    BY <1>3, <1>6, NoneAssumption, Zenon DEF RInv, Volumes, VolumeStates
  <2> QED BY <1>1, <2>1, <2>2, <2>3, Zenon DEF Volumes
<1>9. /\ AfterCall(o, result) = "Ready" => o.phase = "Ready"
      /\ AfterCall(o, result) = "Terminating" => o.phase = "Terminating"
  BY DEF AfterCall
<1>10. Met'
  <2>1. RequiredConsistency(s) /\ Ready(snap'[s]) => snap'[s].cons
    <3> SUFFICES ASSUME RequiredConsistency(s), snap'[s] # None, snap'[s].phase = "Ready"
                 PROVE  snap'[s].cons
      BY Zenon DEF Ready
    <3>1. CASE snap'[s].phase = snap[s].phase /\ snap'[s].cons = snap[s].cons
      BY <1>3, <1>5, <3>1, Zenon DEF RInv, Met, Ready
    <3>2. CASE cs[s] = snap[s] /\ snap'[s].phase = AfterCall(o, result) /\ snap'[s].cons = o.cons
      <4>1. o.phase = "Ready"
        BY <1>9, <3>2
      <4>2. CASE cs[s].phase = "Ready"
        BY <1>1, <1>2, <1>3, <3>2, <4>2, Zenon DEF RInv, Met, Ready, MachineEffect, MachineDecides
      <4>3. CASE cs[s].phase # "Ready"
        <5>1. /\ \A d \in Own[s] : cs[d] # None /\ cs[d].phase = "Ready"
              /\ o.cons = \A d \in Own[s] : cs[d].cons
          BY <1>2, <4>1, <4>3, Zenon DEF MachineEffect, MachineDecides
        <5>2. \A d \in Own[s] : d \in Snaps /\ RequiredConsistency(d)
          BY Owned, Zenon
        <5>3. \A d \in Own[s] : cs[d].cons
          BY <5>1, <5>2, Zenon DEF RInv, Met, Ready
        <5> QED BY <3>2, <5>1, <5>3, Zenon
      <4> QED BY <4>2, <4>3, Zenon
    <3> QED BY <1>5, <3>1, <3>2, Zenon
  <2>2. \A x \in Snaps : RequiredConsistency(x) => (Ready(snap'[x]) => snap'[x].cons)
    BY <1>3, <2>1, NewFields, Zenon DEF RInv, Met, Ready
  <2>3. \A d \in Disks : Ready(snap'[d]) /\ ~snap'[d].del => vs[d] \in {"clean", "dirty"}
    BY <1>3, NewFields, Zenon DEF RInv, Met, Ready
  <2> QED BY <1>1, <2>2, <2>3, Zenon DEF RInv, Met, Ready, RequiredConsistency
<1>11. Ended'
  <2>1. snap'[s] # None /\ snap'[s].phase = "Terminating" => snap'[s].del
    BY <1>1, <1>2, <1>3, <1>5, <1>9, Zenon DEF RInv, Ended, MachineEffect, MachineDecides
  <2> QED BY <1>1, <1>3, <2>1, NewFields, Zenon DEF RInv, Ended
<1> QED BY <1>7, <1>8, <1>10, <1>11, Zenon DEF RInv

\* Deletion keeps it.
LEMMA DeletionRequired ==
    ASSUME TypeOK, RInv, NEW d \in Disks, Deletes(d)
    PROVE  RInv'
<1>1. /\ snap[d] # None /\ ~snap[d].del
      /\ \/ snap'[d] = None /\ vs' = [vs EXCEPT ![d] = None]
         \/ /\ snap'[d] \in Object /\ snap'[d].phase = snap[d].phase /\ snap'[d].cons = snap[d].cons
            /\ snap'[d].del /\ vs' = vs
      /\ \A x \in Snaps \ {d} : snap'[x] = snap[x]
      /\ UNCHANGED <<cs, cv, asked>>
      /\ d \in Snaps /\ Disks \subseteq Snaps
  BY DEF Deletes, Snaps
<1>2. \A e \in Disks \ {d} : vs'[e] = vs[e]
  BY <1>1 DEF TypeOK
<1>3. vs'[d] = (IF snap'[d] = None THEN None ELSE vs[d])
  BY <1>1, ObjectFields, Zenon DEF TypeOK
<1>4. Named'
  BY <1>1, <1>2, <1>3, SMTT(20), ZenonT(20), SMTT(40) DEF RInv, Named
<1>5. Volumes'
  BY <1>1, <1>2, <1>3, Zenon DEF RInv, Volumes
<1>6. Met'
  BY <1>1, <1>2, <1>3, SMTT(20), ZenonT(20), SMTT(40) DEF RInv, Met, Ready, RequiredConsistency
<1>7. Ended'
  BY <1>1, Zenon DEF RInv, Ended
<1> QED BY <1>4, <1>5, <1>6, <1>7 DEF RInv

\* Deletion of a VM snapshot keeps it.
LEMMA DropRequired ==
    ASSUME TypeOK, RInv, NEW v \in VSnaps, Drops(v)
    PROVE  RInv'
<1>1. /\ snap[v] # None
      /\ \/ snap'[v] = None
         \/ /\ snap'[v] \in Object /\ snap'[v].phase = snap[v].phase /\ snap'[v].cons = snap[v].cons
            /\ snap'[v].del
      /\ \A x \in Snaps \ {v} : snap'[x] = snap[x]
      /\ UNCHANGED <<cs, vs, cv, asked>>
      /\ v \in Snaps /\ v \notin Disks /\ Disks \subseteq Snaps
  BY Owned, Zenon DEF Drops, Snaps
<1>2. Named'
  BY <1>1, Zenon DEF RInv, Named
<1>3. Volumes'
  BY <1>1, Zenon DEF RInv, Volumes
<1>4. Met'
  BY <1>1, Zenon DEF RInv, Met, Ready, RequiredConsistency
<1>5. Ended'
  BY <1>1, Zenon DEF RInv, Ended
<1> QED BY <1>2, <1>3, <1>4, <1>5 DEF RInv

\* A user's new snapshot keeps it.
LEMMA CreateRequired ==
    ASSUME TypeOK, RInv, NEW s \in DSnaps \cup VSnaps, Create(s)
    PROVE  RInv'
<1>1. /\ s \notin asked /\ asked' = asked \cup {s} /\ snap'[s] = NewObject
      /\ \A x \in Snaps \ {s} : snap'[x] = snap[x]
      /\ UNCHANGED <<cs, vs, cv>>
      /\ s \in Snaps /\ Disks \subseteq Snaps
  BY Zenon DEF Create, TypeOK, Snaps, Disks
<1>2. cs[s] = None /\ snap[s] = None /\ (s \in Disks => vs[s] = None /\ cv[s] = None)
  BY <1>1, Zenon DEF RInv, Named
<1>3. Named'
  BY <1>1, Zenon DEF RInv, Named
<1>4. Volumes'
  BY <1>1, <1>2, NewFields, NoneAssumption, Zenon DEF RInv, Volumes, VolumeStates
<1>5. Met'
  BY <1>1, <1>2, NewFields, Zenon DEF RInv, Met, Ready, RequiredConsistency
<1>6. Ended'
  BY <1>1, NewFields, Zenon DEF RInv, Ended
<1> QED BY <1>3, <1>4, <1>5, <1>6 DEF RInv

\* The CSI driver and the caches keep it.
LEMMA CacheRequired ==
    ASSUME TypeOK, RInv,
           \/ \E d \in Disks : TakeSnapshot(d) \/ SyncVolume(d)
           \/ \E s \in Snaps : SyncSnap(s)
    PROVE  RInv'
<1>1. ASSUME NEW d \in Disks, TakeSnapshot(d)
      PROVE  RInv'
  <2>1. /\ vs[d] = "new" /\ vs'[d] \in {"clean", "dirty", "error"}
        /\ \A e \in Disks \ {d} : vs'[e] = vs[e]
        /\ UNCHANGED <<snap, cs, cv, asked>>
    BY <1>1 DEF TakeSnapshot, TypeOK
  <2>2. vs[d] # None
    BY <2>1, NoneAssumption, Zenon DEF VolumeStates
  <2>3. Named'
    BY <2>1, <2>2, Zenon DEF RInv, Named
  <2>4. Volumes'
    BY <2>1, <2>2, Zenon DEF RInv, Volumes
  <2>5. Met'
    BY <2>1, Zenon DEF RInv, Met, Ready, RequiredConsistency
  <2>6. Ended'
    BY <2>1, Zenon DEF RInv, Ended
  <2> QED BY <2>3, <2>4, <2>5, <2>6 DEF RInv
<1>2. ASSUME NEW d \in Disks, SyncVolume(d)
      PROVE  RInv'
  <2>1. /\ cv'[d] = vs[d] /\ \A e \in Disks \ {d} : cv'[e] = cv[e]
        /\ UNCHANGED <<snap, cs, vs, asked>>
    BY <1>2 DEF SyncVolume, TypeOK
  <2>2. Named' /\ Volumes'
    BY <2>1, Zenon DEF RInv, Named, Volumes
  <2>3. Met' /\ Ended'
    BY <2>1, Zenon DEF RInv, Met, Ready, RequiredConsistency, Ended
  <2> QED BY <2>2, <2>3 DEF RInv
<1>3. ASSUME NEW s \in Snaps, SyncSnap(s)
      PROVE  RInv'
  <2>1. /\ cs'[s] = snap[s] /\ \A x \in Snaps \ {s} : cs'[x] = cs[x]
        /\ UNCHANGED <<snap, vs, cv, asked>>
    BY <1>3 DEF SyncSnap, TypeOK
  <2>2. Named'
    BY <2>1, Zenon DEF RInv, Named
  <2>3. Volumes'
    BY <2>1, Zenon DEF RInv, Volumes
  <2>4. Met' /\ Ended'
    BY <2>1, Zenon DEF RInv, Met, Ready, RequiredConsistency, Ended
  <2> QED BY <2>2, <2>3, <2>4 DEF RInv
<1> QED BY <1>1, <1>2, <1>3

\* What concerns neither snapshots nor their copies.
LEMMA OtherRequired ==
    ASSUME RInv, UNCHANGED <<snap, cs, vs, cv, asked>>
    PROVE  RInv'
<1>1. Named' /\ Volumes'
  BY Zenon DEF RInv, Named, Volumes
<1>2. Met' /\ Ended'
  BY Zenon DEF RInv, Met, Ready, RequiredConsistency, Ended
<1> QED BY <1>1, <1>2 DEF RInv

\* Every step keeps it.
LEMMA RequiredKept ==
    ASSUME TypeOK, RInv, [Next]_vars
    PROVE  RInv'
<1>1. ASSUME NEW d \in Disks, DiskReconcile(d)
      PROVE  RInv'
  BY <1>1, DiskRequired
<1>2. ASSUME NEW v \in VSnaps, MachineReconcile(v)
      PROVE  RInv'
  BY <1>2, MachineRequired
<1>3. ASSUME NEW d \in Disks, DeleteDisk(d) \/ \E v \in VSnaps : CollectOwned(v, d)
      PROVE  RInv'
  BY <1>3, DeletesDisk, DeletionRequired
<1>4. ASSUME NEW v \in VSnaps, DeleteMachine(v) \/ CollectOwner(v)
      PROVE  RInv'
  BY <1>4, DropsMachine, DropRequired
<1>5. ASSUME NEW s \in DSnaps \cup VSnaps, Create(s)
      PROVE  RInv'
  BY <1>5, CreateRequired
<1>6. ASSUME \/ \E d \in Disks : TakeSnapshot(d) \/ SyncVolume(d)
             \/ \E s \in Snaps : SyncSnap(s)
      PROVE  RInv'
  BY <1>6, CacheRequired
<1>7. CASE Report \/ Stop \/ Start \/ SyncVM \/ SyncInstance \/ UNCHANGED vars
  BY <1>7, OtherRequired DEF Report, Stop, Start, SyncVM, SyncInstance, vars
<1> QED BY <1>1, <1>2, <1>3, <1>4, <1>5, <1>6, <1>7 DEF Next

\* Init establishes it.
LEMMA InitRequired ==
    ASSUME Init
    PROVE  RInv
<1>1. /\ \A s \in Snaps : snap[s] = None /\ cs[s] = None
      /\ \A d \in Disks : vs[d] = None /\ cv[d] = None
  BY DEF Init
<1>2. Named /\ Volumes
  BY <1>1, NoneAssumption DEF Named, Volumes, VolumeStates, Snaps
<1>3. Met /\ Ended
  BY <1>1 DEF Met, Ready, Ended, Snaps
<1> QED BY <1>2, <1>3 DEF RInv

\* The inductive invariant, with the types.
THEOREM Requirements == Spec => [](TypeOK /\ RInv)
<1>1. Init => RInv
  BY InitRequired
<1>2. TypeOK /\ RInv /\ [Next]_vars => RInv'
  BY RequiredKept
<1> QED BY <1>1, <1>2, TypeCorrect, PTL DEF Spec

\* A Ready snapshot with requiredConsistency reports itself consistent and has
\* its volume snapshots, even when the controllers decide on old copies.
THEOREM RequiredHolds == Spec => []RequiredIsConsistent
<1>1. TypeOK /\ RInv => RequiredIsConsistent
  BY Zenon DEF RInv, Met, Ready, RequiredIsConsistent
<1> QED BY <1>1, Requirements, PTL

=============================================================================
