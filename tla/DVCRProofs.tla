----------------------------- MODULE DVCRProofs -----------------------------
(* The garbage collection of the registry spares the images in use, and no  *)
(* collection is forgotten before its outcome is reported, for any number   *)
(* of images, creations, schedules and failures.                            *)
EXTENDS DVCR, TLAPS

-----------------------------------------------------------------------------
(* The invariant.                                                           *)

\* reasons from which an image whose data is in the registry is found Ready
Stored == {"Ready", "ImageLost"}

\* the cleaner is at work in a read-only registry only
ReadOnly == cleaner # "off" => mode = "ro"

\* the importer pod goes with its image
PodsOwned == \A i \in Images : img[i] = None => pod[i] = None

\* an image without a result: neither its object nor the cached copy says that it was
\* ever stored, and its importer has not completed
Empty(i) ==
    /\ img[i].reason \notin Stored /\ pod[i] # "complete"
    /\ ci[i] # None => ci[i].reason \notin Stored

\* what the cleaner is about to remove does not belong to an image with a result, also
\* when an image of that name has been created since the cluster was listed
RemovesUnused ==
    cleaner = "remove" => \A i \in found : img[i] # None => Empty(i)

IInv == TypeOK /\ ReadOnly /\ PodsOwned /\ RemovesUnused /\ ReadyIsStored

-----------------------------------------------------------------------------
(* Types.                                                                   *)

\* A failure happens only while there is one left.
LEMMA MayType ==
    ASSUME TypeOK, NEW kind, NEW b \in May(kind)
    PROVE  b \in BOOLEAN /\ faults + Cost(b) \in 0..MaxFaults
<1>1. b \in BOOLEAN /\ (b => faults < MaxFaults)
  BY Zenon DEF May
<1>2. faults \in Nat /\ MaxFaults \in Nat /\ faults <= MaxFaults
  BY DVCRAssumption DEF TypeOK
<1>3. CASE b
  BY <1>1, <1>2, <1>3 DEF Cost
<1>4. CASE ~b
  BY <1>1, <1>2, <1>4 DEF Cost
<1> QED BY <1>3, <1>4

\* The fields of the objects have their types.
LEMMA SecretFields ==
    ASSUME NEW s \in Secrets
    PROVE  /\ s.st \in {"initiated", "started", "done"} /\ s.result \in Results \cup {None}
           /\ s.n \in Nat /\ s.born \in Nat
BY DEF Secrets

LEMMA ImageFields ==
    ASSUME NEW x \in ImageObjects
    PROVE  x.reason \in Reasons /\ x.del \in BOOLEAN /\ x.fin \in BOOLEAN
BY DEF ImageObjects

LEMMA ImageChanges ==
    ASSUME NEW x \in ImageObjects, NEW r \in Reasons, NEW b \in BOOLEAN
    PROVE  /\ [x EXCEPT !.reason = r] \in ImageObjects
           /\ [x EXCEPT !.reason = r].reason = r
           /\ [x EXCEPT !.reason = r].del = x.del
           /\ [x EXCEPT !.fin = b] \in ImageObjects
           /\ [x EXCEPT !.fin = b].reason = x.reason
           /\ [x EXCEPT !.fin = b].del = x.del
           /\ [x EXCEPT !.del = b] \in ImageObjects
           /\ [x EXCEPT !.del = b].reason = x.reason
BY DEF ImageObjects

LEMMA Types ==
    ASSUME TypeOK
    PROVE  /\ secret \in Secrets \cup {None} /\ csec \in Secrets \cup {None}
           /\ dep \in Deployments /\ cdep \in Deployments
           /\ epoch \in Nat /\ expired \in Nat
           /\ img \in [Images -> ImageObjects \cup {None}] /\ ci \in [Images -> ImageObjects \cup {None}]
           /\ awake \subseteq Images /\ source \subseteq Images /\ reg \subseteq Images /\ found \subseteq Images
BY DEF TypeOK

\* What is written to the Deployment is a Deployment.
LEMMA ReportType ==
    ASSUME TypeOK, NEW reason \in {"InProgress", "Completed", "Error"}, NEW ann \in Results \cup {None}
    PROVE  /\ UpdateGarbageCollectionCondition(reason) \in Deployments
           /\ [UpdateGarbageCollectionCondition(reason) EXCEPT !.ann = ann] \in Deployments
BY Types, Zenon DEF UpdateGarbageCollectionCondition, Deployments

LEMMA InitiateType ==
    ASSUME TypeOK
    PROVE  InitiateGarbageCollectionMode \in Secrets /\ CreateGarbageCollectionSecret \in Secrets
<1>1. CreateGarbageCollectionSecret \in Secrets
  BY Types DEF CreateGarbageCollectionSecret, Secrets
<1>2. secret # None => secret.born \in Nat
  BY Types, SecretFields
<1> QED BY <1>1, <1>2, Types DEF InitiateGarbageCollectionMode, Secrets

LEMMA CronType == ASSUME TypeOK, CronReconcile PROVE TypeOK'
<1>1. PICK lost \in May("deploy") :
        /\ UpdateDeployment(UpdateGarbageCollectionCondition("InProgress"), lost)
        /\ secret' = IF csec = secret THEN InitiateGarbageCollectionMode ELSE secret
        /\ epoch' = IF csec = secret THEN epoch + 1 ELSE epoch
        /\ due' = (csec # secret \/ cdep # dep \/ lost)
        /\ faults' = faults + Cost(lost)
  BY DEF CronReconcile
<1>2. faults' \in 0..MaxFaults /\ lost \in BOOLEAN
  BY <1>1, MayType
<1>3. dep' \in Deployments
  BY <1>1, ReportType, Types, Zenon DEF UpdateDeployment
<1>4. secret' \in Secrets \cup {None} /\ epoch' \in Nat
  BY <1>1, InitiateType, Types
<1>5. due' \in BOOLEAN
  BY <1>1, <1>2
<1> QED BY <1>2, <1>3, <1>4, <1>5 DEF TypeOK, CronReconcile, objects, registry

LEMMA SecretReconcileEffect ==
    ASSUME TypeOK, SecretReconcile
    PROVE  /\ secret' \in Secrets \cup {None} /\ dep' \in Deployments /\ faults' \in 0..MaxFaults
<1>1. csec \in Secrets /\ csec # None /\ (csec = secret => secret \in Secrets)
  BY Types DEF SecretReconcile
<1>2. PICK lost \in May("deploy") :
        /\ faults' = faults + Cost(lost)
        /\ IF IsGarbageCollectionDone(csec)
           THEN Finish(ParseGarbageCollectionResult(csec), csec.result, lost)
           ELSE IF ~IsGarbageCollectionStarted(csec) /\ ListAllInProvisioning = {}
           THEN SwitchToGarbageCollectionMode(lost)
           ELSE IF csec.born <= expired
           THEN Finish("Error", None, lost)
           ELSE /\ UpdateDeployment(UpdateGarbageCollectionCondition("InProgress"), lost)
                /\ UNCHANGED secret
  BY DEF SecretReconcile
<1>3. faults' \in 0..MaxFaults
  BY <1>2, MayType
<1>4. ASSUME NEW r \in {"Completed", "Error"}, NEW a \in Results \cup {None}, Finish(r, a, lost)
      PROVE  secret' \in Secrets \cup {None} /\ dep' \in Deployments
  BY <1>4, ReportType, Types DEF Finish, UpdateDeployment
<1>5. ASSUME SwitchToGarbageCollectionMode(lost)
      PROVE  secret' \in Secrets \cup {None} /\ dep' \in Deployments
  <2>1. csec = secret => [secret EXCEPT !.st = "started"] \in Secrets
    BY <1>1 DEF Secrets
  <2> QED BY <1>5, <2>1, ReportType, Types, Zenon DEF SwitchToGarbageCollectionMode, UpdateDeployment
<1>6. ParseGarbageCollectionResult(csec) \in {"Completed", "Error"} /\ csec.result \in Results \cup {None}
  BY <1>1, SecretFields DEF ParseGarbageCollectionResult
<1>7. ASSUME UpdateDeployment(UpdateGarbageCollectionCondition("InProgress"), lost), UNCHANGED secret
      PROVE  secret' \in Secrets \cup {None} /\ dep' \in Deployments
  BY <1>7, ReportType, Types, Zenon DEF UpdateDeployment
<1> QED BY <1>2, <1>3, <1>4, <1>5, <1>6, <1>7, Zenon

LEMMA SecretReconcileType == ASSUME TypeOK, SecretReconcile PROVE TypeOK'
BY SecretReconcileEffect, Types DEF TypeOK, SecretReconcile, objects, registry

\* What the reconcile of an image decides is a reason of the Ready condition.
LEMMA LifeCycleType ==
    ASSUME TypeOK, NEW i \in Images, NEW c \in ImageObjects
    PROVE  /\ LifeCycle(i, c).reason \in Reasons
           /\ ImagePresence(i, c, LifeCycle(i, c).reason) \in Reasons
           /\ KeepsFinalizer(i, c) \in BOOLEAN
<1>1. ReadyReason(c) \in Reasons
  BY ImageFields DEF ReadyReason, Reasons
<1>2. pod[i] \in Pods \cup {None}
  BY DEF TypeOK
<1>3. ASSUME pod[i] # None, pod[i] # "complete" PROVE CheckPod(pod[i]).reason \in Reasons
  BY <1>2, <1>3 DEF Pods, CheckPod, Outcome, Reasons
<1>4. Sync(i, ReadyReason(c)).reason \in Reasons
  BY <1>3 DEF Sync, Outcome, Reasons
<1>5. LifeCycle(i, c).reason \in Reasons
  BY <1>1, <1>4 DEF LifeCycle, Outcome, Reasons
<1>6. ASSUME NEW r \in Reasons PROVE ImagePresence(i, c, r) \in Reasons
  BY DEF ImagePresence, Reasons
<1> QED BY <1>5, <1>6 DEF KeepsFinalizer

\* What Resource.Update makes of an image: it is left alone, or keeps its deletion mark and
\* has the new reason or, when the reason is that of the copy, its own; it may also go, when
\* its copy is marked deleted and no pod is left.
LEMMA UpdateEffect ==
    ASSUME TypeOK, NEW i \in Images, NEW c \in ImageObjects, NEW reason \in Reasons,
           NEW fin \in BOOLEAN, NEW lost \in BOOLEAN
    PROVE  LET x == Update(i, c, reason, fin, lost) IN
           \/ x = img[i]
           \/ x = None /\ ~fin /\ c.fin
           \/ /\ img[i] # None /\ x \in ImageObjects /\ x.del = img[i].del
              /\ \/ x.reason = img[i].reason
                 \/ x.reason = reason /\ reason # c.reason /\ img[i] = c
<1> DEFINE o == IF reason = c.reason THEN img[i] ELSE [img[i] EXCEPT !.reason = reason]
<1>1. CASE img[i] = None \/ Refused(i, c, reason, lost)
  BY <1>1 DEF Update
<1>2. CASE ~(img[i] = None \/ Refused(i, c, reason, lost))
  <2>1. img[i] \in ImageObjects
    BY <1>2, Types
  <2>2. reason # c.reason => img[i] = c
    BY <1>2 DEF Refused
  <2>3. /\ o \in ImageObjects /\ o.del = img[i].del
        /\ \/ o.reason = img[i].reason
           \/ o.reason = reason /\ reason # c.reason /\ img[i] = c
    BY <2>1, <2>2, ImageChanges, Zenon
  <2> HIDE DEF o
  <2>4. /\ [o EXCEPT !.fin = TRUE] \in ImageObjects /\ [o EXCEPT !.fin = TRUE].del = o.del
        /\ [o EXCEPT !.fin = TRUE].reason = o.reason
    BY <2>3, ImageChanges, Zenon
  <2>5. Update(i, c, reason, fin, lost) = IF fin = c.fin THEN o ELSE IF fin THEN [o EXCEPT !.fin = TRUE] ELSE None
    BY <1>2 DEF Update, o
  <2>6. c.fin \in BOOLEAN
    BY ImageFields
  <2> QED BY <1>2, <2>3, <2>4, <2>5, <2>6
<1> QED BY <1>1, <1>2

\* An image is found stored only when it was before or its importer has completed, and
\* Ready only when its data is in the registry (ImagePresenceHandler looks it up).
LEMMA Decides ==
    ASSUME TypeOK, NEW i \in Images, NEW c \in ImageObjects,
           ImagePresence(i, c, LifeCycle(i, c).reason) \in Stored
    PROVE  /\ c.reason \in Stored \/ pod[i] = "complete"
           /\ ImagePresence(i, c, LifeCycle(i, c).reason) = "Ready" /\ ~c.del => i \in reg
<1>1. LifeCycle(i, c).reason \in Stored
  BY DEF ImagePresence, Stored
<1>2. ASSUME c.reason \notin Stored, pod[i] # "complete" PROVE FALSE
  <2>1. ReadyReason(c) \notin Stored
    BY <1>2 DEF ReadyReason, Stored
  <2>2. pod[i] \in Pods \cup {None}
    BY DEF TypeOK
  <2>3. pod[i] # None => CheckPod(pod[i]).reason \notin Stored
    BY <1>2, <2>2 DEF Pods, CheckPod, Outcome, Stored
  <2>4. Sync(i, ReadyReason(c)).reason \notin Stored
    BY <1>2, <2>1, <2>3 DEF Sync, Outcome, Stored
  <2> QED BY <1>1, <2>1, <2>4 DEF LifeCycle, Outcome, Stored
<1>3. ImagePresence(i, c, LifeCycle(i, c).reason) = "Ready" /\ ~c.del => i \in reg
  BY DEF ImagePresence, Stored
<1> QED BY <1>2, <1>3

\* What a reconcile of an image does to the image and its pod.
LEMMA ImageReconcileEffect ==
    ASSUME TypeOK, NEW i \in Images, ImageReconcile(i)
    PROVE  /\ faults' \in 0..MaxFaults /\ awake' \subseteq Images
           /\ pod' \in [Images -> Pods \cup {None}] /\ img' \in [Images -> ImageObjects \cup {None}]
           /\ \A j \in Images \ {i} : img'[j] = img[j] /\ pod'[j] = pod[j]
           /\ img[i] = None => img'[i] = None /\ pod'[i] = pod[i]
           /\ img'[i] = None /\ img[i] # None => pod'[i] = None
           /\ pod'[i] = "complete" => pod[i] = "complete"
           /\ ci[i] \in ImageObjects /\ ci[i] # None
           /\ img'[i] # None => /\ img'[i].del = img[i].del
                                /\ \/ img'[i].reason = img[i].reason
                                   \/ img'[i].reason = "ProvisioningPostponed"
                                   \/ /\ img[i] = ci[i]
                                      /\ img'[i].reason = ImagePresence(i, ci[i], LifeCycle(i, ci[i]).reason)
<1> DEFINE c == ci[i]
           o == LifeCycle(i, c)
           reason == IF Postpones(c) THEN "ProvisioningPostponed" ELSE ImagePresence(i, c, o.reason)
           fin == IF Postpones(c) THEN c.fin ELSE KeepsFinalizer(i, c)
           again == Postpones(c) \/ o.again \/ reason = "ImageLost" \/ (c.del /\ fin)
<1>1. c \in ImageObjects /\ c # None /\ i \in awake
  BY Types DEF ImageReconcile
<1>2. PICK lost \in May("write"), unscheduled \in May("schedule") :
        /\ faults' = faults + Cost(lost) + Cost(unscheduled)
        /\ faults' <= MaxFaults
        /\ img' = [img EXCEPT ![i] = Update(i, c, reason, fin, lost)]
        /\ pod' = IF Postpones(c) \/ img[i] = None THEN pod
                  ELSE [pod EXCEPT ![i] = PodAfter(i, c, o, unscheduled)]
        /\ awake' = IF again \/ Refused(i, c, reason, lost) THEN awake ELSE awake \ {i}
  BY Zenon DEF ImageReconcile
<1>3. reason \in Reasons
  BY <1>1, LifeCycleType DEF Reasons
<1>4. fin \in BOOLEAN /\ (~fin /\ c.fin => c.del /\ ~Postpones(c))
  BY <1>1, ImageFields, LifeCycleType, Zenon DEF KeepsFinalizer
<1>5. lost \in BOOLEAN /\ unscheduled \in BOOLEAN
  BY MayType
<1> DEFINE x == Update(i, c, reason, fin, lost)
           p == PodAfter(i, c, o, unscheduled)
<1>6. \/ x = img[i]
      \/ x = None /\ ~fin /\ c.fin
      \/ /\ img[i] # None /\ x \in ImageObjects /\ x.del = img[i].del
         /\ \/ x.reason = img[i].reason
            \/ x.reason = reason /\ reason # c.reason /\ img[i] = c
  BY <1>1, <1>3, <1>4, <1>5, UpdateEffect
<1>7. p \in {None, "pending", "running", pod[i]} /\ (c.del => p = None)
  BY DEF PodAfter
<1>8. img[i] = None => x = None
  BY DEF Update
<1>9. /\ img' = [img EXCEPT ![i] = x]
      /\ pod' = IF Postpones(c) \/ img[i] = None THEN pod ELSE [pod EXCEPT ![i] = p]
  BY <1>2
<1>10. faults' \in 0..MaxFaults
  <2>1. faults \in Nat /\ MaxFaults \in Nat /\ Cost(lost) \in {0, 1} /\ Cost(unscheduled) \in {0, 1}
    BY DVCRAssumption DEF TypeOK, Cost
  <2> QED BY <1>2, <2>1
<1>11. awake' \subseteq Images
  BY <1>2, Types
<1>12. reason = "ProvisioningPostponed" \/ reason = ImagePresence(i, ci[i], LifeCycle(i, ci[i]).reason)
  OBVIOUS
<1> HIDE DEF c, o, reason, fin, again, x, p
<1>13. img \in [Images -> ImageObjects \cup {None}] /\ pod \in [Images -> Pods \cup {None}]
  BY DEF TypeOK
<1>14. x \in ImageObjects \cup {None} /\ img'[i] = x
  BY <1>6, <1>9, <1>13
<1>15. p \in Pods \cup {None}
  BY <1>7, <1>13 DEF Pods
<1>16. img' \in [Images -> ImageObjects \cup {None}] /\ pod' \in [Images -> Pods \cup {None}]
  BY <1>9, <1>13, <1>14, <1>15
<1>17. \A j \in Images \ {i} : img'[j] = img[j] /\ pod'[j] = pod[j]
  BY <1>9, <1>13
<1>18. pod'[i] = pod[i] \/ (pod'[i] = p /\ ~Postpones(c))
  BY <1>9, <1>13
<1>19. x = None /\ img[i] # None => pod'[i] = None
  BY <1>4, <1>6, <1>7, <1>9, <1>13, NoneAssumption
<1>20. pod'[i] = "complete" => pod[i] = "complete"
  <2>1. CASE pod'[i] = p
    BY <2>1, <1>7, NoneAssumption DEF Pods
  <2> QED BY <2>1, <1>18
<1>21. ci[i] \in ImageObjects /\ ci[i] # None
  BY <1>1 DEF c
<1>22. x # None => /\ x.del = img[i].del
                   /\ \/ x.reason = img[i].reason
                      \/ x.reason = "ProvisioningPostponed"
                      \/ /\ img[i] = ci[i]
                         /\ x.reason = ImagePresence(i, ci[i], LifeCycle(i, ci[i]).reason)
  BY <1>6, <1>12 DEF c
<1>23. img[i] = None => img'[i] = None /\ pod'[i] = pod[i]
  BY <1>8, <1>9, <1>14
<1> QED BY <1>10, <1>11, <1>14, <1>16, <1>17, <1>19, <1>20, <1>21, <1>22, <1>23

LEMMA ImageReconcileType == ASSUME TypeOK, NEW i \in Images, ImageReconcile(i) PROVE TypeOK'
<1>1. UNCHANGED <<gc, ci, source, created, registry>>
  BY DEF ImageReconcile
<1>2. /\ faults' \in 0..MaxFaults /\ awake' \subseteq Images
      /\ pod' \in [Images -> Pods \cup {None}] /\ img' \in [Images -> ImageObjects \cup {None}]
  BY ImageReconcileEffect
<1> QED BY <1>1, <1>2 DEF TypeOK, gc, registry

\* The pods, the registry, the cleaner, users, time and the caches keep the types.
LEMMA PodType ==
    ASSUME TypeOK, NEW i \in Images, Push(i) \/ ImportFails(i) \/ PodRestarts(i) \/ PodScheduled(i)
    PROVE  TypeOK'
<1>1. ASSUME NEW from, NEW to \in Pods, PodStep(i, from, to)
      PROVE  pod' \in [Images -> Pods \cup {None}] /\ UNCHANGED <<gc, img, ci, awake, source, created>>
  BY <1>1 DEF PodStep, TypeOK
<1>2. pod' \in [Images -> Pods \cup {None}] /\ UNCHANGED <<gc, img, ci, awake, source, created>>
  BY <1>1, Zenon DEF Push, ImportFails, PodRestarts, PodScheduled, Pods
<1>3. CASE Push(i)
  BY <1>2, <1>3 DEF TypeOK, Push, gc
<1>4. CASE ImportFails(i)
  <2>1. faults + 1 \in 0..MaxFaults
    BY <1>4, MayType, Zenon DEF ImportFails, Cost
  <2> QED BY <1>2, <1>4, <2>1, Zenon DEF TypeOK, ImportFails, gc, registry
<1>5. CASE PodRestarts(i) \/ PodScheduled(i)
  BY <1>2, <1>5 DEF TypeOK, PodRestarts, PodScheduled, gc, registry
<1> QED BY <1>3, <1>4, <1>5

LEMMA CleanerType ==
    ASSUME TypeOK, Hook \/ CleanerStep \/ CleanerRestarts PROVE TypeOK'
<1>1. CASE Hook
  BY <1>1 DEF TypeOK, Hook, GarbageCollectionMode, gc, objects
<1>2. CASE ListImagesAll \/ CompareRegistryAndClusterImages \/ \E i \in Images : RemoveImage(i)
  BY <1>2 DEF TypeOK, ListImagesAll, CompareRegistryAndClusterImages, RemoveImage, gc, objects
<1>3. CASE ExecGarbageCollect
  <2>1. faults' \in 0..MaxFaults /\ cleaner' \in {"failed", "succeeded"}
    BY <1>3, MayType DEF ExecGarbageCollect
  <2> QED BY <1>3, <2>1 DEF TypeOK, ExecGarbageCollect, gc, objects
<1>4. CASE AnnotateOnCleanupDone
  <2> DEFINE r == [n |-> secret.n, ok |-> cleaner = "succeeded"]
  <2>1. secret # None => r \in Results
    BY Types, SecretFields DEF Results
  <2> HIDE DEF r
  <2>2. secret # None => [secret EXCEPT !.st = "done", !.result = r] \in Secrets
    BY <2>1, Types, Zenon DEF Secrets
  <2>3. secret' \in Secrets \cup {None} /\ cleaner' \in {"wait", "start"}
    BY <1>4, <2>2 DEF AnnotateOnCleanupDone, r
  <2> QED BY <1>4, <2>3 DEF TypeOK, AnnotateOnCleanupDone, objects
<1>5. CASE CleanerRestarts
  <2>1. faults + 1 \in 0..MaxFaults
    BY <1>5, MayType, Zenon DEF CleanerRestarts, Cost
  <2> QED BY <1>5, <2>1 DEF TypeOK, CleanerRestarts, gc, objects
<1> QED BY <1>1, <1>2, <1>3, <1>4, <1>5 DEF CleanerStep

LEMMA UserType ==
    ASSUME TypeOK, NEW i \in Images, Create(i) \/ Delete(i) \/ DataSourceReady(i) \/ SyncImage(i)
    PROVE  TypeOK'
<1>1. CASE Create(i)
  <2>1. [reason |-> "none", del |-> FALSE, fin |-> FALSE] \in ImageObjects
    BY DEF ImageObjects, Reasons
  <2>2. created[i] + 1 \in 0..MaxCreate
    BY <1>1, DVCRAssumption DEF Create, TypeOK
  <2>3. img' \in [Images -> ImageObjects \cup {None}] /\ created' \in [Images -> 0..MaxCreate]
    BY <1>1, <2>1, <2>2 DEF Create, TypeOK
  <2> QED BY <1>1, <2>3 DEF TypeOK, Create, gc, registry
<1>2. CASE Delete(i)
  <2>1. img[i] \in ImageObjects
    BY <1>2, Types DEF Delete
  <2>2. [img[i] EXCEPT !.del = TRUE] \in ImageObjects
    BY <2>1, Zenon DEF ImageObjects
  <2>3. img' \in [Images -> ImageObjects \cup {None}] /\ pod' \in [Images -> Pods \cup {None}]
    BY <1>2, <2>2 DEF Delete, TypeOK
  <2> QED BY <1>2, <2>3 DEF TypeOK, Delete, gc, registry
<1>3. CASE DataSourceReady(i)
  BY <1>3 DEF TypeOK, DataSourceReady, gc, registry
<1>4. CASE SyncImage(i)
  <2>1. ci' \in [Images -> ImageObjects \cup {None}] /\ awake' \subseteq Images
    BY <1>4, Types DEF SyncImage
  <2> QED BY <1>4, <2>1 DEF TypeOK, SyncImage, gc, registry
<1> QED BY <1>1, <1>2, <1>3, <1>4

LEMMA ClockType == ASSUME TypeOK, CronSource \/ Elapse \/ SyncGC PROVE TypeOK'
<1>1. CASE CronSource
  BY <1>1, DVCRAssumption DEF TypeOK, CronSource, objects, registry
<1>2. CASE Elapse
  <2>1. expired' \in Nat
    BY <1>2, Types, SecretFields DEF Elapse
  <2> QED BY <1>2, <2>1 DEF TypeOK, Elapse, objects, registry
<1>3. CASE SyncGC
  BY <1>3 DEF TypeOK, SyncGC, objects, registry
<1> QED BY <1>1, <1>2, <1>3

LEMMA InitType == Init => TypeOK
<1> SUFFICES ASSUME Init PROVE TypeOK
  OBVIOUS
<1>1. dep \in Deployments
  BY DEF Init, Deployments
<1>2. /\ img \in [Images -> ImageObjects \cup {None}] /\ ci \in [Images -> ImageObjects \cup {None}]
      /\ pod \in [Images -> Pods \cup {None}]
  BY DEF Init
<1>3. created \in [Images -> 0..MaxCreate] /\ crons \in 0..MaxCron /\ faults \in 0..MaxFaults
  BY DVCRAssumption DEF Init
<1>4. /\ secret \in Secrets \cup {None} /\ csec \in Secrets \cup {None} /\ cdep \in Deployments
      /\ epoch \in Nat /\ expired \in Nat /\ due \in BOOLEAN
  BY <1>1, Zenon DEF Init
<1>5. /\ awake \subseteq Images /\ source \subseteq Images /\ reg \subseteq Images /\ found \subseteq Images
      /\ mode = "rw" /\ cleaner = "off"
  BY DEF Init
<1> QED BY <1>1, <1>2, <1>3, <1>4, <1>5 DEF TypeOK

LEMMA StepType == ASSUME TypeOK, [Next]_vars PROVE TypeOK'
<1>1. CASE UNCHANGED vars
  BY <1>1 DEF TypeOK, vars, gc, objects, registry
<1> QED BY <1>1, CronType, SecretReconcileType, ImageReconcileType, PodType, CleanerType, UserType, ClockType
        DEF Next

\* The secret, the Deployment's condition, images, pods, the registry and the cleaner keep
\* their types, and every counter its bound.
THEOREM TypeCorrect == Spec => []TypeOK
BY InitType, StepType, PTL DEF Spec

-----------------------------------------------------------------------------
(* The cleaner spares images in use.                                        *)

\* An image is Ready and not being deleted.
InUse(x) == x # None /\ x.reason = "Ready" /\ ~x.del

LEMMA ReadyIsStoredAlt == ReadyIsStored <=> \A i \in Images : InUse(img[i]) => i \in reg
BY DEF ReadyIsStored, InUse

\* A step that leaves images, pods, the registry's contents, its mode and the cleaner alone.
LEMMA Elsewhere ==
    ASSUME IInv, TypeOK', UNCHANGED <<img, ci, pod, reg, mode, cleaner, found>>
    PROVE  IInv'
BY DEF IInv, ReadOnly, PodsOwned, RemovesUnused, Empty, ReadyIsStored

LEMMA ImageReconcileSafe == ASSUME IInv, TypeOK', NEW i \in Images, ImageReconcile(i) PROVE IInv'
<1>1. TypeOK /\ UNCHANGED <<ci, reg, mode, cleaner, found>>
  BY DEF IInv, ImageReconcile, registry
<1>2. /\ \A j \in Images \ {i} : img'[j] = img[j] /\ pod'[j] = pod[j]
      /\ img[i] = None => img'[i] = None /\ pod'[i] = pod[i]
      /\ img'[i] = None /\ img[i] # None => pod'[i] = None
      /\ pod'[i] = "complete" => pod[i] = "complete"
      /\ ci[i] \in ImageObjects /\ ci[i] # None
      /\ img'[i] # None => /\ img'[i].del = img[i].del
                           /\ \/ img'[i].reason = img[i].reason
                              \/ img'[i].reason = "ProvisioningPostponed"
                              \/ /\ img[i] = ci[i]
                                 /\ img'[i].reason = ImagePresence(i, ci[i], LifeCycle(i, ci[i]).reason)
  BY <1>1, ImageReconcileEffect
<1>3. ReadOnly' /\ PodsOwned'
  BY <1>1, <1>2, Zenon DEF IInv, ReadOnly, PodsOwned
<1>4. RemovesUnused'
  <2> SUFFICES ASSUME cleaner = "remove", NEW j \in found, img'[j] # None PROVE Empty(j)'
    BY <1>1 DEF RemovesUnused
  <2>1. CASE j # i
    BY <1>1, <1>2, <2>1, Types DEF IInv, RemovesUnused, Empty
  <2>2. CASE j = i
    <3>1. img[i] # None /\ Empty(i)
      BY <1>2, <2>2, Zenon DEF IInv, RemovesUnused
    <3>2. img'[i].reason \notin Stored
      BY <1>1, <1>2, <2>2, <3>1, Decides, Zenon DEF Empty, Stored
    <3> QED BY <1>1, <1>2, <2>2, <3>1, <3>2, Zenon DEF Empty
  <2> QED BY <2>1, <2>2
<1>5. ReadyIsStored'
  <2> SUFFICES ASSUME NEW j \in Images, InUse(img'[j]) PROVE j \in reg
    BY <1>1 DEF ReadyIsStored, InUse
  <2>1. CASE j # i
    BY <1>2, <2>1, ReadyIsStoredAlt DEF IInv
  <2>2. CASE j = i
    <3>1. img'[i] # None /\ img[i] # None /\ img'[i].reason = "Ready" /\ ~img[i].del
      BY <1>2, <2>2 DEF InUse
    <3>2. CASE img'[i].reason = img[i].reason
      BY <2>2, <3>1, <3>2, ReadyIsStoredAlt DEF IInv, InUse
    <3>3. CASE img'[i].reason # img[i].reason
      BY <1>1, <1>2, <2>2, <3>1, <3>3, Decides DEF Stored
    <3> QED BY <3>2, <3>3
  <2> QED BY <2>1, <2>2
<1> QED BY <1>3, <1>4, <1>5 DEF IInv

LEMMA PodSafe ==
    ASSUME IInv, TypeOK', NEW i \in Images, Push(i) \/ ImportFails(i) \/ PodRestarts(i) \/ PodScheduled(i)
    PROVE  IInv'
<1>1. /\ UNCHANGED <<img, ci, mode, cleaner, found>> /\ reg \subseteq reg'
      /\ pod[i] # None /\ \A j \in Images \ {i} : pod'[j] = pod[j]
      /\ pod'[i] = "complete" => mode = "rw"
  BY NoneAssumption, Zenon DEF IInv, TypeOK, Push, ImportFails, PodRestarts, PodScheduled, PodStep, registry, Pods
<1>2. ReadOnly' /\ PodsOwned' /\ ReadyIsStored'
  BY <1>1, Zenon DEF IInv, ReadOnly, PodsOwned, ReadyIsStored
<1>3. cleaner = "remove" => mode = "ro"
  BY DEF IInv, ReadOnly
<1>4. RemovesUnused'
  BY <1>1, <1>3, Types, Zenon DEF IInv, RemovesUnused, Empty
<1> QED BY <1>2, <1>4 DEF IInv

LEMMA CleanerSafe == ASSUME IInv, TypeOK', Hook \/ CleanerStep \/ CleanerRestarts PROVE IInv'
<1>1. UNCHANGED <<img, ci, pod>>
  BY Zenon DEF Hook, CleanerStep, CleanerRestarts, ListImagesAll, CompareRegistryAndClusterImages, RemoveImage,
         ExecGarbageCollect, AnnotateOnCleanupDone, objects
<1>2. PodsOwned'
  BY <1>1 DEF IInv, PodsOwned
<1>3. CASE Hook
  BY <1>1, <1>2, <1>3, Zenon DEF IInv, ReadOnly, RemovesUnused, ReadyIsStored, Hook, GarbageCollectionMode
<1>4. CASE ListImagesAll
  BY <1>1, <1>2, <1>4 DEF IInv, ReadOnly, RemovesUnused, ReadyIsStored, ListImagesAll
<1>5. CASE CompareRegistryAndClusterImages
  BY <1>1, <1>2, <1>5 DEF IInv, ReadOnly, RemovesUnused, ReadyIsStored, CompareRegistryAndClusterImages
<1>6. ASSUME NEW i \in Images, RemoveImage(i) PROVE IInv'
  <2>1. cleaner = "remove" /\ i \in found /\ reg' = reg \ {i} /\ found' = found \ {i} /\ UNCHANGED <<mode, cleaner>>
    BY <1>6 DEF RemoveImage
  <2>2. img[i] # None => img[i].reason # "Ready"
    BY <2>1 DEF IInv, RemovesUnused, Empty, Stored
  <2>3. ReadyIsStored'
    BY <1>1, <2>1, <2>2 DEF IInv, ReadyIsStored
  <2> QED BY <1>1, <1>2, <2>1, <2>3 DEF IInv, ReadOnly, RemovesUnused, Empty
<1>7. CASE ExecGarbageCollect \/ AnnotateOnCleanupDone \/ CleanerRestarts
  <2>1. UNCHANGED <<reg, mode>> /\ cleaner # "off" /\ cleaner' # "remove"
    BY <1>7, Zenon DEF ExecGarbageCollect, AnnotateOnCleanupDone, CleanerRestarts
  <2> QED BY <1>1, <1>2, <2>1 DEF IInv, ReadOnly, RemovesUnused, ReadyIsStored
<1> QED BY <1>3, <1>4, <1>5, <1>6, <1>7 DEF CleanerStep

LEMMA UserSafe ==
    ASSUME IInv, TypeOK', NEW i \in Images, Create(i) \/ Delete(i) \/ DataSourceReady(i) \/ SyncImage(i)
    PROVE  IInv'
<1>0. TypeOK /\ UNCHANGED <<reg, mode, cleaner, found>>
  BY DEF IInv, Create, Delete, DataSourceReady, SyncImage, registry
<1>1. ReadOnly'
  BY <1>0 DEF IInv, ReadOnly
<1>2. CASE Create(i)
  <2> DEFINE new == [reason |-> "none", del |-> FALSE, fin |-> FALSE]
  <2>1. /\ img[i] = None /\ ci[i] = None /\ pod[i] = None /\ UNCHANGED <<ci, pod>>
        /\ img'[i] = new /\ \A j \in Images \ {i} : img'[j] = img[j]
    BY <1>0, <1>2, Types, Zenon DEF Create
  <2>2. new.reason = "none" /\ new \in ImageObjects
    BY DEF ImageObjects, Reasons
  <2>3. PodsOwned'
    BY <2>1 DEF IInv, PodsOwned
  <2>4. RemovesUnused'
    BY <1>0, <2>1, <2>2, Types, NoneAssumption, Zenon DEF IInv, RemovesUnused, Empty, Stored, Pods
  <2>5. ReadyIsStored'
    BY <1>0, <2>1, <2>2, Zenon DEF IInv, ReadyIsStored
  <2> QED BY <1>1, <2>3, <2>4, <2>5 DEF IInv
<1>3. CASE Delete(i)
  <2>1. /\ img[i] \in ImageObjects /\ img[i] # None /\ ci' = ci
        /\ \A j \in Images \ {i} : img'[j] = img[j] /\ pod'[j] = pod[j]
        /\ \/ img'[i] = None /\ pod'[i] = None
           \/ img'[i] = [img[i] EXCEPT !.del = TRUE] /\ pod'[i] = pod[i]
    BY <1>0, <1>3, Types DEF Delete, TypeOK
  <2>2. /\ [img[i] EXCEPT !.del = TRUE].reason = img[i].reason /\ [img[i] EXCEPT !.del = TRUE].del
        /\ [img[i] EXCEPT !.del = TRUE] \in ImageObjects
    BY <2>1, Zenon DEF ImageObjects
  <2>3. PodsOwned'
    BY <2>1, <2>2, NoneAssumption DEF IInv, PodsOwned
  <2>4. RemovesUnused'
    <3> SUFFICES ASSUME cleaner = "remove", NEW j \in found, img'[j] # None PROVE Empty(j)'
      BY <1>0 DEF RemovesUnused
    <3>1. j \in Images
      BY <1>0, Types
    <3>2. img[j] # None /\ img'[j].reason = img[j].reason /\ pod'[j] = pod[j]
      BY <2>1, <2>2, <3>1, Zenon
    <3> QED BY <2>1, <3>2 DEF IInv, RemovesUnused, Empty
  <2>5. ReadyIsStored'
    BY <1>0, <2>1, <2>2, Zenon DEF IInv, ReadyIsStored
  <2> QED BY <1>1, <2>3, <2>4, <2>5 DEF IInv
<1>4. CASE DataSourceReady(i)
  <2>1. UNCHANGED <<img, ci, pod>>
    BY <1>4 DEF DataSourceReady
  <2> QED BY <1>0, <2>1, Elsewhere
<1>5. CASE SyncImage(i)
  <2>1. UNCHANGED <<img, pod>> /\ ci'[i] = img[i] /\ \A j \in Images \ {i} : ci'[j] = ci[j]
    BY <1>0, <1>5, Types DEF SyncImage
  <2>2. RemovesUnused'
    BY <1>0, <2>1, Types, Zenon DEF IInv, RemovesUnused, Empty
  <2> QED BY <1>0, <1>1, <2>1, <2>2 DEF IInv, PodsOwned, ReadyIsStored
<1> QED BY <1>2, <1>3, <1>4, <1>5

LEMMA StepInv == ASSUME IInv, [Next]_vars PROVE IInv'
<1>1. TypeOK'
  BY StepType DEF IInv
<1>2. CASE CronSource \/ Elapse \/ CronReconcile \/ SecretReconcile \/ SyncGC \/ UNCHANGED vars
  <2>1. UNCHANGED <<img, ci, pod, reg, mode, cleaner, found>>
    BY <1>2, Zenon DEF CronSource, Elapse, CronReconcile, SecretReconcile, SyncGC, vars, objects, registry
  <2> QED BY <1>1, <2>1, Elsewhere
<1> QED BY <1>1, <1>2, ImageReconcileSafe, PodSafe, CleanerSafe, UserSafe DEF Next

LEMMA InitInv == Init => IInv
<1> SUFFICES ASSUME Init PROVE IInv
  OBVIOUS
<1> QED BY InitType DEF Init, IInv, ReadOnly, PodsOwned, RemovesUnused, ReadyIsStored

\* The garbage collection of the registry never removes the data of an image that is Ready
\* and not being deleted: neither an image that the cleaner found missing in the cluster and
\* that is created again under its name while the cleaner is at work, nor one whose import
\* ends at that time, whatever caches lag and calls fail.
THEOREM CleanerSparesImages == Spec => []ReadyIsStored
<1>1. IInv => ReadyIsStored
  BY DEF IInv
<1> QED BY <1>1, InitInv, StepInv, PTL DEF Spec

-----------------------------------------------------------------------------
(* No garbage collection is forgotten before its outcome is reported.       *)

\* the secret is of the latest initiation, and so is a result in it; it has one when it is done
SecretOfEpoch ==
    secret # None =>
        /\ secret.n = epoch /\ secret.born <= epoch
        /\ secret.result # None => secret.result.n = epoch
        /\ secret.st = "done" => secret.result # None

\* an outcome in the Deployment that is newer than the secret's creation is the outcome of
\* the latest initiation, although a reset secret keeps its age: each initiation has
\* replaced the outcome before it
OutcomeOfEpoch ==
    secret # None /\ dep.reason \in {"Completed", "Error"} /\ dep.at >= secret.born =>
        \/ dep.ann # None /\ dep.ann.n = epoch
        \/ dep.reason = "Error" /\ dep.at >= epoch

RInv == TypeOK /\ SecretOfEpoch /\ OutcomeOfEpoch

LEMMA NoLoss == ASSUME "deploy" \notin Faults, NEW lost \in May("deploy") PROVE lost = FALSE
BY DEF May

\* With current caches and no lost write the Deployment has what is written to it.
LEMMA Written ==
    ASSUME TypeOK, cdep = dep, NEW reason \in {"InProgress", "Completed", "Error"}
    PROVE  /\ \A lost : UpdateDeployment(UpdateGarbageCollectionCondition(reason), lost) /\ lost = FALSE
                          => dep'.reason = reason /\ dep'.at = epoch
           /\ \A lost, ann : UpdateDeployment([UpdateGarbageCollectionCondition(reason) EXCEPT !.ann = ann], lost)
                               /\ lost = FALSE
                          => dep'.reason = reason /\ dep'.at = epoch /\ dep'.ann = ann
<1>1. cdep \in Deployments
  BY Types
<1> QED BY <1>1, Zenon DEF UpdateDeployment, UpdateGarbageCollectionCondition, Deployments

LEMMA CronReported ==
    ASSUME Prompt = TRUE, "deploy" \notin Faults, RInv, CronReconcile
    PROVE  SecretOfEpoch' /\ OutcomeOfEpoch' /\ secret' # None
<1>1. TypeOK /\ csec = secret /\ cdep = dep
  BY DEF RInv, CronReconcile, Fresh
<1>2. /\ dep'.reason = "InProgress" /\ secret' = InitiateGarbageCollectionMode /\ epoch' = epoch + 1
  BY <1>1, NoLoss, Written, Zenon DEF CronReconcile
<1>3. epoch \in Nat /\ (secret # None => secret \in Secrets /\ secret.born \in Nat)
  BY <1>1, Types, SecretFields
<1>4. /\ InitiateGarbageCollectionMode.n = epoch + 1 /\ InitiateGarbageCollectionMode.st = "initiated"
      /\ InitiateGarbageCollectionMode.result = None
      /\ InitiateGarbageCollectionMode.born = IF secret = None THEN epoch + 1 ELSE secret.born
  BY DEF InitiateGarbageCollectionMode, CreateGarbageCollectionSecret
<1>5. secret # None => secret.born <= epoch
  BY DEF RInv, SecretOfEpoch
<1>6. secret' # None
  BY <1>1, <1>2, InitiateType, NoneAssumption
<1>7. SecretOfEpoch'
  BY <1>2, <1>3, <1>4, <1>5 DEF SecretOfEpoch
<1> QED BY <1>2, <1>6, <1>7 DEF OutcomeOfEpoch

LEMMA SecretReported ==
    ASSUME Prompt = TRUE, "deploy" \notin Faults, RInv, SecretReconcile
    PROVE  SecretOfEpoch' /\ OutcomeOfEpoch' /\ ReportedStep
<1>1. TypeOK /\ csec = secret /\ cdep = dep /\ secret # None /\ epoch' = epoch
  BY Zenon DEF RInv, SecretReconcile, Fresh
<1>2. secret \in Secrets /\ epoch \in Nat /\ dep \in Deployments
  BY <1>1, Types
<1>3. /\ secret.n = epoch /\ secret.born <= epoch
      /\ secret.result # None => secret.result.n = epoch
      /\ secret.st = "done" => secret.result # None
  BY <1>1 DEF RInv, SecretOfEpoch
<1>4. ASSUME NEW r \in {"Completed", "Error"}, NEW a \in Results \cup {None}, Finish(r, a, FALSE),
             r = "Completed" => a # None /\ a.n = epoch
      PROVE  SecretOfEpoch' /\ OutcomeOfEpoch' /\ ReportedStep
  <2>1. CASE IsGarbageCollectionResultPersisted(csec, cdep)
    <3>1. secret' = None
      BY <1>4, <2>1 DEF Finish
    <3>2. CASE dep.reason \in {"Completed", "Error"}
      <4>1. dep.at >= secret.born
        BY <1>1, <2>1, <3>2 DEF IsGarbageCollectionResultPersisted
      <4>2. \/ dep.ann # None /\ dep.ann.n = epoch
            \/ dep.reason = "Error" /\ dep.at >= epoch
        <5>1. OutcomeOfEpoch /\ secret # None
          BY <1>1 DEF RInv
        <5> QED BY <3>2, <4>1, <5>1 DEF OutcomeOfEpoch
      <4> QED BY <1>3, <3>1, <4>2 DEF ReportedStep, SecretOfEpoch, OutcomeOfEpoch
    <3>3. CASE dep.reason \notin {"Completed", "Error"}
      <4>1. secret.result # None /\ dep.ann = secret.result
        BY <1>1, <2>1, <3>3 DEF IsGarbageCollectionResultPersisted
      <4> QED BY <1>3, <3>1, <4>1 DEF ReportedStep, SecretOfEpoch, OutcomeOfEpoch
    <3> QED BY <3>2, <3>3
  <2>2. CASE ~IsGarbageCollectionResultPersisted(csec, cdep)
    <3>1. secret' = secret /\ dep'.reason = r /\ dep'.at = epoch /\ dep'.ann = a
      BY <1>1, <1>4, <2>2, Written, Zenon DEF Finish
    <3> QED BY <1>1, <1>2, <1>3, <1>4, <3>1 DEF ReportedStep, SecretOfEpoch, OutcomeOfEpoch
  <2> QED BY <2>1, <2>2
<1>5. ASSUME SwitchToGarbageCollectionMode(FALSE)
      PROVE  SecretOfEpoch' /\ OutcomeOfEpoch' /\ ReportedStep
  <2>1. secret' = [secret EXCEPT !.st = "started"] /\ dep'.reason = "InProgress"
    BY <1>1, <1>5, Written, Zenon DEF SwitchToGarbageCollectionMode
  <2>2. /\ secret'.n = secret.n /\ secret'.born = secret.born /\ secret'.result = secret.result
        /\ secret'.st = "started" /\ secret' \in Secrets
    BY <1>2, <2>1 DEF Secrets
  <2> QED BY <1>1, <1>3, <2>1, <2>2, NoneAssumption DEF ReportedStep, SecretOfEpoch, OutcomeOfEpoch
<1>6. ASSUME UpdateDeployment(UpdateGarbageCollectionCondition("InProgress"), FALSE), UNCHANGED secret
      PROVE  SecretOfEpoch' /\ OutcomeOfEpoch' /\ ReportedStep
  <2>1. dep'.reason = "InProgress"
    BY <1>1, <1>6, Written, Zenon
  <2> QED BY <1>1, <1>3, <1>6, <2>1 DEF ReportedStep, SecretOfEpoch, OutcomeOfEpoch
<1>7. IsGarbageCollectionDone(csec) =>
        /\ ParseGarbageCollectionResult(csec) \in {"Completed", "Error"}
        /\ csec.result \in Results \cup {None} /\ csec.result # None /\ csec.result.n = epoch
  BY <1>1, <1>2, <1>3, SecretFields DEF IsGarbageCollectionDone, ParseGarbageCollectionResult
<1>8. PICK lost \in May("deploy") :
           IF IsGarbageCollectionDone(csec)
           THEN Finish(ParseGarbageCollectionResult(csec), csec.result, lost)
           ELSE IF ~IsGarbageCollectionStarted(csec) /\ ListAllInProvisioning = {}
           THEN SwitchToGarbageCollectionMode(lost)
           ELSE IF csec.born <= expired
           THEN Finish("Error", None, lost)
           ELSE /\ UpdateDeployment(UpdateGarbageCollectionCondition("InProgress"), lost)
                /\ UNCHANGED secret
  BY Zenon DEF SecretReconcile
<1>9. lost = FALSE
  BY NoLoss, Zenon
<1>10. CASE IsGarbageCollectionDone(csec)
  BY <1>4, <1>7, <1>8, <1>9, <1>10, Zenon
<1>11. CASE ~IsGarbageCollectionDone(csec) /\ Finish("Error", None, lost)
  BY <1>4, <1>9, <1>11, Zenon
<1> QED BY <1>5, <1>6, <1>8, <1>9, <1>10, <1>11, Zenon

LEMMA CleanerReported ==
    ASSUME RInv, AnnotateOnCleanupDone
    PROVE  SecretOfEpoch' /\ OutcomeOfEpoch' /\ (secret # None => secret' # None)
<1>1. TypeOK /\ UNCHANGED <<dep, epoch>>
  BY DEF RInv, AnnotateOnCleanupDone
<1>2. CASE secret = None
  BY <1>2 DEF AnnotateOnCleanupDone, SecretOfEpoch, OutcomeOfEpoch
<1>3. CASE secret # None
  <2> DEFINE r == [n |-> secret.n, ok |-> cleaner = "succeeded"]
  <2>1. secret' = [secret EXCEPT !.st = "done", !.result = r] /\ secret \in Secrets
    BY <1>1, <1>3, Types DEF AnnotateOnCleanupDone
  <2>2. r.n = secret.n /\ r \in Results
    BY <2>1, SecretFields DEF Results
  <2> HIDE DEF r
  <2>3. /\ secret'.n = secret.n /\ secret'.born = secret.born /\ secret'.result = r
        /\ secret' \in Secrets
    BY <2>1, <2>2, Zenon DEF Secrets
  <2>4. r # None => r.n = epoch
    BY <1>3, <2>2 DEF RInv, SecretOfEpoch
  <2>5. r # None /\ secret' # None
    BY <2>2, <2>3, NoneAssumption
  <2> QED BY <1>1, <1>3, <2>3, <2>4, <2>5 DEF RInv, SecretOfEpoch, OutcomeOfEpoch
<1> QED BY <1>2, <1>3

LEMMA StepReported ==
    ASSUME Prompt = TRUE, "deploy" \notin Faults, RInv, [Next]_vars
    PROVE  RInv' /\ [ReportedStep]_vars
<1>1. TypeOK'
  BY StepType DEF RInv
<1>2. CASE UNCHANGED <<secret, dep, epoch>>
  BY <1>1, <1>2 DEF RInv, SecretOfEpoch, OutcomeOfEpoch, ReportedStep
<1>3. CASE CronReconcile
  BY <1>1, <1>3, CronReported DEF RInv, ReportedStep
<1>4. CASE SecretReconcile
  BY <1>1, <1>4, SecretReported DEF RInv
<1>5. CASE AnnotateOnCleanupDone
  BY <1>1, <1>5, CleanerReported DEF RInv, ReportedStep
<1>6. CASE \/ CronSource \/ Elapse \/ SyncGC \/ Hook \/ ListImagesAll \/ CompareRegistryAndClusterImages
           \/ (\E i \in Images : RemoveImage(i)) \/ ExecGarbageCollect \/ CleanerRestarts
  BY <1>2, <1>6, Zenon DEF CronSource, Elapse, SyncGC, Hook, ListImagesAll, CompareRegistryAndClusterImages,
     RemoveImage, ExecGarbageCollect, CleanerRestarts, gc
<1>7. ASSUME NEW i \in Images,
             \/ Create(i) \/ Delete(i) \/ DataSourceReady(i) \/ SyncImage(i) \/ ImageReconcile(i)
             \/ Push(i) \/ ImportFails(i) \/ PodRestarts(i) \/ PodScheduled(i)
      PROVE  UNCHANGED <<secret, dep, epoch>>
  BY <1>7, Zenon DEF Create, Delete, DataSourceReady, SyncImage, ImageReconcile, Push, ImportFails, PodRestarts,
     PodScheduled, PodStep, gc
<1>8. CASE UNCHANGED vars
  BY <1>2, <1>8 DEF vars, gc
<1> QED BY <1>2, <1>3, <1>4, <1>5, <1>6, <1>7, <1>8 DEF Next, CleanerStep

\* With caches that have caught up when they are read and writes of the Deployment that are
\* not lost, the secret is deleted only once the Deployment reports what became of the latest
\* garbage collection, also when the schedule initiates one again while another is under way,
\* and the secret, with its age, is used again.
THEOREM OutcomeReported == ASSUME Prompt = TRUE, "deploy" \notin Faults PROVE Spec => Reported
<1>1. Init => RInv
  BY InitType DEF Init, RInv, SecretOfEpoch, OutcomeOfEpoch
<1> QED BY <1>1, StepReported, PTL DEF Spec, Reported
=============================================================================
