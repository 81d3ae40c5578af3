-------------------------------- MODULE DVCR --------------------------------
(***************************************************************************)
(* Imports of images into the internal registry (DVCR) and the garbage     *)
(* collection of the registry.  Three programs take part: the controllers  *)
(* of images and of garbage collection, a hook of the module that          *)
(* redeploys the registry read-only or writable, and the cleaner in the    *)
(* read-only registry's pod.  They coordinate through a secret: initiated, *)
(* started when no image is being provisioned, done by the cleaner, and    *)
(* deleted once its result is in the status of the registry's Deployment.  *)
(*                                                                         *)
(* A reconcile is one step.  It reads cached copies, which lag behind the  *)
(* cluster; a write that has to be based on the latest version succeeds    *)
(* when the copy equals the object.  Images are ClusterVirtualImages that  *)
(* a pod imports; the pod retries while the registry is read-only.         *)
(***************************************************************************)
EXTENDS Naturals, FiniteSets

CONSTANTS
    Images,    \* names of images
    Late,      \* those whose data source may not be ready at first
    Deletable, \* those a user may delete, and create again
    MaxCreate, \* how often an image is created
    MaxCron,   \* how often the schedule fires
    Timeouts,  \* garbage collection may exceed its time
    Faults,    \* the kinds of failures that happen, among FaultKinds
    MaxFaults, \* how many of them
    Prompt,    \* caches catch up before they are read
    None

VARIABLES
    secret,  \* the secret that coordinates garbage collection
    csec,    \* the controllers' cached copy of it
    epoch,   \* how often garbage collection was initiated
    expired, \* the latest creation of the secret that is older than the timeouts
    dep,     \* the registry's Deployment: condition, when written, annotation
    cdep,    \* the cached copy of it
    due,     \* the schedule has fired and is not handled
    crons,   \* how often it has
    img,     \* the images
    ci,      \* the cached copy of each
    awake,   \* images with a pending request in their controller's queue
    source,  \* images whose data source is ready
    pod,     \* their importer pods
    created, \* how often each was created
    reg,     \* images in the registry
    mode,    \* the registry is deployed writable or read-only
    cleaner, \* where the cleaner is
    found,   \* the images it found: in the registry, then to be removed
    faults   \* failures so far

gc == <<secret, csec, epoch, expired, dep, cdep, due, crons>>
objects == <<img, ci, awake, source, pod, created>>
registry == <<reg, mode, cleaner, found>>
vars == <<gc, objects, registry, faults>>

\* an import fails, its pod cannot be scheduled at once, the status of the Deployment
\* or of an image is not written, the cleaner is restarted, garbage-collect fails
FaultKinds == {"attempt", "schedule", "deploy", "write", "cleaner", "collect"}

ASSUME DVCRAssumption ==
    /\ Late \cup Deletable \subseteq Images
    /\ {MaxCron, MaxFaults} \subseteq Nat /\ MaxCreate \in Nat \ {0}
    /\ {Timeouts, Prompt} \subseteq BOOLEAN
    /\ Faults \subseteq FaultKinds

\* the outcome of a run of the cleaner for the n-th initiation
Results == [n : Nat, ok : BOOLEAN]

\* born and n are the epochs of its creation and of its latest initiation
Secrets == [st : {"initiated", "started", "done"}, result : Results \cup {None}, n : Nat, born : Nat]

\* the condition's reason, the epoch it was written in, the annotation
Deployments ==
    [reason : {"none", "InProgress", "Completed", "Error"}, at : Nat, ann : Results \cup {None}]

\* reasons of the Ready condition; "none" without the condition
Reasons == {"none", "ProvisioningPostponed", "Unknown", "Provisioning", "ProvisioningNotStarted",
            "ProvisioningFailed", "Ready", "ImageLost"}

ImageObjects == [reason : Reasons, del : BOOLEAN, fin : BOOLEAN]

\* not scheduled, writing to the registry, terminated with an error, complete
Pods == {"pending", "running", "failed", "complete"}

ASSUME NoneAssumption == None \notin Results \cup Secrets \cup ImageObjects \cup Pods

Init ==
    /\ secret = None /\ csec = None /\ epoch = 0 /\ expired = 0
    /\ dep = [reason |-> "none", at |-> 0, ann |-> None] /\ cdep = dep
    /\ due = FALSE /\ crons = 0
    /\ img = [i \in Images |-> None] /\ ci = img /\ awake = {}
    /\ source = Images \ Late
    /\ pod = [i \in Images |-> None] /\ created = [i \in Images |-> 0]
    /\ reg = {} /\ mode = "rw" /\ cleaner = "off" /\ found = {} /\ faults = 0

Fresh == csec = secret /\ cdep = dep /\ ci = img

May(kind) == IF kind \in Faults /\ faults < MaxFaults THEN BOOLEAN ELSE {FALSE}

Cost(fault) == IF fault THEN 1 ELSE 0
-----------------------------------------------------------------------------
(* DVCRService, on a copy s of the secret.                                 *)

IsGarbageCollectionStarted(s) == s # None /\ s.st = "started"

IsGarbageCollectionDone(s) == s # None /\ s.st = "done"

IsGarbageCollectionInitiatedOrInProgress(s) == s # None /\ s.st # "done"

CreateGarbageCollectionSecret ==
    [st |-> "initiated", result |-> None, n |-> epoch + 1, born |-> epoch + 1]

\* a secret that exists is reset and keeps its age
InitiateGarbageCollectionMode ==
    IF secret = None THEN CreateGarbageCollectionSecret
    ELSE [CreateGarbageCollectionSecret EXCEPT !.born = secret.born]

\* the condition is newer than the secret, or the annotation has its result
IsGarbageCollectionResultPersisted(s, d) ==
    IF d.reason \in {"Completed", "Error"} THEN d.at >= s.born
    ELSE s.result # None /\ d.ann = s.result

ParseGarbageCollectionResult(s) == IF s.result.ok THEN "Completed" ELSE "Error"
-----------------------------------------------------------------------------
(* The garbage collection controller.  Its reconciles end with the update  *)
(* of the Deployment, refused when the copy is old.                        *)

\* mutant: the reason is mistyped
Mistypes(reason) == [cdep EXCEPT !.reason = "Progress", !.at = epoch]

UpdateGarbageCollectionCondition(reason) == [cdep EXCEPT !.reason = reason, !.at = epoch]

UpdateDeployment(d, lost) == dep' = IF cdep # dep \/ lost THEN dep ELSE d

\* the request of the schedule; it comes again when a write was refused
CronReconcile ==
    /\ due
    /\ Prompt => Fresh
    /\ \E lost \in May("deploy") :
        /\ UpdateDeployment(UpdateGarbageCollectionCondition("InProgress"), lost)
        /\ secret' = IF csec = secret THEN InitiateGarbageCollectionMode ELSE secret
        /\ epoch' = IF csec = secret THEN epoch + 1 ELSE epoch
        /\ due' = (csec # secret \/ cdep # dep \/ lost)
        /\ faults' = faults + Cost(lost)
    /\ UNCHANGED <<csec, expired, cdep, crons, objects, registry>>

ListAllInProvisioning ==
    {i \in Images : ci[i] # None /\ ~ci[i].del /\ ci[i].reason = "Provisioning"}

\* the annotation that starts the collection; nothing is reported when it is refused
SwitchToGarbageCollectionMode(lost) ==
    IF csec = secret
    THEN /\ secret' = [secret EXCEPT !.st = "started"]
         /\ UpdateDeployment(UpdateGarbageCollectionCondition("InProgress"), lost)
    ELSE UNCHANGED <<secret, dep>>

\* mutant: the secret of a finished garbage collection is kept
KeepsSecret(reason, ann, lost) ==
    /\ UpdateDeployment([UpdateGarbageCollectionCondition(reason) EXCEPT !.ann = ann], lost)
    /\ UNCHANGED secret

\* mutant: the secret is deleted together with the first attempt to report
DeletesAtOnce(reason, ann, lost) ==
    /\ UpdateDeployment([UpdateGarbageCollectionCondition(reason) EXCEPT !.ann = ann], lost)
    /\ secret' = None

\* report the outcome, and delete the secret once it is reported
Finish(reason, ann, lost) ==
    IF IsGarbageCollectionResultPersisted(csec, cdep)
    THEN secret' = None /\ UNCHANGED dep
    ELSE /\ UpdateDeployment([UpdateGarbageCollectionCondition(reason) EXCEPT !.ann = ann], lost)
         /\ UNCHANGED secret

\* the requests of the secret
SecretReconcile ==
    /\ csec # None
    /\ Prompt => Fresh
    /\ \E lost \in May("deploy") :
        /\ faults' = faults + Cost(lost)
        /\ IF IsGarbageCollectionDone(csec)
           THEN Finish(ParseGarbageCollectionResult(csec), csec.result, lost)
           ELSE IF ~IsGarbageCollectionStarted(csec) /\ ListAllInProvisioning = {}
           THEN SwitchToGarbageCollectionMode(lost)
           ELSE IF csec.born <= expired
           THEN Finish("Error", None, lost)
           ELSE /\ UpdateDeployment(UpdateGarbageCollectionCondition("InProgress"), lost)
                /\ UNCHANGED secret
    /\ UNCHANGED <<csec, epoch, expired, cdep, due, crons, objects, registry>>
-----------------------------------------------------------------------------
(* The image controller.  c is the cached copy of image i.                 *)

\* PostponeHandler stops the chain of handlers
Postpones(c) ==
    /\ c.reason \in {"none", "ProvisioningPostponed"}
    /\ IsGarbageCollectionInitiatedOrInProgress(csec)

\* the condition the chain goes on with; LifeCycleHandler adds one that is missing
ReadyReason(c) == IF c.reason \in {"none", "ProvisioningPostponed"} THEN "Unknown" ELSE c.reason

\* the reason set, whether a pod is started or cleaned up, and a request comes again
Outcome(reason, start, cleanUp, again) ==
    [reason |-> reason, start |-> start, cleanUp |-> cleanUp, again |-> again]

\* mutant: nothing polls a pod that is running
DoesNotPoll(p) ==
    CASE p = "pending" -> Outcome("ProvisioningNotStarted", FALSE, FALSE, FALSE)
      [] p = "failed"  -> Outcome("ProvisioningFailed", FALSE, FALSE, FALSE)
      [] p = "running" -> Outcome("Provisioning", FALSE, FALSE, FALSE)

\* StatService: a pod not scheduled or with an error is reported, and not asked again
CheckPod(p) ==
    CASE p = "pending" -> Outcome("ProvisioningNotStarted", FALSE, FALSE, FALSE)
      [] p = "failed"  -> Outcome("ProvisioningFailed", FALSE, FALSE, FALSE)
      [] p = "running" -> Outcome("Provisioning", FALSE, FALSE, TRUE)

\* Sync of the data source, with Ready reason r
Sync(i, r) ==
    IF r = "Ready" THEN Outcome("Ready", FALSE, TRUE, FALSE)
    ELSE IF pod[i] = None THEN Outcome("Provisioning", TRUE, FALSE, TRUE)
    ELSE IF pod[i] = "complete" THEN Outcome("Ready", FALSE, FALSE, TRUE)
    ELSE CheckPod(pod[i])

\* LifeCycleHandler; the generation is not yet observed in the first reconcile
LifeCycle(i, c) ==
    IF c.del \/ c.reason = "ImageLost" \/ i \notin source
    THEN Outcome(ReadyReason(c), FALSE, FALSE, FALSE)
    ELSE IF c.reason = "none" THEN Outcome("Unknown", FALSE, TRUE, TRUE)
    ELSE Sync(i, ReadyReason(c))

\* ImagePresenceHandler
ImagePresence(i, c, r) ==
    IF c.del \/ r \notin {"Ready", "ImageLost"} THEN r
    ELSE IF i \in reg THEN "Ready" ELSE "ImageLost"

\* DeletionHandler: the finalizer stays while there is a pod to clean up
KeepsFinalizer(i, c) == c.del => pod[i] # None

\* Resource.Update: the status if it differs, then the finalizer if it differs
Refused(i, c, reason, lost) == lost \/ (reason # c.reason /\ img[i] # None /\ img[i] # c)

Update(i, c, reason, fin, lost) ==
    LET o == IF reason = c.reason THEN img[i] ELSE [img[i] EXCEPT !.reason = reason] IN
    IF img[i] = None \/ Refused(i, c, reason, lost) THEN img[i]
    ELSE IF fin = c.fin THEN o
    ELSE IF fin THEN [o EXCEPT !.fin = TRUE] ELSE None

\* the pod after the handlers: deleted, or started and perhaps not scheduled at once
PodAfter(i, c, o, unscheduled) ==
    IF c.del \/ o.cleanUp THEN None
    ELSE IF o.start THEN IF unscheduled THEN "pending" ELSE "running"
    ELSE pod[i]

ImageReconcile(i) ==
    /\ i \in awake /\ ci[i] # None
    /\ Prompt => Fresh
    /\ LET c == ci[i]
           o == LifeCycle(i, c)
           reason == IF Postpones(c) THEN "ProvisioningPostponed" ELSE ImagePresence(i, c, o.reason)
           fin == IF Postpones(c) THEN c.fin ELSE KeepsFinalizer(i, c)
           again == Postpones(c) \/ o.again \/ reason = "ImageLost" \/ (c.del /\ fin)
       IN  \E lost \in May("write"), unscheduled \in May("schedule") :
            /\ faults' = faults + Cost(lost) + Cost(unscheduled)
            /\ faults' <= MaxFaults
            /\ img' = [img EXCEPT ![i] = Update(i, c, reason, fin, lost)]
            /\ pod' = IF Postpones(c) \/ img[i] = None THEN pod
                      ELSE [pod EXCEPT ![i] = PodAfter(i, c, o, unscheduled)]
            /\ awake' = IF again \/ Refused(i, c, reason, lost) THEN awake ELSE awake \ {i}
    /\ UNCHANGED <<gc, ci, source, created, registry>>
-----------------------------------------------------------------------------
(* Importer pods, the registry and the cleaner.                            *)

PodStep(i, from, to) ==
    /\ pod[i] = from
    /\ pod' = [pod EXCEPT ![i] = to]
    /\ UNCHANGED <<gc, img, ci, awake, source, created>>

\* the image is written; until the registry is writable the importer retries
Push(i) ==
    /\ mode = "rw"
    /\ PodStep(i, "running", "complete")
    /\ reg' = reg \cup {i}
    /\ UNCHANGED <<mode, cleaner, found, faults>>

ImportFails(i) ==
    /\ TRUE \in May("attempt")
    /\ PodStep(i, "running", "failed")
    /\ faults' = faults + 1
    /\ UNCHANGED registry

\* OnFailure: the container is started again
PodRestarts(i) == PodStep(i, "failed", "running") /\ UNCHANGED <<registry, faults>>

PodScheduled(i) == PodStep(i, "pending", "running") /\ UNCHANGED <<registry, faults>>

GarbageCollectionMode == IF IsGarbageCollectionStarted(secret) THEN "ro" ELSE "rw"

\* mutant: the old pod's cleaner goes on while the new pod is already writable
RollsOver ==
    /\ mode # GarbageCollectionMode
    /\ mode' = GarbageCollectionMode
    /\ cleaner' = IF mode' = "ro" THEN "start" ELSE cleaner
    /\ found' = IF mode' = "ro" THEN {} ELSE found
    /\ UNCHANGED <<gc, objects, reg, faults>>

\* the hook's value redeploys the registry: the old pod ends before the new one starts
Hook ==
    /\ mode # GarbageCollectionMode
    /\ mode' = GarbageCollectionMode
    /\ cleaner' = IF mode' = "ro" THEN "start" ELSE "off"
    /\ found' = {}
    /\ UNCHANGED <<gc, objects, reg, faults>>

ListImagesAll ==
    /\ cleaner = "start"
    /\ cleaner' = "listed" /\ found' = reg
    /\ UNCHANGED <<gc, objects, reg, mode, faults>>

\* the images the cluster has are not removed
CompareRegistryAndClusterImages ==
    /\ cleaner = "listed"
    /\ cleaner' = "remove" /\ found' = {i \in found : img[i] = None}
    /\ UNCHANGED <<gc, objects, reg, mode, faults>>

RemoveImage(i) ==
    /\ cleaner = "remove" /\ i \in found
    /\ reg' = reg \ {i} /\ found' = found \ {i}
    /\ UNCHANGED <<gc, objects, mode, cleaner, faults>>

ExecGarbageCollect ==
    /\ cleaner = "remove" /\ found = {}
    /\ \E failed \in May("collect") :
        /\ cleaner' = IF failed THEN "failed" ELSE "succeeded"
        /\ faults' = faults + Cost(failed)
    /\ UNCHANGED <<gc, objects, reg, mode, found>>

\* the secret is done, whatever its state; without a secret, or after an error, the
\* cleaner exits and is started again
AnnotateOnCleanupDone ==
    /\ cleaner \in {"succeeded", "failed"}
    /\ LET ok == cleaner = "succeeded" IN
       /\ secret' = IF secret = None THEN None
                    ELSE [secret EXCEPT !.st = "done", !.result = [n |-> secret.n, ok |-> ok]]
       /\ cleaner' = IF ok /\ secret # None THEN "wait" ELSE "start"
    /\ UNCHANGED <<csec, epoch, expired, dep, cdep, due, crons, objects, reg, mode, found, faults>>

CleanerRestarts ==
    /\ cleaner \notin {"off", "start"} /\ TRUE \in May("cleaner")
    /\ cleaner' = "start" /\ found' = {} /\ faults' = faults + 1
    /\ UNCHANGED <<gc, objects, reg, mode>>

CleanerStep ==
    \/ ListImagesAll
    \/ CompareRegistryAndClusterImages
    \/ \E i \in Images : RemoveImage(i)
    \/ ExecGarbageCollect
    \/ AnnotateOnCleanupDone
-----------------------------------------------------------------------------
(* Users, time and the caches.                                             *)

\* an image is created again once the caches have seen it gone
Create(i) ==
    /\ img[i] = None /\ ci[i] = None /\ pod[i] = None
    /\ created[i] < (IF i \in Deletable THEN MaxCreate ELSE 1)
    /\ img' = [img EXCEPT ![i] = [reason |-> "none", del |-> FALSE, fin |-> FALSE]]
    /\ created' = [created EXCEPT ![i] = @ + 1]
    /\ UNCHANGED <<gc, ci, awake, source, pod, registry, faults>>

\* without its finalizer the image is gone, and its pod with it
Delete(i) ==
    /\ i \in Deletable /\ img[i] # None
    /\ ~img[i].del
    /\ img' = [img EXCEPT ![i] = IF @.fin THEN [@ EXCEPT !.del = TRUE] ELSE None]
    /\ pod' = IF img[i].fin THEN pod ELSE [pod EXCEPT ![i] = None]
    /\ UNCHANGED <<gc, ci, awake, source, created, registry, faults>>

\* the watchers of the object the image is made from
DataSourceReady(i) ==
    /\ i \notin source
    /\ source' = source \cup {i} /\ awake' = awake \cup {i}
    /\ UNCHANGED <<gc, img, ci, pod, created, registry, faults>>

\* the schedule of garbage collection
CronSource ==
    /\ ~due /\ crons < MaxCron
    /\ due' = TRUE /\ crons' = crons + 1
    /\ UNCHANGED <<secret, csec, epoch, expired, dep, cdep, objects, registry, faults>>

\* GarbageCollectionTimeout and WaitProvisionersTimeout, both since the secret's creation
Elapse ==
    /\ Timeouts /\ secret # None
    /\ secret.born > expired
    /\ expired' = secret.born
    /\ UNCHANGED <<secret, csec, epoch, dep, cdep, due, crons, objects, registry, faults>>

\* the controller's own watch asks for a reconcile when the generation changes
SyncImage(i) ==
    /\ ci[i] # img[i]
    /\ ci' = [ci EXCEPT ![i] = img[i]]
    /\ awake' = IF img[i] = None THEN awake \ {i}
                ELSE IF (IF ci[i] = None THEN TRUE ELSE img[i].del # ci[i].del) THEN awake \cup {i}
                ELSE awake
    /\ UNCHANGED <<gc, img, source, pod, created, registry, faults>>

SyncGC ==
    /\ csec # secret \/ cdep # dep
    /\ csec' \in {csec, secret} /\ cdep' \in {cdep, dep}
    /\ <<csec', cdep'>> # <<csec, cdep>>
    /\ UNCHANGED <<secret, epoch, expired, dep, due, crons, objects, registry, faults>>

Next ==
    \/ CronSource \/ Elapse \/ CronReconcile \/ SecretReconcile \/ SyncGC
    \/ Hook \/ CleanerStep \/ CleanerRestarts
    \/ \E i \in Images :
        \/ Create(i) \/ Delete(i) \/ DataSourceReady(i) \/ SyncImage(i) \/ ImageReconcile(i)
        \/ Push(i) \/ ImportFails(i) \/ PodRestarts(i) \/ PodScheduled(i)

Spec == Init /\ [][Next]_vars

\* controllers serve their queues, caches catch up, hooks run, pods end, time passes
Fairness ==
    /\ WF_vars(CronReconcile) /\ WF_vars(SecretReconcile)
    /\ WF_vars(csec # secret /\ SyncGC) /\ WF_vars(cdep # dep /\ SyncGC)
    /\ WF_vars(Hook) /\ WF_vars(CleanerStep) /\ WF_vars(Elapse)
    /\ \A i \in Images :
        /\ WF_vars(DataSourceReady(i)) /\ WF_vars(SyncImage(i)) /\ WF_vars(ImageReconcile(i))
        /\ WF_vars(Push(i)) /\ WF_vars(PodRestarts(i)) /\ WF_vars(PodScheduled(i))

FairSpec == Spec /\ Fairness
-----------------------------------------------------------------------------
\* Every variable has its type: the secret, the Deployment's condition, the images and
\* pods, where the cleaner is, and the counters within their bounds.
TypeOK ==
    /\ {secret, csec} \subseteq Secrets \cup {None}
    /\ {dep, cdep} \subseteq Deployments
    /\ {epoch, expired} \subseteq Nat /\ due \in BOOLEAN /\ crons \in 0..MaxCron
    /\ {img, ci} \subseteq [Images -> ImageObjects \cup {None}]
    /\ {awake, source, reg, found} \subseteq SUBSET Images
    /\ pod \in [Images -> Pods \cup {None}]
    /\ created \in [Images -> 0..MaxCreate]
    /\ mode \in {"rw", "ro"}
    /\ cleaner \in {"off", "start", "listed", "remove", "failed", "succeeded", "wait"}
    /\ faults \in 0..MaxFaults

\* The cleaner never removes an image that is in use: an image reported Ready, and not
\* being deleted, is in the registry.
ReadyIsStored ==
    \A i \in Images : (IF img[i] = None THEN FALSE ELSE img[i].reason = "Ready" /\ ~img[i].del) => i \in reg

\* The secret is deleted only after what became of the garbage collection is reported in
\* the Deployment: an outcome of its latest initiation, or an error since then
\* ("Requeue to delete secret only after deployment update succeeds").
ReportedStep ==
    secret # None /\ secret' = None =>
        \/ IF dep.ann = None THEN FALSE ELSE dep.ann.n = secret.n
        \/ dep.reason = "Error" /\ dep.at >= secret.n
Reported == [][ReportedStep]_vars

\* Garbage collection comes to an end: the secret is deleted and the registry is
\* writable again, whatever the cleaner meets.
MaintenanceEnds == []<>(secret = None /\ mode = "rw")

\* Every image becomes Ready unless it is deleted, also when its import was postponed or
\* was under way when the registry became read-only.
EveryImageReady ==
    \A i \in Images :
        img[i] # None ~> (IF img[i] = None THEN TRUE ELSE img[i].del \/ img[i].reason = "Ready")
=============================================================================
