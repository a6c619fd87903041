---------------------------- MODULE CDController ----------------------------
(***************************************************************************)
(* The CD reconciler (internal/controller/cd_controller.go) working on ONE *)
(* CD object: it puts the CI's latest image into a Deployment, exposes it  *)
(* with a Kubernetes Service and reports the rollout in the CD status.     *)
(*                                                                         *)
(* Unlike the CI reconciler it patches the status WITHOUT an optimistic    *)
(* lock: the merge patch holds the fields in which the new status differs  *)
(* from the cached copy the reconcile started from.  Caches trail the API  *)
(* server; a reconcile is split at every API call.                         *)
(***************************************************************************)
EXTENDS Naturals, Sequences

CONSTANTS
  Faults,     \* the things that may go wrong in this instance
  MaxChanges, \* bound: images the CI builds, and edits of replicas, env, port,
              \*   resources and pull secret, taken together
  MaxLag,     \* bound: versions of the CD the informer may trail by
  MaxFaults   \* bound: faults together

Needs == {"ci", "secrets"}   \* the CI resolves; every Secret of the Pod is allowed

ASSUME FaultsAssumption ==
  Faults \subseteq Needs \cup {"stall", "unavailable", "crash", "api", "delete", "remove"}
ASSUME BoundsAssumption == {MaxChanges, MaxLag, MaxFaults} \subseteq Nat

VARIABLES
  image,      \* status.image of the CI: its n-th image, 0 before the first
  imageCache, \* the same in the informer cache
  cd,         \* the CD at the API server
  watch,      \* versions of the CD the informer has not delivered yet
  cache,      \* the CD in the informer cache
  deploy, deployCache,   \* the Deployment
  deployFresh,           \* deployCache has the resourceVersion of deploy
  expose, exposeCache,   \* the config of the Kubernetes Service (0: none)
  exposeFresh,           \* exposeCache has the resourceVersion of expose
  ready,      \* the needs that are met at the moment
  budget,     \* faults that may still happen
  queued,     \* the work queue holds the CD
  pc,         \* the next API call of the running reconcile
  orig, my,   \* the CD as it was read, and with its new status
  mine,       \* orig has the resourceVersion of cd
  target,     \* the image this reconcile deploys
  got,        \* the Deployment that CreateOrUpdate returned
  rolled      \* history: the latest image a Deployment was given

vars == <<image, imageCache, cd, watch, cache, deploy, deployCache, deployFresh,
          expose, exposeCache, exposeFresh, ready, budget, queued,
          pc, orig, my, mine, target, got, rolled>>
ciVars     == <<image, imageCache>>
cdVars     == <<cd, watch, cache>>
deployVars == <<deploy, deployCache, deployFresh, rolled>>
exposeVars == <<expose, exposeCache, exposeFresh>>
childVars  == <<deployVars, exposeVars>>
outside    == <<ready, budget>>
reconciler == <<pc, orig, my, mine, target, got>>

\* The spec of the CD is its config number (replicas, env, port, ...).
Phases  == {"unset", "Waiting", "Deploying", "Running", "Failed"}
Reasons == {"unset", "CIResolveFailed", "WaitingForCI", "SecretNotAllowed", "DeploymentFailed",
            "ServiceFailed", "Deployed", "ProgressDeadlineExceeded", "RollingOut"}
Version == [life: {"new", "live", "deleting", "gone"}, config: Nat,
            phase: Phases, reason: Reasons, image: Nat]

\* A Deployment (gen 0: none): its template, the generation its controller has
\* observed, and how the rollout of that generation stands.
Deployment == [gen: Nat, image: Nat, config: Nat, observed: Nat,
               state: {"progressing", "available", "stalled"}]
NoDeployment == [gen |-> 0, image |-> 0, config |-> 0, observed |-> 0,
                 state |-> "progressing"]
NoVersion == [life |-> "gone", config |-> 0, phase |-> "unset", reason |-> "unset", image |-> 0]

Init ==
  /\ image = 0 /\ imageCache = 0
  /\ cd = [NoVersion EXCEPT !.life = "new", !.config = 1]
  /\ cache = cd /\ watch = <<>>
  /\ deploy = NoDeployment /\ deployCache = deploy /\ deployFresh = TRUE
  /\ expose = 0 /\ exposeCache = 0 /\ exposeFresh = TRUE
  /\ ready = Needs /\ budget = MaxFaults /\ queued = TRUE
  /\ pc = "idle" /\ orig = NoVersion /\ my = NoVersion /\ mine = FALSE
  /\ target = 0 /\ got = NoDeployment /\ rolled = 0

-----------------------------------------------------------------------------
(* Pure parts.                                                             *)

setCDCondition(v, phase, reason) == [v EXCEPT !.phase = phase, !.reason = reason]

RolledOut(d) == d.observed >= d.gen /\ d.state = "available"

\* The Progressing condition, whatever generation it was written for.
deployFailed(d) == d.state = "stalled"

\* Mutant: the image reported is the latest one known, not the one deployed.
StatusOf_latest(v, img, d) ==
  IF RolledOut(d) THEN [setCDCondition(v, "Running", "Deployed") EXCEPT !.image = imageCache]
  ELSE [setCDCondition(v, "Deploying", "RollingOut") EXCEPT !.image = imageCache]

\* The status after Deployment and Service are in place.
StatusOf(v, img, d) ==
  LET w == [v EXCEPT !.image = img]
  IN  CASE RolledOut(d)    -> setCDCondition(w, "Running", "Deployed")
        [] ~ RolledOut(d) /\ deployFailed(d) ->
             setCDCondition(w, "Failed", "ProgressDeadlineExceeded")
        [] OTHER           -> setCDCondition(w, "Deploying", "RollingOut")

\* Mutant: the patch is computed the wrong way round.
MergePatch_reversed(server, old, new) ==
  [server EXCEPT
     !.phase  = IF new.phase  = old.phase  THEN @ ELSE old.phase,
     !.reason = IF new.reason = old.reason THEN @ ELSE old.reason,
     !.image  = IF new.image  = old.image  THEN @ ELSE old.image]

\* client.MergeFrom: only the fields in which new differs from old are sent.
\* The reason is sent with its message, which names the image.
MergePatch(server, old, new) ==
  [server EXCEPT
     !.phase  = IF new.phase  = old.phase  THEN @ ELSE new.phase,
     !.reason = IF new.reason = old.reason /\ new.image = old.image THEN @ ELSE new.reason,
     !.image  = IF new.image  = old.image  THEN @ ELSE new.image]

-----------------------------------------------------------------------------
(* The steps of Reconcile.                                                 *)

\* A write of the CD, which the watch will deliver.
Store(v) == Len(watch) < MaxLag /\ cd' = v /\ watch' = Append(watch, v)

Return(requeue) ==
  /\ pc' = "idle" /\ orig' = NoVersion /\ my' = NoVersion /\ mine' = FALSE /\ target' = 0
  /\ got' = NoDeployment /\ queued' = (queued \/ requeue)

\* Carry on with patchStatus, and ask for another reconcile or not.
Patch(label, v) == pc' = label /\ my' = v

\* Mutant: finish the rollout the CD reports before the next one.
Deploys_reported(v) == IF v.image # 0 /\ v.phase # "Running" THEN v.image ELSE imageCache

\* The image of the cached CI.
Deploys(v) == imageCache

\* Reconcile, from the cached CD and CI up to the first API call.
ReadAndDecide(v) ==
  \/ /\ v.life = "gone"
     /\ UNCHANGED reconciler
  \/ /\ v.life # "gone"
     /\ orig' = v /\ mine' = (watch = <<>>) /\ target' = Deploys(v) /\ UNCHANGED got
     /\ \/ /\ v.life \in {"new", "deleting"}
           /\ Patch("finalizer", v)
        \/ /\ v.life = "live" /\ "ci" \notin ready
           /\ Patch("patchAndRetry", setCDCondition(v, "Waiting", "CIResolveFailed"))
        \/ /\ v.life = "live" /\ "ci" \in ready /\ imageCache = 0
           /\ Patch("patch", setCDCondition(v, "Waiting", "WaitingForCI"))
        \/ /\ v.life = "live" /\ "ci" \in ready /\ imageCache # 0
           /\ \/ /\ "secrets" \notin ready
                 /\ Patch("patch", setCDCondition(v, "Failed", "SecretNotAllowed"))
              \/ /\ "secrets" \in ready
                 /\ Patch("deployment", v)

Reconcile ==
  /\ pc = "idle" /\ queued /\ queued' = FALSE
  /\ ReadAndDecide(cache)
  /\ UNCHANGED <<ciVars, cdVars, childVars, outside>>

\* Mutant: a CD being deleted keeps its finalizer.
UpdateFinalizer_kept ==
  /\ pc = "finalizer"
  /\ \/ /\ my.life = "new" /\ mine
        /\ Store([cd EXCEPT !.life = "live"]) /\ Return(TRUE)
     \/ /\ my.life = "new" /\ ~ mine
        /\ Return(TRUE) /\ UNCHANGED <<cd, watch>>
     \/ /\ my.life # "new" /\ Return(FALSE) /\ UNCHANGED <<cd, watch>>
  /\ UNCHANGED <<ciVars, cache, childVars, outside>>

\* Update that adds the finalizer, or removes it from a CD being deleted.
UpdateFinalizer ==
  /\ pc = "finalizer"
  /\ \/ /\ mine
        /\ Store([cd EXCEPT !.life = IF my.life = "new" THEN "live" ELSE "gone"])
        /\ Return(my.life = "new")
     \/ ~ mine /\ Return(TRUE) /\ UNCHANGED <<cd, watch>>
  /\ UNCHANGED <<ciVars, cache, childVars, outside>>

\* A Deployment with the wanted template: a new generation unless it is equal.
Wanted(d) == d.gen > 0 /\ d.image = target /\ d.config = my.config
Updated(d) ==
  IF Wanted(d) THEN d
  ELSE [d EXCEPT !.gen = d.gen + 1, !.image = target, !.config = my.config]

\* How the write of CreateOrUpdate ends, given that the cached object and the
\* one at the API server exist or not: a create needs that there is none, an
\* update that the cached one is the current one.
Applies(cached, current, fresh) == IF cached THEN current /\ fresh ELSE ~ current
Conflicts(cached, current, fresh) == cached /\ current /\ ~ fresh
Rejected(cached, current) == cached # current   \* AlreadyExists, NotFound

\* CreateOrUpdate of the Deployment.  The Pod spec it sets lacks what the API
\* server fills in, so the cached Deployment never compares equal and every
\* call sends an update; one that changes nothing makes no new version.
reconcileDeployment ==
  /\ pc = "deployment"
  /\ LET cached == deployCache.gen > 0  current == deploy.gen > 0
     IN  \/ /\ Applies(cached, current, deployFresh)
            /\ deploy' = Updated(deploy) /\ got' = deploy' /\ pc' = "service"
            /\ rolled' = target
            /\ deployFresh' = (deployFresh /\ Wanted(deploy))
            /\ UNCHANGED <<orig, my, mine, target, queued>>
         \/ /\ Conflicts(cached, current, deployFresh)
            /\ Return(TRUE) /\ UNCHANGED <<deploy, deployFresh, rolled>>
         \/ /\ Rejected(cached, current)
            /\ Patch("patchAndRetry", setCDCondition(my, "Failed", "DeploymentFailed"))
            /\ UNCHANGED <<deploy, deployFresh, rolled, orig, mine, target, got, queued>>
  /\ UNCHANGED <<ciVars, cdVars, deployCache, exposeVars, outside>>

\* CreateOrUpdate of the Kubernetes Service, then the status.
reconcileService ==
  /\ pc = "service"
  /\ LET cached == exposeCache > 0  current == expose > 0
     IN  \/ /\ exposeCache = my.config              \* equal: nothing is sent
            /\ Patch("patch", StatusOf(my, target, got))
            /\ UNCHANGED <<expose, exposeFresh, orig, mine, target, got, queued>>
         \/ /\ exposeCache # my.config /\ Applies(cached, current, exposeFresh)
            /\ expose' = my.config /\ exposeFresh' = FALSE
            /\ Patch("patch", StatusOf(my, target, got))
            /\ UNCHANGED <<orig, mine, target, got, queued>>
         \/ /\ exposeCache # my.config /\ Conflicts(cached, current, exposeFresh)
            /\ Return(TRUE) /\ UNCHANGED <<expose, exposeFresh>>
         \/ /\ exposeCache # my.config /\ Rejected(cached, current)
            /\ Patch("patchAndRetry", setCDCondition(my, "Failed", "ServiceFailed"))
            /\ UNCHANGED <<expose, exposeFresh, orig, mine, target, got, queued>>
  /\ UNCHANGED <<ciVars, cdVars, deployVars, exposeCache, outside>>

\* The merge patch, without a lock; a CD that is gone gives an error.
patchStatus ==
  /\ pc \in {"patch", "patchAndRetry"}
  /\ LET w == MergePatch(cd, orig, my)
     IN  \/ cd.life # "gone" /\ w # cd /\ Store(w)
         \/ (cd.life = "gone" \/ w = cd) /\ UNCHANGED <<cd, watch>>
  /\ Return(pc = "patchAndRetry" \/ cd.life = "gone")
  /\ UNCHANGED <<ciVars, cache, childVars, outside>>

ControllerStep ==
  Reconcile \/ UpdateFinalizer \/ reconcileDeployment \/ reconcileService \/ patchStatus

-----------------------------------------------------------------------------
(* Informer caches; each delivery enqueues the CD (SetupWithManager).      *)

CacheSync ==
  /\ watch # <<>> /\ cache' = Head(watch) /\ watch' = Tail(watch) /\ queued' = TRUE
  /\ UNCHANGED <<ciVars, cd, childVars, outside, reconciler>>

ImageCacheSync ==
  /\ \E n \in (imageCache + 1) .. image : imageCache' = n
  /\ queued' = TRUE
  /\ UNCHANGED <<image, cdVars, childVars, outside, reconciler>>

\* Mutant: the Deployment is not watched, so that its changes wake nobody.
DeployCacheSync_unwatched ==
  /\ ~ deployFresh /\ deployFresh' = TRUE /\ deployCache' = deploy
  /\ UNCHANGED <<ciVars, cdVars, deploy, rolled, exposeVars, outside, queued, reconciler>>

DeployCacheSync ==
  /\ ~ deployFresh /\ deployFresh' = TRUE /\ deployCache' = deploy /\ queued' = TRUE
  /\ UNCHANGED <<ciVars, cdVars, deploy, rolled, exposeVars, outside, reconciler>>

ExposeCacheSync ==
  /\ ~ exposeFresh /\ exposeFresh' = TRUE /\ exposeCache' = expose /\ queued' = TRUE
  /\ UNCHANGED <<ciVars, cdVars, expose, deployVars, outside, reconciler>>

-----------------------------------------------------------------------------
(* The Deployment controller of Kubernetes.                                *)

DeploymentTurns(observed, state) ==
  /\ deploy' = [deploy EXCEPT !.observed = observed, !.state = state] /\ deployFresh' = FALSE
  /\ UNCHANGED <<ciVars, cdVars, deployCache, rolled, exposeVars, queued, reconciler>>

Observe ==    \* sees a new template and starts to roll it out
  /\ deploy.observed < deploy.gen
  /\ DeploymentTurns(deploy.gen, "progressing") /\ UNCHANGED outside

Complete ==   \* every replica is updated and available
  /\ deploy.gen > 0 /\ deploy.observed = deploy.gen /\ deploy.state # "available"
  /\ DeploymentTurns(deploy.gen, "available") /\ UNCHANGED outside

Fault(kind) == kind \in Faults /\ budget > 0 /\ budget' = budget - 1

Stall ==      \* progressDeadlineSeconds pass
  /\ Fault("stall") /\ deploy.gen > 0 /\ deploy.observed = deploy.gen
  /\ deploy.state = "progressing"
  /\ DeploymentTurns(deploy.gen, "stalled")
  /\ UNCHANGED ready

Unavailable ==  \* a replica dies after the rollout
  /\ Fault("unavailable") /\ deploy.state = "available" /\ deploy.observed = deploy.gen
  /\ DeploymentTurns(deploy.gen, "progressing") /\ UNCHANGED ready

-----------------------------------------------------------------------------
(* The world around.                                                       *)

\* A write by someone else, so no copy read before it is the current one.
OthersStore(v) == Store(v) /\ mine' = FALSE /\ UNCHANGED <<pc, orig, my, target, got>>

Build ==      \* the CI controller records a new image
  /\ image + cd.config <= MaxChanges /\ image' = image + 1
  /\ UNCHANGED <<imageCache, cdVars, childVars, outside, queued, reconciler>>

EditSpec ==   \* CI and Service controllers edit the spec of the CD
  /\ cd.life \in {"new", "live"} /\ image + cd.config <= MaxChanges
  /\ OthersStore([cd EXCEPT !.config = cd.config + 1])
  /\ UNCHANGED <<ciVars, cache, childVars, outside, queued>>

DeleteCD ==
  /\ Fault("delete") /\ cd.life = "live" /\ OthersStore([cd EXCEPT !.life = "deleting"])
  /\ UNCHANGED <<ciVars, cache, childVars, ready, queued>>

\* A user removes the Deployment and the Kubernetes Service by hand, or they
\* are garbage collected after the CD.
RemoveChildren ==
  /\ \/ Fault("remove") /\ cd.life # "gone"
     \/ cd.life = "gone" /\ UNCHANGED budget
  /\ deploy.gen > 0 \/ expose > 0
  /\ deploy' = NoDeployment /\ deployFresh' = (deployFresh /\ deploy.gen = 0)
  /\ expose' = 0 /\ exposeFresh' = (exposeFresh /\ expose = 0)
  /\ UNCHANGED <<ciVars, cdVars, deployCache, rolled, exposeCache, ready, queued, reconciler>>

Break(need) ==
  /\ need \in ready /\ Fault(need) /\ ready' = ready \ {need}
  /\ UNCHANGED <<ciVars, cdVars, childVars, queued, reconciler>>

Repair(need) ==
  /\ need \notin ready /\ ready' = ready \cup {need}
  /\ UNCHANGED <<ciVars, cdVars, childVars, budget, queued, reconciler>>

ApiError ==   \* the pending API call fails and the key is retried
  /\ pc # "idle" /\ Fault("api") /\ Return(TRUE)
  /\ UNCHANGED <<ciVars, cdVars, childVars, ready>>

Crash ==
  /\ Fault("crash")
  /\ imageCache' = image /\ cache' = cd /\ watch' = <<>>
  /\ deployCache' = deploy /\ deployFresh' = TRUE /\ exposeCache' = expose /\ exposeFresh' = TRUE
  /\ pc' = "idle" /\ orig' = NoVersion /\ my' = NoVersion /\ mine' = FALSE /\ target' = 0
  /\ got' = NoDeployment /\ queued' = TRUE
  /\ UNCHANGED <<image, cd, deploy, rolled, expose, ready>>

Next ==
  \/ ControllerStep
  \/ CacheSync \/ ImageCacheSync \/ DeployCacheSync \/ ExposeCacheSync
  \/ Observe \/ Complete \/ Stall \/ Unavailable
  \/ Build \/ EditSpec \/ DeleteCD \/ RemoveChildren \/ ApiError \/ Crash
  \/ \E need \in Needs : Break(need) \/ Repair(need)

Spec == Init /\ [][Next]_vars

Fairness ==
  /\ WF_vars(ControllerStep)
  /\ WF_vars(CacheSync) /\ WF_vars(ImageCacheSync) /\ WF_vars(DeployCacheSync)
  /\ WF_vars(ExposeCacheSync)
  /\ WF_vars(Observe) /\ WF_vars(Complete /\ deploy.state = "progressing")
  /\ WF_vars(RemoveChildren /\ cd.life = "gone")

FairSpec == Spec /\ Fairness

-----------------------------------------------------------------------------
(* Properties.                                                             *)

\* Types of all variables.
TypeOK ==
  /\ image \in Nat /\ imageCache \in Nat
  /\ cd \in Version /\ cache \in Version /\ watch \in Seq(Version)
  /\ {deploy, deployCache, got} \subseteq Deployment
  /\ {expose, exposeCache} \subseteq Nat /\ {deployFresh, exposeFresh, mine} \subseteq BOOLEAN
  /\ ready \subseteq Needs /\ budget \in Nat /\ queued \in BOOLEAN
  /\ pc \in {"idle", "finalizer", "deployment", "service", "patch", "patchAndRetry"}
  /\ orig \in Version /\ my \in Version /\ {target, rolled} \subseteq Nat

\* The Deployment never runs an image the CI has not built, and never goes
\* back to an earlier image: caches and conflicts delay, they do not revert.
RolloutsGoForward ==
  [][ /\ deploy'.image <= image'
      /\ deploy.gen > 0 /\ deploy'.gen > 0 => deploy'.image >= deploy.image
      /\ deploy'.image # deploy.image => deploy'.gen # deploy.gen ]_vars

\* The promise of Delivery, as an image passes from the CI through the
\* Deployment into the status.
Promise == INSTANCE Delivery WITH
  built <- image, rolledOut <- rolled, running <- deploy.image, reported <- cd.image

\* The reconciler implements that promise: whatever stale copies it acts on, it
\* rolls out built images in order, also after the Deployment was removed, and
\* the status never names an image before the Deployment had it.
DeliversInOrder == Promise!Spec

\* Deployment and Kubernetes Service are the ones that spec and CI ask for, and
\* the status is the one that is derived from them.
InPlace ==
  /\ deploy.gen > 0 /\ deploy.image = image /\ deploy.config = cd.config /\ expose = cd.config
  /\ cd = StatusOf(cd, image, deploy)

\* No wake-up of the CD is lost: when the caches show everything, no reconcile
\* runs and none is queued, a CD is gone, or live and in place, or it waits for
\* a first image or was refused for a Secret.
RolloutAtRest ==
  pc = "idle" /\ ~ queued /\ watch = <<>> /\ imageCache = image /\ deployFresh /\ exposeFresh
  => \/ cd.life = "gone"
     \/ /\ cd.life = "live"
        /\ cd.reason # "SecretNotAllowed" => IF image = 0 THEN cd.phase = "Waiting" ELSE InPlace

\* Once CI, spec and cluster have come to rest, the Deployment has the latest
\* image and configuration and the status tells how its rollout ended, also
\* if stale merge patches wrote something else in between.  Only a CD refused
\* for a Secret stays as it is, since nothing retries it.
StatusConverges ==
  []<>(\/ cd.life \in {"deleting", "gone"} \/ image = 0
       \/ ready # Needs \/ cd.reason = "SecretNotAllowed") \/
  <>[](/\ deploy.image = image /\ deploy.config = cd.config /\ expose = cd.config
       /\ cd.image = image
       /\ cd.phase = IF deploy.state = "stalled" THEN "Failed" ELSE "Running")

\* A deleted CD is released and takes its Deployment and Service with it.
DeletionRemovesChildren ==
  cd.life = "deleting" ~> (cd.life = "gone" /\ deploy.gen = 0 /\ expose = 0)

=============================================================================
