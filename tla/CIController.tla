---------------------------- MODULE CIController ----------------------------
(***************************************************************************)
(* The CI reconciler (internal/controller/ci_controller.go, ci_build.go,   *)
(* ci_plugins.go) working on ONE CI object: it builds spec.revision in a   *)
(* build Pod, follows the Pod, records the outcome in the CI status and    *)
(* makes the CD.                                                           *)
(*                                                                         *)
(* The controller reads the CI, the Pods and the CD from informer caches   *)
(* that trail the API server, and a reconcile makes several API calls.     *)
(* A reconcile is therefore split at every API call; between two of its    *)
(* steps the API server, the caches, the Pods and the operator process     *)
(* itself may move.  Reconciles of one object never overlap (one worker    *)
(* per key); `queued' says that the work queue holds the key.              *)
(***************************************************************************)
EXTENDS Naturals, FiniteSets

CONSTANTS
  Revisions,    \* commit SHAs the Service may ask for
  Registries,   \* registry/repository/credentials settings of spec.image
  PodNames,     \* names generateName may hand out
  None,         \* the empty string / nil
  Plans,        \* what may happen in a behaviour, each one follows one plan
  MaxLag        \* bound: versions of the CI the informer may trail by

\* What a build needs from outside the CI: the Service, a valid repository
\* URL in it, the push Secret, the plugins, labelled Secrets, Pod quota.
Needs == {"service", "valid", "creds", "plugins", "secrets", "quota"}

ASSUME NoneAssumption == None \notin Revisions \cup PodNames \cup Registries
\* A plan: the kinds of faults that may happen, how many of them (failing
\* builds are not counted), and a bound on the spec generations of the CI.
FaultKinds == Needs \cup {"evict", "build", "crash", "api", "delete", "cd"}
Plan == [faults: SUBSET FaultKinds, left: Nat, gens: Nat]

ASSUME PlansAssumption == Plans \subseteq Plan
ASSUME BoundsAssumption == MaxLag \in Nat

VARIABLES
  ci,       \* the CI at the API server
  watch,    \* versions of the CI the informer has not delivered yet
  cache,    \* the CI in the informer cache
  pods,     \* build Pods at the API server, with the image each one builds
  podCache, \* the Pod phases in the informer cache
  pushed,   \* history: <<image, generation>> of every finished push
  cd,       \* the CD: its version and pull settings, None while there is none
  cdCache,  \* the same in the informer cache
  ready,    \* the needs that are met at the moment
  plan,     \* the plan of this behaviour, with the faults that are left
  queued,   \* the work queue holds the CI
  pc,       \* the next API call of the running reconcile
  my,       \* its copy of the CI (my.rv: the version it was read at), or None
  then      \* what patchStatus is followed by

vars == <<ci, watch, cache, pods, podCache, pushed, cd, cdCache, ready,
          plan, queued, pc, my, then>>
api     == <<ci, watch>>                    \* written by API calls on the CI
podVars == <<pods, podCache, pushed>>
cdVars  == <<cd, cdCache>>
outside == <<ready, plan>>

Phases  == {"unset", "Idle", "Building", "Succeeded", "Failed"}
Reasons == {"unset", "Idle", "Building", "Succeeded",
            "InvalidSpec", "RegistryCredentials", "PluginUnavailable",
            "SecretNotAllowed", "PodCreateFailed", "BuildPodLost", "BuildFailed"}
Images  == Registries \X Revisions

\* A version of the CI: metadata, spec and the status fields that steer the
\* controller (image stands for image and revision, which are set together).
Version ==
  [rv: Nat, gen: Nat, life: {"new", "live", "deleting", "gone"},
   rev: Revisions \cup {None}, reg: Registries,
   phase: Phases, reason: Reasons, image: Images \cup {None},
   buildPod: PodNames \cup {None}, building: Revisions \cup {None}, observed: Nat]

\* "Running" is a Pod that is pending or running, "Pushed" one whose build
\* script has pushed the image and has yet to exit (Kubernetes: Running).
PodPhases == {"absent", "Running", "Pushed", "Succeeded", "Failed"}
Seen(phase) == IF phase = "Pushed" THEN "Running" ELSE phase
Pod == [phase: PodPhases, deleting: BOOLEAN, image: Images \cup {None}, gen: Nat]
NoPod == [phase |-> "absent", deleting |-> FALSE, image |-> None, gen |-> 0]

-----------------------------------------------------------------------------
(* Pure parts of the reconciler.                                           *)

imageRef(v) == <<v.reg, v.rev>>

setCIPhase(v, phase, reason) == [v EXCEPT !.phase = phase, !.reason = reason]

markCIFailed(v, reason) ==
  [v EXCEPT !.phase = "Failed", !.reason = reason, !.observed = v.gen]

\* The three early failures of a new build also record what was tried.
RefuseBuild(v, reason) == [markCIFailed(v, reason) EXCEPT !.building = v.rev]

\* A create that fails leaves revision and generation as they were.
PodCreateFailed(v) ==
  [markCIFailed(v, "PodCreateFailed") EXCEPT !.observed = v.observed]

\* Mutant: a new build does not record the generation it is for.
StartBuild_unobserved(v, p) ==
  [setCIPhase(v, "Building", "Building") EXCEPT !.buildPod = p, !.building = v.rev]

StartBuild(v, p) ==
  [setCIPhase(v, "Building", "Building") EXCEPT
     !.buildPod = p, !.building = v.rev, !.observed = v.gen]

\* Mutant: a build is taken for current by its revision alone.
current_anyGeneration(v) == v.building = v.rev

current(v) == v.building = v.rev /\ v.observed = v.gen

Succeed(v) ==
  [v EXCEPT !.phase = "Succeeded", !.reason = "Succeeded", !.image = imageRef(v)]

\* Mutants: a failed Pod counts as a finished build, or as one that runs on.
podResult_anyEnd(v, phase) ==
  IF phase \in {"Succeeded", "Failed"} THEN Succeed(v)
  ELSE setCIPhase(v, "Building", "Building")
podResult_successOnly(v, phase) ==
  IF phase = "Succeeded" THEN Succeed(v) ELSE setCIPhase(v, "Building", "Building")

\* podResult and the end of followBuild: the status after seeing a Pod phase.
podResult(v, phase) ==
  CASE phase = "Succeeded" -> Succeed(v)
    [] phase = "Failed"    -> markCIFailed(v, "BuildFailed")
    [] OTHER               -> setCIPhase(v, "Building", "Building")

-----------------------------------------------------------------------------
(* The API server.                                                         *)

\* A write of the CI: a new resource version, which the watch will deliver.
Store(v) ==
  LET w == [v EXCEPT !.rv = ci.rv + 1]
  IN  Cardinality(watch) < MaxLag /\ ci' = w /\ watch' = watch \cup {w}

StoreCD(reg) == cd' = [rv |-> cd.rv + 1, reg |-> reg]

\* Names some copy of the CI still mentions; generateName avoids live Pods,
\* and its random suffix avoids these.
Mentioned == {v.buildPod : v \in watch \cup {ci, cache}}
Fresh(p) == pods[p] = NoPod /\ podCache[p] = "absent" /\ p \notin Mentioned

Exists(p) == pods[p].phase # "absent"

\* Deletion is graceful: the Pods stay for a while, and run on.
DeleteAllPods ==
  pods' = [p \in PodNames |-> IF Exists(p) THEN [pods[p] EXCEPT !.deleting = TRUE]
                              ELSE pods[p]]

Init ==
  /\ \E reg \in Registries, rev \in Revisions \cup {None} :
       ci = [rv |-> 1, gen |-> 1, life |-> "new", rev |-> rev, reg |-> reg,
             phase |-> "unset", reason |-> "unset", image |-> None, buildPod |-> None,
             building |-> None, observed |-> 0]
  /\ cache = ci /\ watch = {}
  /\ pods = [p \in PodNames |-> NoPod]
  /\ podCache = [p \in PodNames |-> "absent"]
  /\ pushed = {} /\ cd = [rv |-> 0, reg |-> None] /\ cdCache = cd
  /\ ready = Needs /\ plan \in Plans
  /\ queued = TRUE /\ pc = "idle" /\ my = None /\ then = "done"

-----------------------------------------------------------------------------
(* The steps of Reconcile.                                                 *)

\* Return to the work queue, asking for another reconcile or not.
Return(requeue) ==
  pc' = "idle" /\ my' = None /\ then' = "done" /\ queued' = (queued \/ requeue)

Goto(label, v) == pc' = label /\ my' = v

\* Carry on with patchStatus; next is "ensureCD", "requeue" or "done".
Patch(v, next) == Goto("patchStatus", v) /\ then' = next

\* The need that a new build misses first: registrySecret, then pluginSteps.
MissingForBuild == {"creds", "plugins"} \ ready
MissingReason ==
  IF "creds" \in MissingForBuild THEN "RegistryCredentials" ELSE "PluginUnavailable"

\* reconcile, from the cached CI up to its first API call.
ReadAndDecide(v) ==
  \/ /\ v.life = "gone"
     /\ pc' = pc /\ UNCHANGED <<my, then>>
  \/ /\ v.life \in {"new", "deleting"}
     /\ Goto("finalizer", v) /\ UNCHANGED then
  \/ /\ v.life = "live" /\ "service" \notin ready
     /\ Patch(setCIPhase(v, "Idle", "Idle"), "requeue")
  \/ /\ v.life = "live" /\ "service" \in ready /\ v.rev = None
     /\ Patch(setCIPhase(v, "Idle", "Idle"), "done")
  \/ /\ v.life = "live" /\ "service" \in ready /\ v.rev # None
     /\ \/ /\ "valid" \notin ready
           /\ Patch(RefuseBuild(v, "InvalidSpec"), "done")
        \/ /\ "valid" \in ready /\ current(v)
           /\ v.buildPod # None /\ v.phase = "Building"
           /\ Goto("followBuild", v) /\ UNCHANGED then
        \/ /\ "valid" \in ready /\ current(v) /\ v.phase = "Succeeded"
           /\ Goto("ensureCD", v) /\ UNCHANGED then
        \/ /\ "valid" \in ready /\ current(v) /\ v.phase = "Failed"
           /\ pc' = pc /\ UNCHANGED <<my, then>>
        \/ /\ "valid" \in ready
           /\ ~ (current(v) /\ v.phase \in {"Succeeded", "Failed"})
           /\ ~ (current(v) /\ v.phase = "Building" /\ v.buildPod # None)
           /\ \/ /\ MissingForBuild # {}
                 /\ Patch(RefuseBuild(v, MissingReason), "done")
              \/ /\ MissingForBuild = {}
                 /\ Goto("deleteBuildPods", v) /\ UNCHANGED then

Reconcile ==
  /\ pc = "idle" /\ queued
  /\ queued' = FALSE
  /\ ReadAndDecide(cache)
  /\ UNCHANGED <<api, cache, podVars, cdVars, outside>>

\* Mutant: a CI being deleted keeps its finalizer.
UpdateFinalizer_kept ==
  /\ pc = "finalizer"
  /\ \/ /\ my.life = "new" /\ my.rv = ci.rv
        /\ Store([ci EXCEPT !.life = "live"]) /\ Return(TRUE)
     \/ /\ my.life = "new" /\ my.rv # ci.rv /\ Return(TRUE) /\ UNCHANGED api
     \/ /\ my.life # "new" /\ Return(FALSE) /\ UNCHANGED api
  /\ UNCHANGED <<cache, podVars, cdVars, outside>>

\* Update that adds the finalizer, or removes it from a CI being deleted.
UpdateFinalizer ==
  /\ pc = "finalizer"
  /\ \/ /\ my.rv = ci.rv
        /\ Store([ci EXCEPT !.life = IF my.life = "new" THEN "live" ELSE "gone"])
        /\ Return(my.life = "new")
     \/ /\ my.rv # ci.rv /\ Return(TRUE) /\ UNCHANGED api
  /\ UNCHANGED <<cache, podVars, cdVars, outside>>

\* Mutant: earlier Pods are left alone.
deleteBuildPods_skipped ==
  /\ pc = "deleteBuildPods" /\ pc' = "createPod"
  /\ UNCHANGED <<api, cache, podVars, cdVars, outside, queued, my, then>>

\* DeleteAllOf on the label of this CI, an API call that sees every Pod.
deleteBuildPods ==
  /\ pc = "deleteBuildPods"
  /\ DeleteAllPods
  /\ pc' = "createPod"
  /\ UNCHANGED <<api, cache, podCache, pushed, cdVars, outside, queued, my, then>>

\* Mutant: a failed create is not requeued.
CreatePod_once ==
  /\ pc = "createPod"
  /\ \/ /\ "secrets" \notin ready
        /\ Patch(RefuseBuild(my, "SecretNotAllowed"), "done") /\ UNCHANGED pods
     \/ /\ "secrets" \in ready /\ "quota" \notin ready
        /\ Patch(PodCreateFailed(my), "done") /\ UNCHANGED pods
     \/ /\ {"secrets", "quota"} \subseteq ready
        /\ \E p \in PodNames :
             /\ Fresh(p)
             /\ pods' = [pods EXCEPT ![p] =
                  [phase |-> "Running", deleting |-> FALSE,
                   image |-> imageRef(my), gen |-> my.gen]]
             /\ Patch(StartBuild(my, p), "requeue")
  /\ UNCHANGED <<api, cache, podCache, pushed, cdVars, outside, queued>>

\* checkPod, then Create of the build Pod, with both ways to fail.
CreatePod ==
  /\ pc = "createPod"
  /\ \/ /\ "secrets" \notin ready
        /\ Patch(RefuseBuild(my, "SecretNotAllowed"), "done") /\ UNCHANGED pods
     \/ /\ "secrets" \in ready /\ "quota" \notin ready
        /\ Patch(PodCreateFailed(my), "requeue") /\ UNCHANGED pods
     \/ /\ {"secrets", "quota"} \subseteq ready
        /\ \E p \in PodNames :
             /\ Fresh(p)
             /\ pods' = [pods EXCEPT ![p] =
                  [phase |-> "Running", deleting |-> FALSE,
                   image |-> imageRef(my), gen |-> my.gen]]
             /\ Patch(StartBuild(my, p), "requeue")
  /\ UNCHANGED <<api, cache, podCache, pushed, cdVars, outside, queued>>

\* The status after following a Pod in the given phase, and what comes next.
Follow(phase) ==
  Patch(podResult(my, phase),
        IF phase = "Succeeded" THEN "ensureCD"
        ELSE IF phase = "Failed" THEN "done" ELSE "requeue")

\* buildPodOf, first read: the Pod cache.
followBuild ==
  /\ pc = "followBuild"
  /\ \/ podCache[my.buildPod] # "absent" /\ Follow(podCache[my.buildPod])
     \/ podCache[my.buildPod] = "absent" /\ Goto("getPod", my) /\ UNCHANGED then
  /\ UNCHANGED <<api, cache, podVars, cdVars, outside, queued>>

\* buildPodOf, second read: the Pod at the API server.
GetPodFromAPI ==
  /\ pc = "getPod"
  /\ \/ Exists(my.buildPod) /\ Follow(pods[my.buildPod].phase)
     \/ ~ Exists(my.buildPod) /\ Goto("getCI", my) /\ UNCHANGED then
  /\ UNCHANGED <<api, cache, podVars, cdVars, outside, queued>>

\* buildPodOf, third read: does the CI at the API server still name the Pod?
LostPod ==
  /\ pc = "getCI"
  /\ \/ /\ ci.life # "gone" /\ ci.buildPod = my.buildPod
        /\ Patch(markCIFailed(my, "BuildPodLost"), "done") /\ UNCHANGED queued
     \/ /\ ci.life = "gone" \/ ci.buildPod # my.buildPod
        /\ Return(TRUE)
  /\ UNCHANGED <<api, cache, podVars, cdVars, outside>>

\* Mutant: the status is patched whatever version it was computed from.
patchStatus_unlocked ==
  /\ pc = "patchStatus"
  /\ LET w == [ci EXCEPT !.phase = my.phase, !.reason = my.reason, !.image = my.image,
                         !.buildPod = my.buildPod, !.building = my.building,
                         !.observed = my.observed]
     IN  IF w = ci THEN UNCHANGED api ELSE Store(w)
  /\ \/ then = "ensureCD" /\ Goto("ensureCD", my) /\ UNCHANGED <<then, queued>>
     \/ then # "ensureCD" /\ Return(then = "requeue")
  /\ UNCHANGED <<cache, podVars, cdVars, outside>>

\* The optimistic lock: the patch applies to the version it was read at.
LockHolds == my.rv = ci.rv

\* A merge patch that changes nothing makes no new version.
patchStatus ==
  /\ pc = "patchStatus"
  /\ \/ /\ LockHolds
        /\ IF my = ci THEN UNCHANGED api ELSE Store(my)
        /\ \/ then = "ensureCD" /\ Goto("ensureCD", my) /\ UNCHANGED <<then, queued>>
           \/ then # "ensureCD" /\ Return(then = "requeue")
     \/ /\ ~ LockHolds /\ Return(TRUE) /\ UNCHANGED api
  /\ UNCHANGED <<cache, podVars, cdVars, outside>>

\* Mutant: the CD is created but never updated or created again.
ensureCD_once ==
  /\ pc = "ensureCD"
  /\ \/ cdCache.rv > 0 /\ Return(FALSE) /\ UNCHANGED cd
     \/ cdCache.rv = 0 /\ cd.rv = 0 /\ StoreCD(my.reg) /\ Return(FALSE)
     \/ cdCache.rv = 0 /\ cd.rv > 0 /\ Return(TRUE) /\ UNCHANGED cd
  /\ UNCHANGED <<api, cache, podVars, cdCache, outside>>

\* CreateOrUpdate of the CD decides on the cached CD: a create needs that
\* there is no CD, an update that the cached one is the current one.
WriteApplies == IF cdCache.reg = None THEN cd.reg = None ELSE cdCache.rv = cd.rv

ensureCD ==
  /\ pc = "ensureCD"
  /\ \/ cdCache.reg = my.reg /\ Return(FALSE) /\ UNCHANGED cd
     \/ cdCache.reg # my.reg /\ WriteApplies /\ StoreCD(my.reg) /\ Return(FALSE)
     \/ cdCache.reg # my.reg /\ ~ WriteApplies /\ Return(TRUE) /\ UNCHANGED cd
  /\ UNCHANGED <<api, cache, podVars, cdCache, outside>>

ControllerStep ==
  \/ Reconcile \/ UpdateFinalizer \/ deleteBuildPods \/ CreatePod \/ followBuild
  \/ GetPodFromAPI \/ LostPod \/ patchStatus \/ ensureCD

-----------------------------------------------------------------------------
(* Informer caches: each delivers its object's versions in order and       *)
(* enqueues the CI (the watches of SetupWithManager).                      *)

CacheSync ==
  /\ \E v \in watch :
       /\ \A w \in watch : v.rv <= w.rv
       /\ cache' = v /\ watch' = watch \ {v}
  /\ queued' = TRUE
  /\ UNCHANGED <<ci, podVars, cdVars, outside, pc, my, then>>

PodCacheSync(p) ==
  /\ podCache[p] # Seen(pods[p].phase)
  /\ podCache' = [podCache EXCEPT ![p] = Seen(pods[p].phase)]
  /\ queued' = TRUE
  /\ UNCHANGED <<api, cache, pods, pushed, cdVars, outside, pc, my, then>>

CDCacheSync ==
  /\ cdCache # cd /\ cdCache' = cd /\ queued' = TRUE
  /\ UNCHANGED <<api, cache, podVars, cd, outside, pc, my, then>>

-----------------------------------------------------------------------------
(* Build Pods.  A Pod being deleted runs on until the kubelet removes it.  *)

PodTurns(p, phase) ==
  /\ pods' = [pods EXCEPT ![p].phase = phase]
  /\ UNCHANGED <<api, cache, podCache, cdVars, outside, queued, pc, my, then>>

PodPushes(p)   == /\ pods[p].phase = "Running" /\ PodTurns(p, "Pushed")
                  /\ pushed' = pushed \cup {<<pods[p].image, pods[p].gen>>}
PodSucceeds(p) == pods[p].phase = "Pushed" /\ PodTurns(p, "Succeeded") /\ UNCHANGED pushed
\* A step of the build fails, or the Pod is killed while being deleted.
PodFails(p)    == /\ pods[p].phase \in {"Running", "Pushed"}
                  /\ "build" \in plan.faults \/ pods[p].deleting
                  /\ PodTurns(p, "Failed") /\ UNCHANGED pushed

PodRemoved(p) ==
  /\ Exists(p) /\ pods[p].deleting
  /\ pods' = [pods EXCEPT ![p] = NoPod]
  /\ UNCHANGED <<api, cache, podCache, pushed, cdVars, outside, queued, pc, my, then>>

PodProgress(p) ==
  PodPushes(p) \/ PodSucceeds(p) \/ PodFails(p) \/ PodRemoved(p)

-----------------------------------------------------------------------------
(* The world around: the Service edits the spec, users and the cluster     *)
(* break and repair things, the operator restarts.                         *)

\* Any spec edit makes a generation, also one that keeps revision and registry.
EditSpec ==
  /\ ci.life \in {"new", "live"} /\ ci.gen < plan.gens
  /\ \E rev \in Revisions, reg \in Registries :
       Store([ci EXCEPT !.gen = ci.gen + 1, !.rev = rev, !.reg = reg])
  /\ UNCHANGED <<cache, podVars, cdVars, outside, queued, pc, my, then>>

Fault(kind) ==
  kind \in plan.faults /\ plan.left > 0 /\ plan' = [plan EXCEPT !.left = @ - 1]

DeleteCI ==
  /\ Fault("delete") /\ ci.life = "live"
  /\ Store([ci EXCEPT !.life = "deleting"])
  /\ UNCHANGED <<cache, podVars, cdVars, ready, queued, pc, my, then>>

\* Kubernetes removes what a deleted CI owns.
GarbageCollect ==
  /\ ci.life = "gone"
  /\ cd.reg # None \/ \E p \in PodNames : Exists(p) /\ ~ pods[p].deleting
  /\ DeleteAllPods
  /\ IF cd.reg = None THEN UNCHANGED cd ELSE StoreCD(None)
  /\ UNCHANGED <<api, cache, podCache, pushed, cdCache, outside, queued, pc, my, then>>

Break(need) ==
  /\ need \in ready /\ Fault(need) /\ ready' = ready \ {need}
  /\ UNCHANGED <<api, cache, podVars, cdVars, queued, pc, my, then>>

Repair(need) ==
  /\ need \notin ready /\ ready' = ready \cup {need}
  /\ UNCHANGED <<api, cache, podVars, cdVars, plan, queued, pc, my, then>>

Evict(p) ==
  /\ Fault("evict") /\ Exists(p) /\ ~ pods[p].deleting
  /\ pods' = [pods EXCEPT ![p].deleting = TRUE]
  /\ UNCHANGED <<api, cache, podCache, pushed, cdVars, ready, queued, pc, my, then>>

DeleteCD ==
  /\ Fault("cd") /\ cd.reg # None /\ StoreCD(None)
  /\ UNCHANGED <<api, cache, podVars, cdCache, ready, queued, pc, my, then>>

\* The pending API call fails; controller-runtime retries the key later.
ApiError ==
  /\ pc # "idle" /\ Fault("api") /\ Return(TRUE)
  /\ UNCHANGED <<api, cache, podVars, cdVars, ready>>

\* The operator restarts: the caches are listed afresh and all keys queued.
Crash ==
  /\ Fault("crash")
  /\ cache' = ci /\ watch' = {} /\ cdCache' = cd
  /\ podCache' = [p \in PodNames |-> Seen(pods[p].phase)]
  /\ pc' = "idle" /\ my' = None /\ then' = "done" /\ queued' = TRUE
  /\ UNCHANGED <<ci, pods, pushed, cd, ready>>

World ==
  \/ EditSpec \/ DeleteCI \/ GarbageCollect \/ DeleteCD \/ ApiError \/ Crash
  \/ \E need \in Needs : Break(need) \/ Repair(need)
  \/ \E p \in PodNames : Evict(p)

Next ==
  \/ ControllerStep
  \/ CacheSync \/ CDCacheSync
  \/ \E p \in PodNames : PodCacheSync(p) \/ PodProgress(p)
  \/ World

Spec == Init /\ [][Next]_vars

\* The work queue and the informers always come round, some build Pod ends or
\* some deleted Pod goes; nothing is assumed of users or of faults.
Fairness ==
  /\ WF_vars(ControllerStep) /\ WF_vars(CacheSync)
  /\ WF_vars(CDCacheSync \/ \E p \in PodNames : PodCacheSync(p))
  /\ WF_vars(GarbageCollect \/ \E p \in PodNames : PodProgress(p))

FairSpec == Spec /\ Fairness

-----------------------------------------------------------------------------
(* Properties.                                                             *)

\* Types of all variables; between reconciles there is no local copy.
TypeOK ==
  /\ ci \in Version /\ cache \in Version /\ watch \subseteq Version
  /\ pods \in [PodNames -> Pod] /\ podCache \in [PodNames -> PodPhases]
  /\ pushed \subseteq Images \X Nat
  /\ {cd, cdCache} \subseteq [rv: Nat, reg: Registries \cup {None}]
  /\ ready \subseteq Needs /\ plan \in Plan /\ queued \in BOOLEAN
  /\ then \in {"ensureCD", "requeue", "done"}
  /\ \/ pc = "idle" /\ my = None
     \/ /\ pc \in {"finalizer", "deleteBuildPods", "createPod", "followBuild", "getPod",
                   "getCI", "patchStatus", "ensureCD"}
        /\ my \in Version

\* A CI that says Succeeded names an image that a build Pod of exactly the
\* observed spec generation has pushed (followBuild records the image it
\* computes from its own copy of the spec, not the one the Pod was given);
\* an image kept from an earlier build was pushed as well.
SucceededMeansPushed ==
  /\ ci.phase = "Succeeded" => <<ci.image, ci.observed>> \in pushed
  /\ ci.image # None => \E x \in pushed : x[1] = ci.image

\* At most one build Pod is not on its way out: every new build first
\* deletes the earlier Pods, whatever crashed or conflicted before.
OneActiveBuild ==
  \A p, q \in PodNames :
    /\ Exists(p) /\ ~ pods[p].deleting
    /\ Exists(q) /\ ~ pods[q].deleting
    => p = q

\* A CI in phase Building follows a Pod that builds the observed generation
\* at the revision it says it is building.
BuildingFollowsItsPod ==
  ci.phase = "Building" =>
    /\ ci.buildPod # None
    /\ Exists(ci.buildPod) =>
         /\ pods[ci.buildPod].gen = ci.observed
         /\ pods[ci.buildPod].image[2] = ci.building

Finished(v) == v.life = "live" /\ current(v) /\ v.phase \in {"Succeeded", "Failed"}

\* The outcome of a build is final: as long as the spec does not change, no
\* late or repeated reconcile takes it back.  Only a Service that is missing
\* or invalid does, and the retry after PodCreateFailed is meant to.
OutcomeIsFinal ==
  [][ Finished(ci) /\ ci.reason # "PodCreateFailed" /\ ci'.gen = ci.gen
      => \/ ci'.phase = ci.phase /\ ci'.image = ci.image
         \/ ci'.reason \in {"Idle", "InvalidSpec"} ]_vars

\* Whatever happens on the way, a CI whose spec has come to rest gets an
\* outcome for exactly that revision and generation, and keeps it.
BuildSettles ==
  []<>(ci.life \in {"deleting", "gone"} \/ ci.rev = None \/ ready # Needs)
    \/ <>[](Finished(ci))

\* After a successful build there is a CD with the CI's pull settings, also
\* when the CD was deleted or a create ran into a stale cache.
SuccessReachesCD ==
  <>[](ci.life = "live" /\ ci.phase = "Succeeded") => <>[](cd.reg = ci.reg)

\* A CI being deleted is released, and leaves no build Pod and no CD.
DeletionCompletes ==
  <>[](ci.life \in {"deleting", "gone"}) =>
    <>[](ci.life = "gone" /\ cd.reg = None /\ \A p \in PodNames : ~ Exists(p))

\* Once there is quota again, a CI does not stay in PodCreateFailed for a
\* revision or generation it has not observed: the build is tried again.  (If
\* an earlier build had already observed both, the code does not retry.)
QuotaIsRetried ==
  <>[](ready = Needs /\ ci.life = "live") =>
    []<>(ci.reason = "PodCreateFailed" => current(ci))

\* No wake-up of the CI is lost: when the caches show everything, no reconcile
\* runs and none is queued, a CI is gone, or live and idle for want of a
\* revision, or has an outcome for its spec, and after a success its CD.  In
\* particular nobody leaves a build alone that is under way.
OutcomeAtRest ==
  pc = "idle" /\ ~ queued /\ watch = {} /\ cdCache = cd
  => \/ ci.life = "gone"
     \/ /\ ci.life = "live"
        /\ IF ci.rev = None THEN ci.phase = "Idle"
           ELSE Finished(ci) /\ (ci.phase = "Succeeded" => cd.reg = ci.reg)

\* status_pipeline_test.go: a build Pod is not reported lost because of a
\* stale cache.  So where no one else deletes Pods, buildPodOf reports none.
LostOnlyIfDeleted ==
  "evict" \notin plan.faults => ci.reason # "BuildPodLost"

-----------------------------------------------------------------------------
(* The inductive invariant behind the safety properties: they hold of      *)
(* EVERY copy of the CI that may still become the CI, not only of the one  *)
(* at the API server.                                                      *)

Copies == watch \cup {ci, cache} \cup (IF pc = "idle" THEN {} ELSE {my})

\* No copy is ahead of the API server, and a copy of its version has its spec.
Dated(v) ==
  /\ v.rv <= ci.rv /\ v.gen <= ci.gen
  /\ v.rv = ci.rv => v.gen = ci.gen

\* A generation is one spec.
Agree(v, w) == v.gen = w.gen => v.rev = w.rev /\ v.reg = w.reg

\* What a copy says of its build is true.
Sound(v) ==
  /\ v.observed <= v.gen
  /\ v.image # None => \E x \in pushed : x[1] = v.image
  /\ v.phase = "Succeeded" => <<v.image, v.observed>> \in pushed
  /\ v.phase = "Building" =>
       /\ v.buildPod \in PodNames
       /\ Exists(v.buildPod) => /\ pods[v.buildPod].gen = v.observed
                                /\ pods[v.buildPod].image[2] = v.building
       /\ current(v) /\ podCache[v.buildPod] = "Succeeded"
            => <<imageRef(v), v.gen>> \in pushed

\* A Pod builds the image of its generation, and pushes before it succeeds.
PodSound(p) ==
  Exists(p) =>
    /\ pods[p].gen <= ci.gen
    /\ pods[p].image \in Images
    /\ pods[p].phase \in {"Pushed", "Succeeded"} => <<pods[p].image, pods[p].gen>> \in pushed
    /\ \A v \in Copies : v.gen = pods[p].gen => pods[p].image = imageRef(v)

\* What the running reconcile knows at each of its API calls.
Progress ==
  /\ pc \in {"followBuild", "getPod"} =>
       current(my) /\ my.phase = "Building" /\ my.rev # None
  /\ pc \in {"deleteBuildPods", "createPod"} => my.rev # None
  /\ pc = "createPod" => \A p \in PodNames : Exists(p) => pods[p].deleting

\* The inductive invariant of the controller.
IInv ==
  /\ TypeOK
  /\ \A v \in Copies : Dated(v) /\ Sound(v)
  /\ \A v, w \in Copies : Agree(v, w)
  /\ \A p \in PodNames : PodSound(p)
  /\ Progress
  /\ OneActiveBuild
=============================================================================
