-------------------------- MODULE CDControllerProofs --------------------------
(***************************************************************************)
(* Proofs about the CD reconciler: it keeps the promise of Delivery, images*)
(* are rolled out and reported in order, and when it rests the CD is as it *)
(* should be, for all faults and bounds.                                   *)
(***************************************************************************)
EXTENDS CDController, SequenceTheorems, TLAPS

\* No copy is ahead: what is reported was rolled out, what was rolled out is
\* in the cache, what is in the cache was built.
Ordered == cd.image <= rolled /\ rolled <= imageCache /\ imageCache <= image

\* A Deployment runs the image that was rolled out last.
RunsLatest == deploy.image = IF deploy.gen = 0 THEN 0 ELSE rolled

\* A reconcile that writes the Deployment has an image that is not older, and
\* a patch that names another image than the copy it started from names the
\* one that was rolled out.
InHand ==
  /\ target <= imageCache
  /\ pc \in {"deployment", "service"} => 0 < target /\ rolled <= target
  /\ pc = "service" => rolled = target
  /\ my.image = orig.image
     \/ (pc \in {"patch", "patchAndRetry"} /\ my.image = target /\ target = rolled)

\* The inductive invariant.
IInv == TypeOK /\ Ordered /\ RunsLatest /\ InHand

\* What a step of the system does to image, Deployment and status.
Promised == Promise!Next \/ UNCHANGED <<image, rolled, deploy.image, cd.image>>
Forward ==
  /\ deploy'.image <= image'
  /\ deploy.gen > 0 /\ deploy'.gen > 0 => deploy'.image >= deploy.image
  /\ deploy'.image # deploy.image => deploy'.gen # deploy.gen

-----------------------------------------------------------------------------
(* The pure parts.                                                         *)

\* setCDCondition writes phase and reason and nothing else.
LEMMA ConditionSet ==
  ASSUME NEW v \in Version, NEW phase \in Phases, NEW reason \in Reasons
  PROVE  /\ setCDCondition(v, phase, reason) \in Version
         /\ setCDCondition(v, phase, reason).image = v.image
BY DEF setCDCondition, Version

\* The status that is derived names the image that was deployed.
LEMMA StatusNames ==
  ASSUME NEW v \in Version, NEW img \in Nat, NEW d \in Deployment
  PROVE  StatusOf(v, img, d) \in Version /\ StatusOf(v, img, d).image = img
<1> DEFINE w == [v EXCEPT !.image = img]
<1>1. w \in Version /\ w.image = img
  BY DEF Version
<1>2. \/ StatusOf(v, img, d) = setCDCondition(w, "Running", "Deployed")
      \/ StatusOf(v, img, d) = setCDCondition(w, "Failed", "ProgressDeadlineExceeded")
      \/ StatusOf(v, img, d) = setCDCondition(w, "Deploying", "RollingOut")
  BY DEF StatusOf
<1>3. \A p \in Phases, r \in Reasons :
        setCDCondition(w, p, r) \in Version /\ setCDCondition(w, p, r).image = img
  BY <1>1, ConditionSet
<1>4. {"Running", "Failed", "Deploying"} \subseteq Phases
      /\ {"Deployed", "ProgressDeadlineExceeded", "RollingOut"} \subseteq Reasons
  BY DEF Phases, Reasons
<1> HIDE DEF w
<1> QED
  BY <1>2, <1>3, <1>4

\* The patch sends the image only if it differs from the copy it started from.
LEMMA PatchNames ==
  ASSUME NEW s \in Version, NEW old \in Version, NEW new \in Version
  PROVE  /\ MergePatch(s, old, new) \in Version
         /\ MergePatch(s, old, new).image = IF new.image = old.image THEN s.image ELSE new.image
BY DEF MergePatch, Version

\* A Deployment that is written has the target image, and a new generation
\* unless it had the wanted template.
LEMMA UpdateNames ==
  ASSUME NEW d \in Deployment, target \in Nat, my \in Version
  PROVE  /\ Updated(d) \in Deployment
         /\ Updated(d).image = target /\ Updated(d).gen > 0
         /\ Updated(d).image # d.image => Updated(d).gen # d.gen
<1>1. CASE Wanted(d)
  BY <1>1 DEF Updated, Wanted, Deployment
<1>2. CASE ~ Wanted(d)
  <2>1. Updated(d) = [gen |-> d.gen + 1, image |-> target, config |-> my.config,
                      observed |-> d.observed, state |-> d.state]
    BY <1>2 DEF Updated, Deployment
  <2> QED
    BY <2>1 DEF Deployment, Version
<1> QED
  BY <1>1, <1>2

\* No object, no copy.
LEMMA NothingTyped ==
  /\ NoVersion \in Version /\ NoVersion.image = 0
  /\ NoDeployment \in Deployment /\ NoDeployment.image = 0 /\ NoDeployment.gen = 0
BY DEF NoVersion, Version, NoDeployment, Deployment, Phases, Reasons

-----------------------------------------------------------------------------
(* The steps.                                                              *)

\* The initial state.
LEMMA InitIInv == Init => IInv /\ Promise!Init
<1> SUFFICES ASSUME Init PROVE IInv /\ Promise!Init
  OBVIOUS
<1>1. cd \in Version /\ cd.image = 0
  BY DEF Init, NoVersion, Version, Phases, Reasons
<1>2. TypeOK
  <2>1. cache \in Version /\ watch \in Seq(Version) /\ orig \in Version /\ my \in Version
    BY <1>1, NothingTyped DEF Init
  <2>2. {deploy, deployCache, got} \subseteq Deployment
    BY NothingTyped DEF Init
  <2>3. budget \in Nat /\ ready \subseteq Needs
    BY BoundsAssumption DEF Init
  <2>4. /\ image = 0 /\ imageCache = 0 /\ expose = 0 /\ exposeCache = 0
        /\ target = 0 /\ rolled = 0 /\ pc = "idle"
        /\ {deployFresh, exposeFresh, mine, queued} \subseteq BOOLEAN
    BY DEF Init
  <2> QED
    BY <1>1, <2>1, <2>2, <2>3, <2>4 DEF TypeOK
<1>3. Ordered /\ RunsLatest /\ InHand /\ Promise!Init
  BY <1>1, NothingTyped DEF Init, Ordered, RunsLatest, InHand, Promise!Init
<1> QED
  BY <1>2, <1>3 DEF IInv

\* What every step of the proof shows.
Safe == IInv' /\ Promised /\ Forward

\* A step that leaves the image of the Deployment alone is no step back.
LEMMA Quiet ==
  ASSUME IInv, UNCHANGED <<image, deploy.gen, deploy.image>>
  PROVE  Forward
<1>1. {rolled, imageCache, image} \subseteq Nat /\ rolled <= imageCache /\ imageCache <= image
  BY DEF IInv, TypeOK, Ordered
<1>2. deploy.image = 0 \/ deploy.image = rolled
  BY DEF IInv, RunsLatest
<1> QED
  BY <1>1, <1>2 DEF Forward

\* A step outside that, during which the reconcile does not move.
LEMMA Aside ==
  ASSUME IInv, TypeOK', UNCHANGED <<image, rolled, deploy.gen, deploy.image, cd.image>>,
         imageCache <= imageCache', imageCache' <= image,
         UNCHANGED <<pc, orig, my, target>>
  PROVE  Safe
<1>1. Ordered'
  BY DEF IInv, TypeOK, Ordered
<1>2. RunsLatest'
  BY DEF IInv, RunsLatest
<1>3. InHand'
  BY DEF IInv, TypeOK, InHand
<1>4. Promised
  BY DEF Promised
<1>5. Forward
  BY Quiet
<1> QED
  BY <1>1, <1>2, <1>3, <1>4, <1>5 DEF IInv, Safe

\* A step with which the reconcile ends.
LEMMA Ends ==
  ASSUME IInv, TypeOK', UNCHANGED <<image, rolled, deploy.gen, deploy.image, cd.image>>,
         imageCache <= imageCache', imageCache' <= image,
         pc' = "idle", target' = 0, my'.image = orig'.image
  PROVE  Safe
<1>1. Ordered'
  BY DEF IInv, TypeOK, Ordered
<1>2. RunsLatest'
  BY DEF IInv, RunsLatest
<1>3. InHand'
  BY DEF IInv, TypeOK, InHand
<1>4. Promised
  BY DEF Promised
<1>5. Forward
  BY Quiet
<1> QED
  BY <1>1, <1>2, <1>3, <1>4, <1>5 DEF IInv, Safe

\* A write of the CD keeps its type.
LEMMA StoreTyped ==
  ASSUME NEW v \in Version, watch \in Seq(Version), Store(v)
  PROVE  cd' = v /\ watch' \in Seq(Version)
BY DEF Store

\* The end of a reconcile leaves nothing in hand.
LEMMA ReturnTyped ==
  ASSUME NEW requeue \in BOOLEAN, queued \in BOOLEAN, Return(requeue)
  PROVE  /\ pc' = "idle" /\ orig' \in Version /\ my' \in Version /\ my'.image = orig'.image
         /\ mine' \in BOOLEAN /\ target' = 0 /\ got' \in Deployment /\ queued' \in BOOLEAN
BY NothingTyped DEF Return

\* The operator reads its caches and decides.
LEMMA ReconcileStep == ASSUME IInv, Reconcile PROVE Safe
<1>1. UNCHANGED <<image, imageCache, cd, watch, cache, deploy, deployCache, deployFresh, rolled,
                  expose, exposeCache, exposeFresh, ready, budget>> /\ queued' = FALSE
  BY DEF Reconcile, ciVars, cdVars, childVars, deployVars, exposeVars, outside
<1>2. imageCache \in Nat /\ image \in Nat /\ imageCache <= image
  BY DEF IInv, TypeOK, Ordered
<1>3. CASE UNCHANGED reconciler
  <2>1. TypeOK'
    BY <1>1, <1>3 DEF IInv, TypeOK, reconciler
  <2> QED
    BY <1>1, <1>2, <1>3, <2>1, Aside DEF reconciler
<1>4. CASE ~ UNCHANGED reconciler
  <2>1. /\ orig' = cache /\ mine' = (watch = <<>>) /\ target' = imageCache /\ got' = got
        /\ pc' \in {"finalizer", "patch", "patchAndRetry", "deployment"}
        /\ (pc' = "deployment" => imageCache # 0)
    BY <1>4 DEF Reconcile, ReadAndDecide, Patch, Deploys
  <2>2. my' = cache \/ \E phase \in Phases, reason \in Reasons :
                          my' = setCDCondition(cache, phase, reason)
    BY <1>4 DEF Reconcile, ReadAndDecide, Patch, Phases, Reasons
  <2>3. my' \in Version /\ my'.image = cache.image
    BY <2>2, ConditionSet DEF IInv, TypeOK
  <2>4. TypeOK'
    BY <1>1, <2>1, <2>3 DEF IInv, TypeOK
  <2>5. InHand'
    BY <1>1, <1>2, <2>1, <2>3 DEF IInv, TypeOK, Ordered, InHand
  <2>6. Ordered' /\ RunsLatest' /\ Promised
    BY <1>1 DEF IInv, Ordered, RunsLatest, Promised
  <2>7. Forward
    BY <1>1, Quiet
  <2> QED
    BY <2>4, <2>5, <2>6, <2>7 DEF IInv, Safe
<1> QED
  BY <1>3, <1>4

\* The finalizer is added or removed.
LEMMA FinalizerStep == ASSUME IInv, UpdateFinalizer PROVE Safe
<1>1. UNCHANGED <<image, imageCache, cache, deploy, deployCache, deployFresh, rolled,
                  expose, exposeCache, exposeFresh, ready, budget>>
  BY DEF UpdateFinalizer, ciVars, childVars, deployVars, exposeVars, outside
<1>2. \E requeue \in BOOLEAN : Return(requeue)
  BY DEF UpdateFinalizer
<1>3. /\ pc' = "idle" /\ orig' \in Version /\ my' \in Version /\ my'.image = orig'.image
      /\ mine' \in BOOLEAN /\ target' = 0 /\ got' \in Deployment /\ queued' \in BOOLEAN
  BY <1>2, ReturnTyped DEF IInv, TypeOK
<1>4. cd' \in Version /\ cd'.image = cd.image /\ watch' \in Seq(Version)
  <2>1. \A life \in {"live", "gone"} :
          [cd EXCEPT !.life = life] \in Version /\ [cd EXCEPT !.life = life].image = cd.image
    BY DEF IInv, TypeOK, Version
  <2>2. CASE UNCHANGED <<cd, watch>>
    BY <2>2 DEF IInv, TypeOK
  <2>3. CASE \E life \in {"live", "gone"} : Store([cd EXCEPT !.life = life])
    BY <2>1, <2>3, StoreTyped DEF IInv, TypeOK
  <2> QED
    BY <2>2, <2>3 DEF UpdateFinalizer
<1>5. TypeOK'
  BY <1>1, <1>3, <1>4 DEF IInv, TypeOK
<1>6. imageCache \in Nat /\ image \in Nat /\ imageCache <= image
  BY DEF IInv, TypeOK, Ordered
<1> QED
  BY <1>1, <1>3, <1>4, <1>5, <1>6, Ends

\* The Deployment is written, refused or in conflict.
LEMMA DeploymentStep == ASSUME IInv, reconcileDeployment PROVE Safe
<1>1. UNCHANGED <<image, imageCache, cd, watch, cache, deployCache, expose, exposeCache,
                  exposeFresh, ready, budget>>
  BY DEF reconcileDeployment, ciVars, cdVars, exposeVars, outside
<1>2. imageCache \in Nat /\ image \in Nat /\ imageCache <= image
  BY DEF IInv, TypeOK, Ordered
<1>3. CASE /\ deploy' = Updated(deploy) /\ got' = deploy' /\ pc' = "service" /\ rolled' = target
           /\ deployFresh' = (deployFresh /\ Wanted(deploy))
           /\ UNCHANGED <<orig, my, mine, target, queued>>
  <2>1. /\ deploy' \in Deployment /\ deploy'.image = target /\ deploy'.gen > 0
        /\ deploy'.image # deploy.image => deploy'.gen # deploy.gen
    BY <1>3, UpdateNames DEF IInv, TypeOK
  <2>2. {target, rolled, cd.image} \subseteq Nat /\ rolled <= target /\ target <= imageCache
        /\ 0 < target /\ cd.image <= rolled
    BY DEF IInv, TypeOK, Ordered, InHand, reconcileDeployment, Version
  <2>3. deployFresh' \in BOOLEAN
    BY <1>3 DEF IInv, TypeOK
  <2>4. TypeOK'
    BY <1>1, <1>3, <2>1, <2>2, <2>3 DEF IInv, TypeOK
  <2>5. Ordered' /\ RunsLatest'
    BY <1>1, <1>2, <1>3, <2>1, <2>2 DEF Ordered, RunsLatest
  <2>6. InHand'
    BY <1>1, <1>3, <2>2 DEF IInv, InHand, reconcileDeployment
  <2>7. Promised
    <3>1. target \in rolled .. image
      BY <1>2, <2>2
    <3> QED
      BY <1>1, <1>3, <2>1, <2>2, <3>1 DEF Promised, Promise!Next, Promise!RollOut
  <2>8. Forward
    <3>1. deploy.gen > 0 => deploy.image = rolled
      BY DEF IInv, RunsLatest, TypeOK, Deployment
    <3> QED
      BY <1>1, <1>2, <2>1, <2>2, <3>1 DEF Forward
  <2> QED
    BY <2>4, <2>5, <2>6, <2>7, <2>8 DEF IInv, Safe
<1>4. CASE Return(TRUE) /\ UNCHANGED <<deploy, deployFresh, rolled>>
  <2>1. /\ pc' = "idle" /\ orig' \in Version /\ my' \in Version /\ my'.image = orig'.image
        /\ mine' \in BOOLEAN /\ target' = 0 /\ got' \in Deployment /\ queued' \in BOOLEAN
    BY <1>4, ReturnTyped DEF IInv, TypeOK
  <2>2. TypeOK'
    BY <1>1, <1>4, <2>1 DEF IInv, TypeOK
  <2> QED
    BY <1>1, <1>2, <1>4, <2>1, <2>2, Ends
<1>5. CASE /\ Patch("patchAndRetry", setCDCondition(my, "Failed", "DeploymentFailed"))
           /\ UNCHANGED <<deploy, deployFresh, rolled, orig, mine, target, got, queued>>
  <2>1. pc' = "patchAndRetry" /\ my' \in Version /\ my'.image = my.image
    BY <1>5, ConditionSet DEF Patch, IInv, TypeOK, Phases, Reasons
  <2>2. TypeOK'
    BY <1>1, <1>5, <2>1 DEF IInv, TypeOK
  <2>3. InHand'
    BY <1>1, <1>5, <2>1 DEF IInv, InHand, reconcileDeployment
  <2>4. Ordered' /\ RunsLatest' /\ Promised
    BY <1>1, <1>5 DEF IInv, Ordered, RunsLatest, Promised
  <2>5. Forward
    BY <1>1, <1>5, Quiet
  <2> QED
    BY <2>2, <2>3, <2>4, <2>5 DEF IInv, Safe
<1> QED
  BY <1>3, <1>4, <1>5 DEF reconcileDeployment

\* The Kubernetes Service is written, refused or in conflict.
LEMMA ServiceStep == ASSUME IInv, reconcileService PROVE Safe
<1>1. UNCHANGED <<image, imageCache, cd, watch, cache, deploy, deployCache, deployFresh, rolled,
                  exposeCache, ready, budget>>
  BY DEF reconcileService, ciVars, cdVars, deployVars, outside
<1>2. imageCache \in Nat /\ image \in Nat /\ imageCache <= image
  BY DEF IInv, TypeOK, Ordered
<1>3. expose' \in {expose, my.config} /\ exposeFresh' \in {exposeFresh, FALSE}
  BY DEF reconcileService
<1>4. expose' \in Nat /\ exposeFresh' \in BOOLEAN
  BY <1>3 DEF IInv, TypeOK, Version
<1>5. CASE Return(TRUE)
  <2>1. /\ pc' = "idle" /\ orig' \in Version /\ my' \in Version /\ my'.image = orig'.image
        /\ mine' \in BOOLEAN /\ target' = 0 /\ got' \in Deployment /\ queued' \in BOOLEAN
    BY <1>5, ReturnTyped DEF IInv, TypeOK
  <2>2. TypeOK'
    BY <1>1, <1>4, <2>1 DEF IInv, TypeOK
  <2> QED
    BY <1>1, <1>2, <2>1, <2>2, Ends
<1>6. CASE /\ UNCHANGED <<orig, mine, target, got, queued>>
           /\ \/ Patch("patch", StatusOf(my, target, got))
              \/ Patch("patchAndRetry", setCDCondition(my, "Failed", "ServiceFailed"))
  <2>1. /\ pc' \in {"patch", "patchAndRetry"} /\ my' \in Version
        /\ my'.image = target \/ my'.image = my.image
    <3>1. my \in Version /\ target \in Nat /\ got \in Deployment
      BY DEF IInv, TypeOK
    <3>2. CASE Patch("patch", StatusOf(my, target, got))
      BY <3>1, <3>2, StatusNames DEF Patch
    <3>3. CASE Patch("patchAndRetry", setCDCondition(my, "Failed", "ServiceFailed"))
      BY <3>1, <3>3, ConditionSet DEF Patch, Phases, Reasons
    <3> QED
      BY <1>6, <3>2, <3>3
  <2>2. TypeOK'
    BY <1>1, <1>4, <1>6, <2>1 DEF IInv, TypeOK
  <2>3. InHand'
    BY <1>1, <1>6, <2>1 DEF IInv, InHand, reconcileService
  <2>4. Ordered' /\ RunsLatest' /\ Promised
    BY <1>1 DEF IInv, Ordered, RunsLatest, Promised
  <2>5. Forward
    BY <1>1, Quiet
  <2> QED
    BY <2>2, <2>3, <2>4, <2>5 DEF IInv, Safe
<1> QED
  BY <1>5, <1>6 DEF reconcileService

\* The status is patched.
LEMMA PatchStep == ASSUME IInv, patchStatus PROVE Safe
<1>1. UNCHANGED <<image, imageCache, cache, deploy, deployCache, deployFresh, rolled,
                  expose, exposeCache, exposeFresh, ready, budget>>
  BY DEF patchStatus, ciVars, childVars, deployVars, exposeVars, outside
<1>2. \E requeue \in BOOLEAN : Return(requeue)
  BY DEF patchStatus
<1>3. /\ pc' = "idle" /\ orig' \in Version /\ my' \in Version /\ my'.image = orig'.image
      /\ mine' \in BOOLEAN /\ target' = 0 /\ got' \in Deployment /\ queued' \in BOOLEAN
  BY <1>2, ReturnTyped DEF IInv, TypeOK
<1>4. {cd.image, rolled, imageCache, image} \subseteq Nat
      /\ cd.image <= rolled /\ rolled <= imageCache /\ imageCache <= image
  BY DEF IInv, TypeOK, Ordered, Version
<1>5. cd' \in Version /\ watch' \in Seq(Version) /\ cd'.image \in {cd.image, rolled}
  <2>1. MergePatch(cd, orig, my) \in Version
        /\ MergePatch(cd, orig, my).image = IF my.image = orig.image THEN cd.image ELSE my.image
    BY PatchNames DEF IInv, TypeOK
  <2>2. my.image = orig.image \/ my.image = rolled
    BY DEF IInv, InHand
  <2>3. CASE Store(MergePatch(cd, orig, my))
    BY <2>1, <2>2, <2>3, StoreTyped DEF IInv, TypeOK
  <2>4. CASE UNCHANGED <<cd, watch>>
    BY <2>4 DEF IInv, TypeOK
  <2> QED
    BY <2>3, <2>4 DEF patchStatus
<1>6. TypeOK'
  BY <1>1, <1>3, <1>5 DEF IInv, TypeOK
<1>7. CASE cd'.image = cd.image
  BY <1>1, <1>3, <1>4, <1>6, <1>7, Ends
<1>8. CASE cd'.image # cd.image
  <2>1. cd'.image = rolled /\ rolled \in (cd.image + 1) .. rolled
    BY <1>4, <1>5, <1>8
  <2>2. Promised
    BY <1>1, <2>1 DEF Promised, Promise!Next, Promise!Report
  <2>3. Ordered' /\ RunsLatest'
    BY <1>1, <1>4, <2>1 DEF IInv, Ordered, RunsLatest
  <2>4. InHand'
    BY <1>1, <1>3, <1>4 DEF InHand
  <2>5. Forward
    BY <1>1, Quiet
  <2> QED
    BY <1>6, <2>2, <2>3, <2>4, <2>5 DEF IInv, Safe
<1> QED
  BY <1>7, <1>8

\* Some step of the reconciler.
LEMMA ReconcilerStep == ASSUME IInv, ControllerStep PROVE Safe
BY ReconcileStep, FinalizerStep, DeploymentStep, ServiceStep, PatchStep DEF ControllerStep

\* The informers deliver.
LEMMA SyncStep ==
  ASSUME IInv, CacheSync \/ ImageCacheSync \/ DeployCacheSync \/ ExposeCacheSync
  PROVE  Safe
<1>1. UNCHANGED <<image, cd, deploy, rolled, expose, ready, budget, pc, orig, my, mine, target, got>>
      /\ queued' = TRUE
  BY DEF CacheSync, ImageCacheSync, DeployCacheSync, ExposeCacheSync,
         ciVars, cdVars, childVars, deployVars, exposeVars, outside, reconciler
<1>2. {imageCache, image} \subseteq Nat /\ imageCache <= image
  BY DEF IInv, TypeOK, Ordered
<1>3. imageCache' \in Nat /\ imageCache <= imageCache' /\ imageCache' <= image
  <2>1. CASE ImageCacheSync
    <3>1. PICK n \in (imageCache + 1) .. image : imageCache' = n
      BY <2>1 DEF ImageCacheSync
    <3> QED
      BY <1>2, <3>1
  <2>2. CASE CacheSync \/ DeployCacheSync \/ ExposeCacheSync
    BY <1>2, <2>2 DEF CacheSync, DeployCacheSync, ExposeCacheSync, ciVars
  <2> QED
    BY <2>1, <2>2
<1>4. cache' \in Version /\ watch' \in Seq(Version)
  <2>1. CASE CacheSync
    BY <2>1 DEF CacheSync, IInv, TypeOK
  <2>2. CASE ImageCacheSync \/ DeployCacheSync \/ ExposeCacheSync
    BY <2>2 DEF ImageCacheSync, DeployCacheSync, ExposeCacheSync, cdVars, IInv, TypeOK
  <2> QED
    BY <2>1, <2>2
<1>5. /\ deployCache' \in {deployCache, deploy} /\ exposeCache' \in {exposeCache, expose}
      /\ deployFresh' \in {deployFresh, TRUE} /\ exposeFresh' \in {exposeFresh, TRUE}
  BY DEF CacheSync, ImageCacheSync, DeployCacheSync, ExposeCacheSync, childVars, deployVars, exposeVars
<1>6. TypeOK'
  BY <1>1, <1>3, <1>4, <1>5 DEF IInv, TypeOK
<1> QED
  BY <1>1, <1>3, <1>6, Aside

\* The Deployment controller reports the state of the rollout.
LEMMA RolloutStep ==
  ASSUME IInv, Observe \/ Complete \/ Stall \/ Unavailable
  PROVE  Safe
<1>1. PICK observed \in Nat, state \in {"progressing", "available", "stalled"} :
         DeploymentTurns(observed, state)
  BY DEF Observe, Complete, Stall, Unavailable, IInv, TypeOK, Deployment
<1>2. deploy' \in Deployment /\ deploy'.gen = deploy.gen /\ deploy'.image = deploy.image
  BY <1>1 DEF DeploymentTurns, IInv, TypeOK, Deployment
<1>3. UNCHANGED <<image, imageCache, cd, watch, cache, deployCache, rolled, expose, exposeCache,
                  exposeFresh, queued, pc, orig, my, mine, target, got>> /\ deployFresh' = FALSE
  BY <1>1 DEF DeploymentTurns, ciVars, cdVars, exposeVars, reconciler
<1>4. ready' = ready /\ budget' \in Nat
  BY DEF Observe, Complete, Stall, Unavailable, Fault, outside, IInv, TypeOK
<1>5. TypeOK'
  BY <1>2, <1>3, <1>4 DEF IInv, TypeOK
<1>6. imageCache \in Nat /\ imageCache <= image
  BY DEF IInv, TypeOK, Ordered
<1> QED
  BY <1>2, <1>3, <1>5, <1>6, Aside

\* A new image.
LEMMA BuildStep == ASSUME IInv, Build PROVE Safe
<1>1. image' = image + 1 /\ UNCHANGED <<imageCache, cdVars, childVars, outside, queued, reconciler>>
  BY DEF Build
<1>2. {cd.image, rolled, imageCache, image} \subseteq Nat
      /\ cd.image <= rolled /\ rolled <= imageCache /\ imageCache <= image
  BY DEF IInv, TypeOK, Ordered, Version
<1>3. TypeOK'
  BY <1>1, <1>2 DEF IInv, TypeOK, cdVars, childVars, deployVars, exposeVars, outside, reconciler
<1>4. Ordered'
  BY <1>1, <1>2 DEF Ordered, cdVars, childVars, deployVars
<1>5. RunsLatest' /\ InHand'
  BY <1>1 DEF IInv, RunsLatest, InHand, childVars, deployVars, reconciler
<1>6. Promised
  BY <1>1 DEF Promised, Promise!Next, Promise!Build, cdVars, childVars, deployVars
<1>7. Forward
  <2>1. deploy' = deploy /\ (deploy.image = 0 \/ deploy.image = rolled)
    BY <1>1 DEF IInv, RunsLatest, childVars, deployVars
  <2> QED
    BY <1>1, <1>2, <2>1 DEF Forward
<1> QED
  BY <1>3, <1>4, <1>5, <1>6, <1>7 DEF IInv, Safe

\* Someone else writes the CD.
LEMMA OthersStep == ASSUME IInv, EditSpec \/ DeleteCD PROVE Safe
<1>1. UNCHANGED <<image, imageCache, cache, deploy, deployCache, deployFresh, rolled, expose,
                  exposeCache, exposeFresh, ready, queued, pc, orig, my, target, got>>
      /\ mine' = FALSE
  BY DEF EditSpec, DeleteCD, OthersStore, ciVars, childVars, deployVars, exposeVars, outside
<1>2. cd' \in Version /\ cd'.image = cd.image /\ watch' \in Seq(Version)
  <2>1. cd \in Version /\ watch \in Seq(Version)
    BY DEF IInv, TypeOK
  <2>2. CASE EditSpec
    <3> DEFINE edited == [cd EXCEPT !.config = cd.config + 1]
    <3>1. cd.config \in Nat /\ cd.config + 1 \in Nat
      BY <2>1 DEF Version
    <3>2. \A n \in Nat : [cd EXCEPT !.config = n] \in Version
      BY <2>1, Zenon DEF Version
    <3>3. edited \in Version
      BY <3>1, <3>2
    <3>4. edited.image = cd.image
      BY <2>1 DEF Version
    <3> HIDE DEF edited
    <3>5. OthersStore(edited)
      BY <2>2 DEF EditSpec, edited
    <3> QED
      BY <2>1, <3>3, <3>4, <3>5, StoreTyped DEF OthersStore
  <2>3. CASE DeleteCD
    <3>1. [cd EXCEPT !.life = "deleting"] \in Version
          /\ [cd EXCEPT !.life = "deleting"].image = cd.image
      BY <2>1 DEF Version
    <3> QED
      BY <2>1, <2>3, <3>1, StoreTyped DEF DeleteCD, OthersStore
  <2> QED
    BY <2>2, <2>3
<1>3. budget' \in Nat
  BY DEF EditSpec, DeleteCD, Fault, outside, IInv, TypeOK
<1>4. TypeOK'
  BY <1>1, <1>2, <1>3 DEF IInv, TypeOK
<1>5. imageCache \in Nat /\ imageCache <= image
  BY DEF IInv, TypeOK, Ordered
<1> QED
  BY <1>1, <1>2, <1>4, <1>5, Aside

\* Deployment and Kubernetes Service go.
LEMMA RemoveStep == ASSUME IInv, RemoveChildren PROVE Safe
<1>1. /\ deploy' = NoDeployment /\ expose' = 0
      /\ UNCHANGED <<image, imageCache, cd, watch, cache, deployCache, rolled, exposeCache, ready,
                     queued, pc, orig, my, mine, target, got>>
  BY DEF RemoveChildren, ciVars, cdVars, reconciler
<1>2. deployFresh' \in BOOLEAN /\ exposeFresh' \in BOOLEAN /\ budget' \in Nat
  BY DEF RemoveChildren, Fault, IInv, TypeOK
<1>3. TypeOK'
  BY <1>1, <1>2, NothingTyped DEF IInv, TypeOK
<1>4. Ordered' /\ RunsLatest' /\ InHand'
  BY <1>1, NothingTyped DEF IInv, Ordered, RunsLatest, InHand
<1>5. Promised
  BY <1>1, NothingTyped DEF Promised, Promise!Next, Promise!TakeAway
<1>6. Forward
  <2>1. image \in Nat /\ deploy.gen \in Nat /\ (deploy.gen = 0 => deploy.image = 0)
    BY DEF IInv, TypeOK, RunsLatest, Deployment
  <2> QED
    BY <1>1, <2>1, NothingTyped DEF Forward
<1> QED
  BY <1>3, <1>4, <1>5, <1>6 DEF IInv, Safe

\* What the reconciler needs is taken or given back, a call fails, or the
\* operator restarts.
LEMMA FaultStep ==
  ASSUME IInv, ApiError \/ Crash \/ \E need \in Needs : Break(need) \/ Repair(need)
  PROVE  Safe
<1>1. {rolled, imageCache, image} \subseteq Nat /\ imageCache <= image
  BY DEF IInv, TypeOK, Ordered
<1>2. CASE \E need \in Needs : Break(need) \/ Repair(need)
  <2>1. UNCHANGED <<image, imageCache, cd, watch, cache, deploy, deployCache, deployFresh, rolled,
                    expose, exposeCache, exposeFresh, queued, pc, orig, my, mine, target, got>>
    BY <1>2 DEF Break, Repair, ciVars, cdVars, childVars, deployVars, exposeVars, reconciler
  <2>2. ready' \subseteq Needs /\ budget' \in Nat
    BY <1>2 DEF Break, Repair, Fault, IInv, TypeOK
  <2>3. TypeOK'
    BY <2>1, <2>2 DEF IInv, TypeOK
  <2> QED
    BY <1>1, <2>1, <2>3, Aside
<1>3. CASE ApiError
  <2>1. UNCHANGED <<image, imageCache, cd, watch, cache, deploy, deployCache, deployFresh, rolled,
                    expose, exposeCache, exposeFresh, ready>>
    BY <1>3 DEF ApiError, ciVars, cdVars, childVars, deployVars, exposeVars
  <2>2. /\ pc' = "idle" /\ orig' \in Version /\ my' \in Version /\ my'.image = orig'.image
        /\ mine' \in BOOLEAN /\ target' = 0 /\ got' \in Deployment /\ queued' \in BOOLEAN
    BY <1>3, ReturnTyped DEF ApiError, IInv, TypeOK
  <2>3. budget' \in Nat
    BY <1>3 DEF ApiError, Fault, IInv, TypeOK
  <2>4. TypeOK'
    BY <2>1, <2>2, <2>3 DEF IInv, TypeOK
  <2> QED
    BY <1>1, <2>1, <2>2, <2>4, Ends
<1>4. CASE Crash
  <2>1. /\ imageCache' = image /\ cache' = cd /\ watch' = <<>> /\ deployCache' = deploy
        /\ deployFresh' = TRUE /\ exposeCache' = expose /\ exposeFresh' = TRUE
        /\ UNCHANGED <<image, cd, deploy, rolled, expose, ready>>
    BY <1>4 DEF Crash
  <2>2. /\ pc' = "idle" /\ orig' \in Version /\ my' \in Version /\ my'.image = orig'.image
        /\ mine' \in BOOLEAN /\ target' = 0 /\ got' \in Deployment /\ queued' \in BOOLEAN
    BY <1>4, NothingTyped DEF Crash
  <2>3. budget' \in Nat /\ watch' \in Seq(Version)
    BY <1>4, <2>1 DEF Crash, Fault, IInv, TypeOK
  <2>4. /\ {imageCache', exposeCache'} \subseteq Nat /\ cache' \in Version
        /\ deployCache' \in Deployment /\ {deployFresh', exposeFresh'} \subseteq BOOLEAN
        /\ UNCHANGED <<image, cd, deploy, rolled, expose, ready>>
    BY <2>1 DEF IInv, TypeOK
  <2>5. TypeOK'
    BY <2>2, <2>3, <2>4 DEF IInv, TypeOK
  <2> QED
    BY <1>1, <2>1, <2>2, <2>5, Ends
<1> QED
  BY <1>2, <1>3, <1>4

\* No step.
LEMMA StutterStep == ASSUME IInv, UNCHANGED vars PROVE Safe
<1>1. UNCHANGED <<image, imageCache, cd, watch, cache, deploy, deployCache, deployFresh, rolled,
                  expose, exposeCache, exposeFresh, ready, budget, queued,
                  pc, orig, my, mine, target, got>>
  BY DEF vars
<1>2. TypeOK'
  BY <1>1 DEF IInv, TypeOK
<1>3. imageCache \in Nat /\ imageCache <= image
  BY DEF IInv, TypeOK, Ordered
<1> QED
  BY <1>1, <1>2, <1>3, Aside

\* Every step.
LEMMA NextSafe == IInv /\ [Next]_vars => Safe
BY ReconcilerStep, SyncStep, RolloutStep, BuildStep, OthersStep, RemoveStep, FaultStep, StutterStep
DEF Next

-----------------------------------------------------------------------------
(* The theorems.                                                           *)

\* The strengthened invariant holds throughout.
THEOREM CDInvariant == Spec => []IInv
<1>1. Init => IInv
  BY InitIInv
<1>2. IInv /\ [Next]_vars => IInv'
  BY NextSafe DEF Safe
<1> QED
  BY <1>1, <1>2, PTL DEF Spec

\* The types of all variables hold, for every set of faults and every bound.
THEOREM CDTypeCorrect == Spec => []TypeOK
<1>1. IInv => TypeOK
  BY DEF IInv
<1> QED
  BY <1>1, CDInvariant, PTL

\* The Deployment never runs an image that was not built, and never goes back
\* to an earlier one, whatever copies the reconciler acts on.
THEOREM CDGoesForward == Spec => RolloutsGoForward
<1>1. IInv /\ [Next]_vars => [Forward]_vars
  BY NextSafe DEF Safe
<1>2. Spec => [][Forward]_vars
  BY <1>1, CDInvariant, PTL DEF Spec
<1> QED
  BY <1>2 DEF RolloutsGoForward, Forward

\* The reconciler implements Delivery: it starts as Delivery does, and each of
\* its steps builds, rolls out, reports or takes away, or changes nothing of it.
THEOREM CDImplementsDelivery == Spec => DeliversInOrder
<1>1. Init => Promise!Init
  BY InitIInv
<1>2. IInv /\ [Next]_vars => [Promise!Next]_(Promise!vars)
  <2>1. Promised => [Promise!Next]_(Promise!vars)
    BY DEF Promised, Promise!vars
  <2> QED
    BY <2>1, NextSafe DEF Safe
<1> QED
  BY <1>1, <1>2, CDInvariant, PTL DEF Spec, DeliversInOrder, Promise!Spec

-----------------------------------------------------------------------------
(* Rest.                                                                   *)

\* The caches that count as current are, the watch ends with the CD as it is,
\* and what does not exist has no leftovers.
Current ==
  /\ deployFresh => deployCache = deploy
  /\ exposeFresh => exposeCache = expose
  /\ deploy.gen = 0 => deploy = NoDeployment
  /\ IF watch = <<>> THEN cache = cd ELSE watch[Len(watch)] = cd

\* What a pass over v has left behind, if nothing has changed since.
Done(v) ==
  \/ v = setCDCondition(v, "Failed", "SecretNotAllowed")
  \/ imageCache = 0 /\ v = setCDCondition(v, "Waiting", "WaitingForCI")
  \/ /\ imageCache # 0
     /\ deployFresh /\ exposeFresh =>
          /\ deploy.gen > 0 /\ deploy.image = imageCache /\ deploy.config = v.config
          /\ expose = v.config /\ v = StatusOf(v, imageCache, deploy)

\* Without another pass to come, the running one works on the CD as it is, and
\* the one before has done its work.
Covered ==
  ~ queued /\ watch = <<>> =>
    /\ pc = "idle" => cd.life = "gone" \/ (cd.life = "live" /\ Done(cd))
    /\ pc \in {"deployment", "service"} =>
         orig = cd /\ my = cd /\ cd.life = "live" /\ target = imageCache /\ imageCache # 0
    /\ pc = "service" /\ deployFresh =>
         got = deploy /\ deploy.gen > 0 /\ deploy.image = target /\ deploy.config = my.config
    /\ pc = "patch" =>
         orig = cd /\ cd.life = "live" /\ Done(my) /\ my.life = cd.life /\ my.config = cd.config

RInv == Current /\ Covered

\* What is left of a watch ends as it did; without a rest, its head was its end.
LEMMA TailEnds ==
  ASSUME NEW list \in Seq(Version), list # <<>>, NEW rest, rest = Tail(list)
  PROVE  IF rest = <<>> THEN Head(list) = list[Len(list)] ELSE rest[Len(rest)] = list[Len(list)]
<1> DEFINE n == Len(list)
<1>1. /\ rest \in Seq(Version) /\ Len(rest) = n - 1
      /\ \A k \in 1 .. Len(rest) : rest[k] = list[k + 1]
  BY HeadTailProperties
<1>2. n \in Nat /\ n > 0 /\ Head(list) = list[1]
  BY LenProperties, HeadTailProperties, EmptySeq
<1>3. rest = <<>> => Len(rest) = 0
  OBVIOUS
<1>4. rest # <<>> => Len(rest) \in Nat \ {0}
  BY <1>1, EmptySeq
<1> HIDE DEF n
<1>5. CASE rest = <<>>
  <2>1. n = 1
    BY <1>1, <1>2, <1>3, <1>5
  <2> QED
    BY <1>2, <1>5, <2>1 DEF n
<1>6. CASE rest # <<>>
  <2>1. n - 1 \in 1 .. Len(rest) /\ (n - 1) + 1 = n
    BY <1>1, <1>2, <1>4, <1>6
  <2>2. rest[Len(rest)] = list[n]
    BY <1>1, <2>1
  <2> QED
    BY <1>6, <2>2 DEF n
<1> QED
  BY <1>5, <1>6

\* A write ends the watch with what was written.
LEMMA StoreEnds ==
  ASSUME NEW v \in Version, watch \in Seq(Version), Store(v)
  PROVE  watch' # <<>> /\ watch'[Len(watch')] = cd'
<1>1. cd' = v /\ watch' = Append(watch, v)
  BY DEF Store
<1>2. Len(watch') = Len(watch) + 1 /\ watch'[Len(watch) + 1] = v /\ Len(watch) \in Nat
  BY <1>1
<1>3. \A list : list = <<>> => Len(list) = 0
  OBVIOUS
<1> QED
  BY <1>1, <1>2, <1>3

\* Deriving the status of a derived status changes nothing.
LEMMA StatusAgain ==
  ASSUME NEW v \in Version, NEW img \in Nat, NEW d \in Deployment, NEW w, w = StatusOf(v, img, d)
  PROVE  w = StatusOf(w, img, d) /\ w.life = v.life /\ w.config = v.config
<1> DEFINE u == [v EXCEPT !.image = img]
<1>1. PICK phase \in Phases, reason \in Reasons :
        /\ w = setCDCondition(u, phase, reason)
        /\ StatusOf(w, img, d) = setCDCondition([w EXCEPT !.image = img], phase, reason)
  BY DEF StatusOf, Phases, Reasons
<1>2. u \in Version /\ u.image = img /\ u.life = v.life /\ u.config = v.config
  BY DEF Version
<1> HIDE DEF u
<1>3. w \in Version /\ w.image = img /\ w.life = v.life /\ w.config = v.config
      /\ w.phase = phase /\ w.reason = reason
  BY <1>1, <1>2 DEF setCDCondition, Version
<1>4. setCDCondition([w EXCEPT !.image = img], phase, reason) = w
  BY <1>3 DEF setCDCondition, Version
<1> QED
  BY <1>1, <1>3, <1>4

\* A patch from the CD itself that changes nothing had nothing to say.
LEMMA PatchIdle ==
  ASSUME NEW v \in Version, NEW w \in Version, MergePatch(v, v, w) = v,
         w.life = v.life, w.config = v.config
  PROVE  w = v
<1>1. w.phase = v.phase /\ w.image = v.image
  BY DEF MergePatch, Version
<1>2. w.reason = v.reason
  BY <1>1 DEF MergePatch, Version
<1> QED
  BY <1>1, <1>2 DEF Version

\* The caches stay current, or are known not to be.
LEMMA CurrentStep == ASSUME IInv, Current, [Next]_vars PROVE Current'
<1>1. watch \in Seq(Version) /\ {cd, orig, my} \subseteq Version /\ deploy \in Deployment
  BY DEF IInv, TypeOK
<1>2. /\ deployFresh' => deployCache' = deploy'
      /\ exposeFresh' => exposeCache' = expose'
      /\ deploy'.gen = 0 => deploy' = NoDeployment
  <2>1. CASE reconcileDeployment
    <3>1. exposeFresh' = exposeFresh /\ exposeCache' = exposeCache /\ expose' = expose
          /\ deployCache' = deployCache
      BY <2>1 DEF reconcileDeployment, exposeVars
    <3>2. CASE UNCHANGED <<deploy, deployFresh>>
      BY <3>1, <3>2 DEF Current
    <3>3. CASE deploy' = Updated(deploy) /\ deployFresh' = (deployFresh /\ Wanted(deploy))
      <4>1. deploy'.gen > 0
        BY <1>1, <3>3, UpdateNames DEF IInv, TypeOK
      <4>2. deployFresh' => deployFresh /\ deploy' = deploy
        BY <3>3 DEF Updated
      <4>3. deployFresh' => deployCache' = deploy'
        BY <3>1, <4>2 DEF Current
      <4>4. exposeFresh' => exposeCache' = expose'
        BY <3>1 DEF Current
      <4>5. deploy'.gen # 0
        BY <4>1
      <4> QED
        BY <4>3, <4>4, <4>5
    <3>4. \/ UNCHANGED <<deploy, deployFresh>>
          \/ deploy' = Updated(deploy) /\ deployFresh' = (deployFresh /\ Wanted(deploy))
      BY <2>1, Zenon DEF reconcileDeployment
    <3> QED
      BY <3>2, <3>3, <3>4
  <2>2. CASE reconcileService
    <3>1. UNCHANGED <<deploy, deployCache, deployFresh, exposeCache>>
      BY <2>2 DEF reconcileService, deployVars
    <3>2. exposeFresh' => exposeFresh /\ expose' = expose
      BY <2>2 DEF reconcileService, Return
    <3> QED
      BY <3>1, <3>2 DEF Current
  <2>3. CASE Observe \/ Complete \/ Stall \/ Unavailable
    <3>1. PICK observed, state : DeploymentTurns(observed, state)
      BY <2>3 DEF Observe, Complete, Stall, Unavailable
    <3>2. deploy.gen # 0
      BY <1>1, <2>3 DEF Observe, Complete, Stall, Unavailable, Deployment, Current, NoDeployment
    <3>3. deploy'.gen = deploy.gen
      BY <1>1, <3>1 DEF DeploymentTurns, Deployment
    <3> QED
      BY <3>1, <3>2, <3>3 DEF DeploymentTurns, exposeVars, Current
  <2>4. CASE RemoveChildren
    <3>1. deploy \in Deployment /\ expose \in Nat
      BY DEF IInv, TypeOK
    <3> QED
      BY <2>4, <3>1 DEF RemoveChildren, Current, NoDeployment
  <2>5. CASE DeployCacheSync \/ ExposeCacheSync
    BY <2>5 DEF DeployCacheSync, ExposeCacheSync, deployVars, exposeVars, Current
  <2>6. CASE Crash
    BY <2>6 DEF Crash, Current
  <2>7. CASE UNCHANGED childVars
    BY <2>7 DEF childVars, deployVars, exposeVars, Current
  <2>8. \/ reconcileDeployment \/ reconcileService \/ Observe \/ Complete \/ Stall \/ Unavailable
        \/ RemoveChildren \/ DeployCacheSync \/ ExposeCacheSync \/ Crash \/ UNCHANGED childVars
    BY DEF Next, ControllerStep, Reconcile, UpdateFinalizer, patchStatus, CacheSync, ImageCacheSync,
           Build, EditSpec, DeleteCD, ApiError, Break, Repair, vars, childVars, deployVars, exposeVars
  <2> QED
    BY <2>1, <2>2, <2>3, <2>4, <2>5, <2>6, <2>7, <2>8
<1>3. IF watch' = <<>> THEN cache' = cd' ELSE watch'[Len(watch')] = cd'
  <2>1. CASE UNCHANGED cdVars
    BY <2>1 DEF cdVars, Current
  <2>2. CASE cache' = cache /\ UNCHANGED <<cd, watch>>
    BY <2>2 DEF Current
  <2>3. CASE \E v \in Version : Store(v)
    BY <1>1, <2>3, StoreEnds
  <2>4. CASE CacheSync
    <3>1. watch # <<>> /\ cache' = Head(watch) /\ watch' = Tail(watch) /\ cd' = cd
      BY <2>4 DEF CacheSync
    <3>2. watch[Len(watch)] = cd
      BY <3>1 DEF Current
    <3> QED
      BY <1>1, <3>1, <3>2, TailEnds
  <2>5. CASE Crash
    BY <2>5 DEF Crash
  <2>6. CASE UpdateFinalizer
    <3>1. \A life \in {"live", "gone"} : [cd EXCEPT !.life = life] \in Version
      BY <1>1 DEF Version
    <3>2. (\E life \in {"live", "gone"} : Store([cd EXCEPT !.life = life])) \/ UNCHANGED <<cd, watch>>
      BY <2>6 DEF UpdateFinalizer
    <3> QED
      BY <2>2, <2>3, <2>6, <3>1, <3>2 DEF UpdateFinalizer
  <2>7. CASE patchStatus
    <3>1. MergePatch(cd, orig, my) \in Version
      BY <1>1, PatchNames
    <3> QED
      BY <2>2, <2>3, <2>7, <3>1 DEF patchStatus
  <2>8. CASE EditSpec \/ DeleteCD
    <3>1. cd.config + 1 \in Nat
      BY <1>1 DEF Version
    <3>2. \A n \in Nat : [cd EXCEPT !.config = n] \in Version
      BY <1>1, Zenon DEF Version
    <3>3. [cd EXCEPT !.life = "deleting"] \in Version
      BY <1>1 DEF Version
    <3>4. \E v \in Version : Store(v)
      BY <2>8, <3>1, <3>2, <3>3 DEF EditSpec, DeleteCD, OthersStore
    <3> QED
      BY <2>3, <3>4
  <2>9. \/ UNCHANGED cdVars \/ CacheSync \/ Crash \/ UpdateFinalizer \/ patchStatus
        \/ EditSpec \/ DeleteCD
    BY DEF Next, ControllerStep, Reconcile, reconcileDeployment, reconcileService, ImageCacheSync,
           DeployCacheSync, ExposeCacheSync, Observe, Complete, Stall, Unavailable, DeploymentTurns,
           Build, RemoveChildren, ApiError, Break, Repair, vars, cdVars
  <2> QED
    BY <2>1, <2>4, <2>5, <2>6, <2>7, <2>8, <2>9
<1> QED
  BY <1>2, <1>3 DEF Current

-----------------------------------------------------------------------------
(* What a pass leaves behind.                                              *)

\* A step that brings another pass, or another version of the CD, owes nothing.
LEMMA Disturbed == ASSUME queued' \/ watch' # <<>> PROVE Covered'
BY DEF Covered

\* A step beside the reconciler, under which Deployment and Kubernetes Service
\* stay as they are, or are known to have changed.
LEMMA AsideCovered ==
  ASSUME Covered, UNCHANGED <<queued, imageCache, cd, watch, pc, orig, my, target, got>>,
         deployFresh' => deployFresh /\ deploy' = deploy,
         exposeFresh' => exposeFresh /\ expose' = expose
  PROVE  Covered'
<1>1. \A v : Done(v) => Done(v)'
  BY DEF Done
<1> QED
  BY <1>1 DEF Covered

\* A pass begins.
LEMMA ReconcileCovered == ASSUME IInv, RInv, Reconcile PROVE Covered'
<1>1. /\ pc = "idle" /\ ReadAndDecide(cache)
      /\ UNCHANGED <<imageCache, cd, watch, deploy, deployFresh, expose, exposeFresh>>
  BY DEF Reconcile, ciVars, cdVars, childVars, deployVars, exposeVars
<1> SUFFICES ASSUME ~ queued', watch' = <<>> PROVE Covered'
  BY Disturbed
<1>2. cache = cd /\ cd \in Version
  BY <1>1 DEF RInv, Current, IInv, TypeOK
<1>3. CASE cd.life = "gone" /\ UNCHANGED reconciler
  BY <1>1, <1>3 DEF Covered, reconciler
<1>4. CASE pc' \in {"finalizer", "patchAndRetry"}
  BY <1>4 DEF Covered
<1>5. CASE pc' = "deployment" /\ orig' = cd /\ my' = cd /\ cd.life = "live"
           /\ target' = imageCache /\ imageCache # 0
  BY <1>1, <1>5 DEF Covered
<1>6. CASE /\ pc' = "patch" /\ orig' = cd /\ cd.life = "live"
           /\ \/ my' = setCDCondition(cd, "Failed", "SecretNotAllowed")
              \/ my' = setCDCondition(cd, "Waiting", "WaitingForCI") /\ imageCache = 0
  <2>1. my'.life = cd.life /\ my'.config = cd.config
    BY <1>2, <1>6 DEF setCDCondition, Version
  <2>2. \A p \in Phases, r \in Reasons :
          setCDCondition(setCDCondition(cd, p, r), p, r) = setCDCondition(cd, p, r)
    BY <1>2 DEF setCDCondition, Version
  <2>3. \/ my' = setCDCondition(my', "Failed", "SecretNotAllowed")
        \/ imageCache' = 0 /\ my' = setCDCondition(my', "Waiting", "WaitingForCI")
    BY <1>1, <1>6, <2>2 DEF Phases, Reasons
  <2>4. Done(my)'
    BY <2>3 DEF Done
  <2> QED
    BY <1>1, <1>6, <2>1, <2>4 DEF Covered
<1> QED
  BY <1>1, <1>2, <1>3, <1>4, <1>5, <1>6 DEF ReadAndDecide, Patch, Deploys

\* The finalizer has come or gone, or there is another pass.
LEMMA FinalizerCovered == ASSUME IInv, UpdateFinalizer PROVE Covered'
<1>1. CASE ~ mine
  BY <1>1, Disturbed DEF UpdateFinalizer, Return
<1>2. CASE mine
  <2>1. \A life \in {"live", "gone"} : [cd EXCEPT !.life = life] \in Version
    BY DEF IInv, TypeOK, Version
  <2>2. \E v \in Version : Store(v)
    BY <1>2, <2>1 DEF UpdateFinalizer
  <2>3. watch' # <<>>
    BY <2>2, StoreEnds DEF IInv, TypeOK
  <2> QED
    BY <2>3, Disturbed
<1> QED
  BY <1>1, <1>2 DEF IInv, TypeOK

\* The Deployment has the wanted template, or there is another pass.
LEMMA DeploymentCovered == ASSUME IInv, RInv, reconcileDeployment PROVE Covered'
<1>1. UNCHANGED <<imageCache, cd, watch>> /\ pc = "deployment"
  BY DEF reconcileDeployment, ciVars, cdVars
<1>2. CASE Return(TRUE)
  BY <1>2, Disturbed DEF Return
<1>3. CASE pc' = "patchAndRetry"
  BY <1>3 DEF Covered
<1>4. CASE /\ deploy' = Updated(deploy) /\ got' = deploy' /\ pc' = "service"
           /\ deployFresh' = (deployFresh /\ Wanted(deploy))
           /\ UNCHANGED <<orig, my, target, queued>>
  <2>1. deployFresh' => deploy' = deploy /\ deploy.gen > 0 /\ deploy.image = target
                        /\ deploy.config = my.config
    BY <1>4 DEF Updated, Wanted
  <2> QED
    BY <1>1, <1>4, <2>1 DEF RInv, Covered
<1> QED
  BY <1>2, <1>3, <1>4 DEF reconcileDeployment, Patch

\* Both are in place and the status says so, or there is another pass.
LEMMA ServiceCovered == ASSUME IInv, RInv, reconcileService PROVE Covered'
<1>1. /\ UNCHANGED <<imageCache, cd, watch, deploy, deployFresh, exposeCache>> /\ pc = "service"
  BY DEF reconcileService, ciVars, cdVars, deployVars
<1>2. CASE Return(TRUE)
  BY <1>2, Disturbed DEF Return
<1>3. CASE pc' = "patchAndRetry"
  BY <1>3 DEF Covered
<1>4. CASE /\ pc' = "patch" /\ my' = StatusOf(my, target, got)
           /\ UNCHANGED <<orig, target, got, queued>>
           /\ exposeFresh' => exposeFresh /\ expose' = expose /\ exposeCache = my.config
  <2> SUFFICES ASSUME ~ queued', watch' = <<>> PROVE Covered'
    BY Disturbed
  <2>1. /\ orig = cd /\ my = cd /\ cd.life = "live" /\ target = imageCache /\ imageCache # 0
        /\ deployFresh => /\ got = deploy /\ deploy.gen > 0 /\ deploy.image = target
                          /\ deploy.config = my.config
    BY <1>1, <1>4 DEF RInv, Covered
  <2>2. cd \in Version /\ imageCache \in Nat /\ got \in Deployment
    BY DEF IInv, TypeOK
  <2>3. my' = StatusOf(my', imageCache, got) /\ my'.life = cd.life /\ my'.config = cd.config
    BY <1>4, <2>1, <2>2, StatusAgain
  <2>4. exposeFresh' => expose' = cd.config
    BY <1>4, <2>1 DEF RInv, Current
  <2>5. Done(my)'
    <3>1. imageCache' # 0
      BY <1>1, <2>1
    <3>2. deployFresh' /\ exposeFresh' =>
            /\ deploy'.gen > 0 /\ deploy'.image = imageCache' /\ deploy'.config = my'.config
            /\ expose' = my'.config
      BY <1>1, <2>1, <2>3, <2>4
    <3>3. deployFresh' => my' = StatusOf(my', imageCache', deploy')
      BY <1>1, <2>1, <2>3
    <3> QED
      BY <3>1, <3>2, <3>3 DEF Done, StatusOf, setCDCondition, RolledOut, deployFailed
  <2> QED
    BY <1>1, <1>4, <2>1, <2>3, <2>5 DEF Covered
<1>5. \/ Return(TRUE) \/ pc' = "patchAndRetry"
      \/ /\ pc' = "patch" /\ my' = StatusOf(my, target, got)
         /\ UNCHANGED <<orig, target, got, queued>>
         /\ exposeFresh' => exposeFresh /\ expose' = expose /\ exposeCache = my.config
  BY DEF reconcileService, Patch
<1> QED
  BY <1>2, <1>3, <1>4, <1>5

\* The status is the one that is wanted, or a new version of the CD is under way.
LEMMA PatchCovered == ASSUME IInv, RInv, patchStatus PROVE Covered'
<1> DEFINE w == MergePatch(cd, orig, my)
<1>1. cd \in Version /\ my \in Version /\ w \in Version /\ watch \in Seq(Version)
  BY PatchNames DEF IInv, TypeOK
<1>2. CASE Store(w)
  <2> HIDE DEF w
  <2>1. watch' # <<>>
    BY <1>1, <1>2, StoreEnds
  <2> QED
    BY <2>1, Disturbed
<1>3. CASE pc = "patchAndRetry" \/ cd.life = "gone"
  BY <1>3, Disturbed DEF patchStatus, Return
<1>4. CASE pc = "patch" /\ w = cd /\ UNCHANGED <<cd, watch>>
  <2> SUFFICES ASSUME ~ queued', watch' = <<>> PROVE Covered'
    BY Disturbed
  <2>1. ~ queued /\ pc' = "idle"
        /\ UNCHANGED <<imageCache, deploy, deployFresh, expose, exposeFresh>>
    BY DEF patchStatus, Return, ciVars, childVars, deployVars, exposeVars
  <2>2. orig = cd /\ cd.life = "live" /\ Done(my) /\ my.life = cd.life /\ my.config = cd.config
    BY <1>4, <2>1 DEF RInv, Covered
  <2>3. my = cd
    BY <1>1, <1>4, <2>2, PatchIdle
  <2>4. Done(cd)'
    <3>1. Done(cd)
      BY <2>2, <2>3
    <3> QED
      BY <1>4, <2>1, <3>1 DEF Done, StatusOf, setCDCondition, RolledOut, deployFailed
  <2> QED
    BY <1>4, <2>1, <2>2, <2>4 DEF Covered
<1> QED
  BY <1>2, <1>3, <1>4 DEF patchStatus

\* Someone else writes the CD.
LEMMA OthersCovered == ASSUME IInv, EditSpec \/ DeleteCD PROVE Covered'
<1>1. cd \in Version /\ cd.config + 1 \in Nat
  BY DEF IInv, TypeOK, Version
<1>2. \A n \in Nat : [cd EXCEPT !.config = n] \in Version
  BY <1>1, Zenon DEF Version
<1>3. [cd EXCEPT !.life = "deleting"] \in Version
  BY <1>1 DEF Version
<1>4. \E v \in Version : Store(v)
  BY <1>1, <1>2, <1>3 DEF EditSpec, DeleteCD, OthersStore
<1>5. watch' # <<>>
  BY <1>4, StoreEnds DEF IInv, TypeOK
<1> QED
  BY <1>5, Disturbed

\* Deployment and Kubernetes Service go: what was there is known to be gone.
LEMMA RemoveCovered == ASSUME IInv, RInv, RemoveChildren PROVE Covered'
<1>1. /\ UNCHANGED <<queued, imageCache, cd, watch, pc, orig, my, target, got>>
      /\ deploy' = NoDeployment /\ deployFresh' = (deployFresh /\ deploy.gen = 0)
      /\ expose' = 0 /\ exposeFresh' = (exposeFresh /\ expose = 0)
  BY DEF RemoveChildren, ciVars, cdVars, reconciler
<1>2. deployFresh' => deployFresh /\ deploy' = deploy
  BY <1>1 DEF RInv, Current
<1>3. exposeFresh' => exposeFresh /\ expose' = expose
  BY <1>1
<1> QED
  BY <1>1, <1>2, <1>3, AsideCovered DEF RInv

\* Every step.
LEMMA CoveredStep == ASSUME IInv, RInv, [Next]_vars PROVE Covered'
<1>1. CASE CacheSync \/ ImageCacheSync \/ DeployCacheSync \/ ExposeCacheSync
  BY <1>1, Disturbed DEF CacheSync, ImageCacheSync, DeployCacheSync, ExposeCacheSync
<1>2. CASE Crash
  BY <1>2, Disturbed DEF Crash
<1>3. CASE ApiError
  BY <1>3, Disturbed DEF ApiError, Return
<1>4. CASE Observe \/ Complete \/ Stall \/ Unavailable
  <2>1. PICK observed, state : DeploymentTurns(observed, state)
    BY <1>4 DEF Observe, Complete, Stall, Unavailable
  <2>2. /\ UNCHANGED <<queued, imageCache, cd, watch, pc, orig, my, target, got, expose, exposeFresh>>
        /\ deployFresh' = FALSE
    BY <2>1 DEF DeploymentTurns, ciVars, cdVars, exposeVars, reconciler
  <2> QED
    BY <2>2, AsideCovered DEF RInv
<1>5. CASE Build \/ (\E need \in Needs : Break(need) \/ Repair(need)) \/ UNCHANGED vars
  <2>1. UNCHANGED <<queued, imageCache, cd, watch, pc, orig, my, target, got,
                    deploy, deployFresh, expose, exposeFresh>>
    BY <1>5 DEF Build, Break, Repair, vars, ciVars, cdVars, childVars, deployVars, exposeVars,
                reconciler
  <2> QED
    BY <2>1, AsideCovered DEF RInv
<1> QED
  BY <1>1, <1>2, <1>3, <1>4, <1>5, ReconcileCovered, FinalizerCovered, DeploymentCovered,
     ServiceCovered, PatchCovered, OthersCovered, RemoveCovered DEF Next, ControllerStep

\* Whatever of the CD is not as it should be is queued, in hand, or something a
\* cache has yet to show.
THEOREM CDRestInvariant == Spec => []RInv
<1>1. Init => RInv
  <2>1. Init => Current
    BY DEF Init, Current
  <2>2. Init => Covered
    BY DEF Init, Covered
  <2> QED
    BY <2>1, <2>2 DEF RInv
<1>2. IInv /\ RInv /\ [Next]_vars => RInv'
  BY CurrentStep, CoveredStep DEF RInv
<1> QED
  BY <1>1, <1>2, CDInvariant, PTL DEF Spec

\* No wake-up of the CD is lost: when the caches show everything and no pass runs
\* or is queued, a CD that is not gone is in place, or waits for its first image,
\* or was refused for a Secret.
THEOREM RolloutAtRestTheorem == Spec => []RolloutAtRest
<1>1. IInv /\ RInv => RolloutAtRest
  <2> SUFFICES ASSUME IInv, RInv, pc = "idle", ~ queued, watch = <<>>, imageCache = image,
                      deployFresh, exposeFresh, cd.life # "gone"
               PROVE  /\ cd.life = "live"
                      /\ cd.reason # "SecretNotAllowed" =>
                           IF image = 0 THEN cd.phase = "Waiting" ELSE InPlace
    BY DEF RolloutAtRest
  <2>1. cd.life = "live" /\ Done(cd)
    BY DEF RInv, Covered
  <2>2. cd = setCDCondition(cd, "Failed", "SecretNotAllowed") => cd.reason = "SecretNotAllowed"
    BY DEF setCDCondition, IInv, TypeOK, Version
  <2>3. cd = setCDCondition(cd, "Waiting", "WaitingForCI") => cd.phase = "Waiting"
    BY DEF setCDCondition, IInv, TypeOK, Version
  <2> QED
    BY <2>1, <2>2, <2>3 DEF Done, InPlace
<1> QED
  BY <1>1, CDInvariant, CDRestInvariant, PTL
=============================================================================
