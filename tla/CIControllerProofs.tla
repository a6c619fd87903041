------------------------- MODULE CIControllerProofs -------------------------
(***************************************************************************)
(* Proofs that the CI controller keeps its safety properties, and that it  *)
(* does not rest before a CI has its outcome, for any set of revisions,    *)
(* registries and Pods, any faults and any bounds.                         *)
(***************************************************************************)
EXTENDS CIController, TLAPS

\* Two copies of the CI that differ in the status at most.
SameSpec(v, w) ==
  v.rv = w.rv /\ v.gen = w.gen /\ v.rev = w.rev /\ v.reg = w.reg /\ v.life = w.life

\* The part of IInv about copies of the CI and about Pods.
CopiesSound ==
  /\ \A v \in Copies : Dated(v) /\ Sound(v)
  /\ \A v, w \in Copies : Agree(v, w)
  /\ \A p \in PodNames : PodSound(p)

\* The status functions of the reconciler (setCIPhase, markCIFailed and the
\* status a new or followed build gets) make well-formed versions of the CI
\* and leave metadata and spec alone.
LEMMA StatusFunctions ==
  ASSUME NEW v \in Version
  PROVE  /\ \A ph \in Phases, r \in Reasons :
              setCIPhase(v, ph, r) \in Version /\ SameSpec(setCIPhase(v, ph, r), v)
         /\ \A r \in Reasons :
              markCIFailed(v, r) \in Version /\ SameSpec(markCIFailed(v, r), v)
         /\ \A r \in Reasons :
              RefuseBuild(v, r) \in Version /\ SameSpec(RefuseBuild(v, r), v)
         /\ PodCreateFailed(v) \in Version /\ SameSpec(PodCreateFailed(v), v)
         /\ \A p \in PodNames :
              StartBuild(v, p) \in Version /\ SameSpec(StartBuild(v, p), v)
         /\ \A ph \in PodPhases : v.rev # None =>
              podResult(v, ph) \in Version /\ SameSpec(podResult(v, ph), v)
<1>1. ASSUME NEW ph \in Phases, NEW r \in Reasons
      PROVE  setCIPhase(v, ph, r) \in Version /\ SameSpec(setCIPhase(v, ph, r), v)
  BY DEF Version, SameSpec, setCIPhase
<1>2. ASSUME NEW r \in Reasons
      PROVE  /\ markCIFailed(v, r) \in Version /\ SameSpec(markCIFailed(v, r), v)
             /\ markCIFailed(v, r).observed = v.gen
  BY DEF Version, Phases, SameSpec, markCIFailed
<1>3. ASSUME NEW r \in Reasons
      PROVE  RefuseBuild(v, r) \in Version /\ SameSpec(RefuseBuild(v, r), v)
  BY <1>2 DEF Version, SameSpec, RefuseBuild
<1>4. "PodCreateFailed" \in Reasons /\ "BuildFailed" \in Reasons /\ "Building" \in Reasons
      /\ "Succeeded" \in Reasons /\ {"Building", "Succeeded"} \subseteq Phases
  BY DEF Reasons, Phases
<1>5. PodCreateFailed(v) \in Version /\ SameSpec(PodCreateFailed(v), v)
  BY <1>2, <1>4 DEF Version, SameSpec, PodCreateFailed
<1>6. ASSUME NEW p \in PodNames
      PROVE  StartBuild(v, p) \in Version /\ SameSpec(StartBuild(v, p), v)
  BY <1>4 DEF Version, SameSpec, StartBuild, setCIPhase
<1>7. ASSUME NEW ph \in PodPhases, v.rev # None
      PROVE  podResult(v, ph) \in Version /\ SameSpec(podResult(v, ph), v)
  <2>1. CASE ph = "Succeeded"
    <3>1. imageRef(v) \in Images
      BY <1>7 DEF Version, imageRef, Images
    <3> QED BY <2>1, <3>1, <1>4 DEF podResult, Succeed, Version, SameSpec
  <2>2. CASE ph = "Failed"
    BY <2>2, <1>2, <1>4 DEF podResult, Succeed
  <2>3. CASE ph \notin {"Succeeded", "Failed"}
    BY <2>3, <1>1, <1>4 DEF podResult, Succeed
  <2> QED BY <2>1, <2>2, <2>3
<1> QED BY <1>1, <1>2, <1>3, <1>5, <1>6, <1>7

\* The status functions that end or refuse a build keep a sound copy sound.
LEMMA StatusSound ==
  ASSUME NEW v \in Version, Sound(v)
  PROVE  /\ Sound(setCIPhase(v, "Idle", "Idle"))
         /\ \A r \in Reasons : Sound(markCIFailed(v, r)) /\ Sound(RefuseBuild(v, r))
         /\ Sound(PodCreateFailed(v))
<1>1. Sound(setCIPhase(v, "Idle", "Idle"))
  BY DEF Version, Sound, setCIPhase
<1>2. ASSUME NEW r \in Reasons PROVE Sound(markCIFailed(v, r))
  BY DEF Version, Sound, markCIFailed
<1>3. ASSUME NEW r \in Reasons PROVE Sound(RefuseBuild(v, r))
  BY DEF Version, Sound, RefuseBuild, markCIFailed
<1>4. Sound(PodCreateFailed(v))
  BY DEF Version, Sound, PodCreateFailed, markCIFailed
<1> QED BY <1>1, <1>2, <1>3, <1>4

\* Metadata other than the generation does not matter to soundness, and a
\* spec edit leaves a running build to the generation it was started for.
LEMMA SoundMetadata ==
  ASSUME NEW v \in Version, Sound(v)
  PROVE  /\ \A l, n : Sound([v EXCEPT !.life = l, !.rv = n])
         /\ \A n : Sound([v EXCEPT !.rv = n])
         /\ \A rev, reg, n :
              Sound([v EXCEPT !.gen = v.gen + 1, !.rev = rev, !.reg = reg, !.rv = n])
<1>1. \A l, n : Sound([v EXCEPT !.life = l, !.rv = n])
  BY DEF Version, Sound, current, imageRef
<1>2. \A n : Sound([v EXCEPT !.rv = n])
  BY DEF Version, Sound, current, imageRef
<1>3. ASSUME NEW rev, NEW reg, NEW n
      PROVE  Sound([v EXCEPT !.gen = v.gen + 1, !.rev = rev, !.reg = reg, !.rv = n])
  <2>1. v.gen \in Nat /\ v.observed \in Nat /\ v.observed <= v.gen
    BY DEF Version, Sound
  <2>2. v.observed # v.gen + 1 /\ v.observed <= v.gen + 1
    BY <2>1
  <2> QED BY <2>2 DEF Version, Sound, current, imageRef
<1> QED BY <1>1, <1>2, <1>3

\* Following a Pod: the image of a Pod that succeeded has been pushed.
LEMMA FollowSound ==
  ASSUME NEW v \in Version, NEW ph \in PodPhases, Sound(v),
         v.phase = "Building", current(v), v.rev # None,
         ph = "Succeeded" => <<imageRef(v), v.gen>> \in pushed
  PROVE  Sound(podResult(v, ph))
<1>1. CASE ph = "Succeeded"
  <2>1. v.observed = v.gen
    BY DEF current
  <2>2. /\ podResult(v, ph).image = imageRef(v) /\ podResult(v, ph).phase = "Succeeded"
        /\ podResult(v, ph).observed = v.gen /\ podResult(v, ph).gen = v.gen /\ v.gen \in Nat
    BY <1>1, <2>1 DEF podResult, Succeed, Version
  <2>3. <<imageRef(v), v.gen>>[1] = imageRef(v)
    OBVIOUS
  <2>4. v.gen <= v.gen
    BY <2>2
  <2> QED BY <1>1, <2>2, <2>3, <2>4 DEF Sound
<1>2. CASE ph = "Failed"
  BY <1>2, StatusSound DEF podResult, Succeed, Reasons
<1>3. CASE ph \notin {"Succeeded", "Failed"}
  BY <1>3 DEF podResult, Succeed, setCIPhase, Sound, Version, current, imageRef
<1> QED BY <1>1, <1>2, <1>3

\* A step of the reconciler or of the world that leaves the CI, the caches
\* of CI and Pods, and the Pods alone.
LEMMA LocalStep ==
  ASSUME TypeOK, TypeOK', CopiesSound,
         UNCHANGED <<ci, watch, cache, pods, podCache, pushed>>,
         pc' # "idle" => Sound(my') /\ \E w \in Copies : SameSpec(my', w)
  PROVE  CopiesSound'
<1>1. \A v \in Copies' : \E w \in Copies : SameSpec(v, w)
  BY DEF Copies, SameSpec
<1>2. ASSUME NEW v \in Copies' PROVE Sound(v)'
  <2>1. v \in Copies \/ (pc' # "idle" /\ v = my')
    BY DEF Copies
  <2>2. Sound(v)
    BY <2>1 DEF CopiesSound
  <2> QED BY <2>2 DEF Sound, Exists, current, imageRef
<1>3. \A v \in Copies' : Dated(v)'
  BY <1>1 DEF CopiesSound, Dated, SameSpec
<1>4. \A v, w \in Copies' : Agree(v, w)
  BY <1>1 DEF CopiesSound, Agree, SameSpec
<1>5. \A p \in PodNames : PodSound(p)'
  BY <1>1 DEF CopiesSound, PodSound, SameSpec, imageRef, Exists
<1> QED BY <1>2, <1>3, <1>4, <1>5 DEF CopiesSound, Agree

\* A write of the CI at the API server: of its own spec with a sound status,
\* or of the next generation.
LEMMA StoreStep ==
  ASSUME TypeOK, TypeOK', CopiesSound, Sound(ci'),
         ci'.rv = ci.rv + 1, watch' = watch \cup {ci'},
         ci'.gen = ci.gen + 1 \/ (ci'.gen = ci.gen /\ ci'.rev = ci.rev /\ ci'.reg = ci.reg),
         UNCHANGED <<cache, pods, podCache, pushed>>,
         pc' # "idle" => my' = my /\ pc # "idle"
  PROVE  CopiesSound'
<1> USE DEF TypeOK, Version
<1>1. \A v \in Copies' : v = ci' \/ v \in Copies
  BY DEF Copies
<1>2. \A v \in Copies' : v.rv \in Nat /\ v.gen \in Nat
  BY DEF Copies
<1>3. ASSUME NEW v \in Copies' PROVE Sound(v)'
  <2>1. Sound(v)
    BY <1>1 DEF CopiesSound
  <2> QED BY <2>1 DEF Sound, Exists, current, imageRef
<1>4. \A v \in Copies' : Dated(v)'
  BY <1>1, <1>2 DEF CopiesSound, Dated
<1>5. ci \in Copies
  BY DEF Copies
<1>6. \A v, w \in Copies' : Agree(v, w)
  <2>1. \A v \in Copies : v.gen \in Nat /\ v.gen <= ci.gen
    BY DEF CopiesSound, Dated, Copies
  <2>2. \A v \in Copies : Agree(v, ci') /\ Agree(ci', v)
    BY <2>1, <1>5 DEF CopiesSound, Agree
  <2> QED BY <1>1, <2>2 DEF CopiesSound, Agree
<1>7. \A p \in PodNames : PodSound(p)'
  <2> SUFFICES ASSUME NEW p \in PodNames, Exists(p)
               PROVE  PodSound(p)'
    BY DEF PodSound, Exists
  <2>1. pods[p].gen \in Nat /\ pods[p].gen <= ci.gen
    BY DEF CopiesSound, PodSound, Pod
  <2>2. ci'.gen = pods[p].gen => pods[p].image = imageRef(ci')
    <3>1. ci.gen = pods[p].gen => pods[p].image = imageRef(ci)
      BY <1>5 DEF CopiesSound, PodSound
    <3>2. ci.gen \in Nat
      OBVIOUS
    <3>3. CASE ci'.gen = ci.gen + 1
      BY <2>1, <3>2, <3>3
    <3>4. CASE ci'.gen = ci.gen /\ ci'.rev = ci.rev /\ ci'.reg = ci.reg
      BY <3>1, <3>4 DEF imageRef
    <3> QED BY <3>3, <3>4
  <2>3. \A v \in Copies' : v.gen = pods[p].gen => pods[p].image = imageRef(v)
    BY <2>2, <1>1 DEF CopiesSound, PodSound
  <2> QED BY <2>1, <2>3 DEF CopiesSound, PodSound, Exists, imageRef
<1> QED BY <1>3, <1>4, <1>6, <1>7 DEF CopiesSound, Agree

\* A step that only forgets copies of the CI: CacheSync.
LEMMA ForgetStep ==
  ASSUME CopiesSound, Copies' \subseteq Copies,
         UNCHANGED <<ci, pods, podCache, pushed>>
  PROVE  CopiesSound'
  BY DEF CopiesSound, Dated, Sound, Agree, PodSound, Exists, current, imageRef

\* The Pod cache catches up with some Pods, and copies are forgotten at most:
\* a Pod that now shows as succeeded had pushed the image of its generation.
LEMMA PodCacheStep ==
  ASSUME TypeOK, CopiesSound, Copies' \subseteq Copies,
         UNCHANGED <<ci, pods, pushed>>,
         \A p \in PodNames : podCache'[p] \in {podCache[p], Seen(pods[p].phase)}
  PROVE  CopiesSound'
<1>1. ASSUME NEW v \in Copies PROVE Sound(v)'
  <2>1. Sound(v)
    BY DEF CopiesSound
  <2>2. ASSUME v.phase = "Building", current(v), podCache'[v.buildPod] = "Succeeded"
        PROVE  <<imageRef(v), v.gen>> \in pushed
    <3>1. v.buildPod \in PodNames
      BY <2>1, <2>2 DEF Sound
    <3>2. CASE podCache[v.buildPod] = "Succeeded"
      BY <2>1, <2>2, <3>2 DEF Sound
    <3>3. CASE Seen(pods[v.buildPod].phase) = "Succeeded"
      <4>1. pods[v.buildPod].phase = "Succeeded" /\ Exists(v.buildPod)
        BY <3>3 DEF Seen, Exists
      <4>2. pods[v.buildPod].gen = v.gen
        BY <2>1, <2>2, <4>1 DEF Sound, current
      <4> QED BY <3>1, <4>1, <4>2 DEF CopiesSound, PodSound
    <3> QED BY <2>2, <3>1, <3>2, <3>3
  <2> QED BY <2>1, <2>2 DEF Sound, Exists, current, imageRef
<1>2. \A p \in PodNames : PodSound(p)'
  BY DEF CopiesSound, PodSound, Exists, imageRef
<1> QED BY <1>1, <1>2 DEF CopiesSound, Dated, Agree

\* A step of the Pods: each keeps generation and image, may go, and is pushed
\* when it says so; no Pod appears.
LEMMA PodStep ==
  ASSUME TypeOK, TypeOK', CopiesSound,
         UNCHANGED <<ci, podCache>>, Copies' = Copies,
         pushed \subseteq pushed',
         \A p \in PodNames : Exists(p)' =>
           /\ Exists(p) /\ pods'[p].gen = pods[p].gen /\ pods'[p].image = pods[p].image
           /\ pods'[p].phase \in {"Pushed", "Succeeded"}
                => <<pods[p].image, pods[p].gen>> \in pushed'
  PROVE  CopiesSound'
<1>1. \A v \in Copies : Sound(v)'
  BY DEF CopiesSound, Sound, Exists, current, imageRef
<1>2. \A p \in PodNames : PodSound(p)'
  BY DEF CopiesSound, PodSound, Exists, imageRef
<1> QED BY <1>1, <1>2 DEF CopiesSound, Dated, Agree

-----------------------------------------------------------------------------
(* Types.                                                                  *)

\* The initial states satisfy the inductive invariant: one copy of the CI, no
\* Pod and nothing pushed.
LEMMA InitIInv == Init => IInv
<1> SUFFICES ASSUME Init PROVE IInv
  OBVIOUS
<1>0. PICK reg \in Registries, rev \in Revisions \cup {None} :
      ci = [rv |-> 1, gen |-> 1, life |-> "new", rev |-> rev, reg |-> reg,
            phase |-> "unset", reason |-> "unset", image |-> None, buildPod |-> None,
            building |-> None, observed |-> 0]
  BY DEF Init
<1>1. ci \in Version
  BY <1>0 DEF Version, Phases, Reasons
<1>2. TypeOK
  <2>1. plan \in Plan
    BY PlansAssumption DEF Init
  <2>2. NoPod \in Pod /\ "absent" \in PodPhases
    BY DEF Pod, NoPod, PodPhases
  <2>3. pods \in [PodNames -> Pod] /\ podCache \in [PodNames -> PodPhases]
    BY <2>2 DEF Init
  <2>4. cd \in [rv: Nat, reg: Registries \cup {None}] /\ cdCache = cd
    BY DEF Init
  <2> QED BY <1>1, <2>1, <2>3, <2>4 DEF Init, TypeOK
<1>3. Copies = {ci}
  BY DEF Init, Copies
<1>4. Dated(ci) /\ Sound(ci) /\ Agree(ci, ci)
  <2>1. ci.gen = 1 /\ ci.observed = 0 /\ ci.phase = "unset" /\ ci.image = None
    BY <1>0
  <2>2. ci.phase # "Succeeded" /\ ci.phase # "Building"
    BY <2>1
  <2>3. Dated(ci) /\ Agree(ci, ci)
    BY <1>1 DEF Dated, Agree, Version
  <2>4. ci.observed <= ci.gen
    <3>1. ci.gen \in Nat /\ ci.observed \in Nat
      BY <1>1 DEF Version
    <3>2. \A m, n \in Nat : m = 1 /\ n = 0 => n <= m
      OBVIOUS
    <3> QED BY <2>1, <3>1, <3>2
  <2> QED BY <2>1, <2>2, <2>3, <2>4 DEF Sound
<1>5. \A p \in PodNames : ~ Exists(p)
  BY DEF Init, Exists, NoPod
<1> QED BY <1>2, <1>3, <1>4, <1>5 DEF IInv, PodSound, Progress, OneActiveBuild, Init

\* A stored version is a version, and so are all that are in flight.
LEMMA StoreTypes ==
  ASSUME TypeOK, NEW v \in Version, Store(v)
  PROVE  /\ ci' \in Version /\ watch' \subseteq Version
         /\ ci'.rv = ci.rv + 1 /\ watch' = watch \cup {ci'}
         /\ ci' = [v EXCEPT !.rv = ci.rv + 1]
  BY DEF Store, TypeOK, Version

\* Steps of the reconciler keep the types; that the copy it works on names a
\* revision and a Pod where it must is part of IInv.
LEMMA ControllerTypes ==
  ASSUME IInv, ControllerStep
  PROVE  TypeOK'
<1> USE DEF IInv, TypeOK
<1>1. \A r \in {"Idle", "InvalidSpec", "RegistryCredentials", "PluginUnavailable",
                 "SecretNotAllowed", "BuildPodLost"} : r \in Reasons
  BY DEF Reasons
<1>2. CASE Reconcile
  <2>1. ASSUME NEW v, Patch(v, "requeue") \/ Patch(v, "done"), v \in Version
        PROVE  my' \in Version /\ pc' = "patchStatus" /\ then' \in {"requeue", "done"}
    BY <2>1 DEF Patch, Goto
  <2>2. setCIPhase(cache, "Idle", "Idle") \in Version
    BY <1>1, StatusFunctions DEF Phases
  <2>3. \A r \in Reasons : RefuseBuild(cache, r) \in Version
    BY StatusFunctions
  <2>4. MissingReason \in Reasons
    BY <1>1 DEF MissingReason
  <2>5. \/ pc' = "idle" /\ my' = None /\ UNCHANGED then
        \/ /\ my' \in Version /\ then' \in {"ensureCD", "requeue", "done"}
           /\ pc' \in {"finalizer", "deleteBuildPods", "followBuild", "ensureCD", "patchStatus"}
    BY <1>1, <1>2, <2>2, <2>3, <2>4 DEF Reconcile, ReadAndDecide, Patch, Goto
  <2> QED BY <1>2, <2>5 DEF Reconcile, api, podVars, cdVars, outside
<1>3. CASE UpdateFinalizer
  <2>1. \A l \in {"live", "gone"} : [ci EXCEPT !.life = l] \in Version
    BY DEF Version
  <2>2. UNCHANGED api \/ (ci' \in Version /\ watch' \subseteq Version)
    BY <1>3, <2>1, StoreTypes DEF UpdateFinalizer
  <2>3. pc' = "idle" /\ my' = None /\ then' = "done" /\ queued' \in BOOLEAN
    BY <1>3 DEF UpdateFinalizer, Return
  <2> QED BY <1>3, <2>2, <2>3 DEF UpdateFinalizer, api, podVars, cdVars, outside
<1>4. CASE deleteBuildPods
  <2>1. pods' \in [PodNames -> Pod]
    BY <1>4 DEF deleteBuildPods, DeleteAllPods, Pod
  <2> QED BY <1>4, <2>1 DEF deleteBuildPods, api, podVars, cdVars, outside
<1>5. CASE CreatePod
  <2> USE <1>5 DEF CreatePod
  <2>1. RefuseBuild(my, "SecretNotAllowed") \in Version /\ PodCreateFailed(my) \in Version
    BY <1>1, StatusFunctions
  <2>2. my.rev \in Revisions /\ my.reg \in Registries /\ my.gen \in Nat
    BY DEF Progress, Version
  <2>3. imageRef(my) \in Images
    BY <2>2 DEF imageRef, Images
  <2>4. [phase |-> "Running", deleting |-> FALSE, image |-> imageRef(my), gen |-> my.gen] \in Pod
    BY <2>2, <2>3 DEF Pod, PodPhases
  <2>5. \A p \in PodNames : StartBuild(my, p) \in Version
    BY StatusFunctions
  <2>6. /\ my' \in Version /\ pc' = "patchStatus" /\ then' \in {"requeue", "done"}
        /\ pods' \in [PodNames -> Pod]
    BY <2>1, <2>4, <2>5 DEF Patch, Goto
  <2> QED BY <2>6 DEF api, podVars, cdVars, outside
<1>6. CASE followBuild
  <2> USE <1>6 DEF followBuild
  <2>1. \A ph \in PodPhases : podResult(my, ph) \in Version
    BY StatusFunctions DEF Progress
  <2>2. podCache[my.buildPod] \in PodPhases
    BY DEF Progress, CopiesSound, Copies, Sound
  <2>3. my' \in Version /\ pc' \in {"patchStatus", "getPod"}
        /\ then' \in {"ensureCD", "requeue", "done"}
    BY <2>1, <2>2 DEF Follow, Patch, Goto
  <2> QED BY <2>3 DEF api, podVars, cdVars, outside
<1>7. CASE GetPodFromAPI
  <2> USE <1>7 DEF GetPodFromAPI
  <2>1. \A ph \in PodPhases : podResult(my, ph) \in Version
    BY StatusFunctions DEF Progress
  <2>2. pods[my.buildPod].phase \in PodPhases
    BY DEF Progress, CopiesSound, Copies, Sound, Pod
  <2>3. my' \in Version /\ pc' \in {"patchStatus", "getCI"}
        /\ then' \in {"ensureCD", "requeue", "done"}
    BY <2>1, <2>2 DEF Follow, Patch, Goto
  <2> QED BY <2>3 DEF api, podVars, cdVars, outside
<1>8. CASE LostPod
  <2>1. markCIFailed(my, "BuildPodLost") \in Version
    BY <1>1, <1>8, StatusFunctions DEF LostPod
  <2>2. \/ my' \in Version /\ pc' = "patchStatus" /\ then' = "done" /\ UNCHANGED queued
        \/ my' = None /\ pc' = "idle" /\ then' = "done" /\ queued' \in BOOLEAN
    BY <1>8, <2>1 DEF LostPod, Patch, Goto, Return
  <2> QED BY <1>8, <2>2 DEF LostPod, api, podVars, cdVars, outside
<1>9. CASE patchStatus
  <2> USE <1>9 DEF patchStatus
  <2>1. my \in Version
    OBVIOUS
  <2>2. UNCHANGED api \/ (ci' \in Version /\ watch' \subseteq Version)
    BY <2>1, StoreTypes
  <2>3. \/ my' = my /\ pc' = "ensureCD" /\ UNCHANGED <<then, queued>>
        \/ my' = None /\ pc' = "idle" /\ then' = "done" /\ queued' \in BOOLEAN
    BY DEF Goto, Return
  <2> QED BY <2>1, <2>2, <2>3 DEF api, podVars, cdVars, outside
<1>10. CASE ensureCD
  <2>1. my.reg \in Registries
    BY <1>10 DEF ensureCD, Version
  <2>2. cd' \in [rv: Nat, reg: Registries \cup {None}]
    <3>1. cd \in [rv: Nat, reg: Registries \cup {None}]
      OBVIOUS
    <3>2. cd' = cd \/ cd' = [rv |-> cd.rv + 1, reg |-> my.reg]
      BY <1>10 DEF ensureCD, StoreCD
    <3>3. CASE cd' = cd
      BY <3>1, <3>3
    <3>4. CASE cd' = [rv |-> cd.rv + 1, reg |-> my.reg]
      BY <3>1, <3>4, <2>1
    <3> QED BY <3>2, <3>3, <3>4
  <2>3. my' = None /\ pc' = "idle" /\ then' = "done" /\ queued' \in BOOLEAN
    BY <1>10 DEF ensureCD, Return
  <2> QED BY <1>10, <2>2, <2>3 DEF ensureCD, api, podVars, outside
<1> QED BY <1>2, <1>3, <1>4, <1>5, <1>6, <1>7, <1>8, <1>9, <1>10 DEF ControllerStep

\* The steps that are not the reconciler's.
OtherStep ==
  \/ CacheSync \/ CDCacheSync
  \/ \E p \in PodNames : PodCacheSync(p) \/ PodProgress(p)
  \/ World

\* Removing the CD keeps its type.
LEMMA NoCDType ==
  ASSUME TypeOK, StoreCD(None)
  PROVE  cd' \in [rv: Nat, reg: Registries \cup {None}]
<1>1. cd \in [rv: Nat, reg: Registries \cup {None}]
  BY DEF TypeOK
<1> QED BY <1>1 DEF StoreCD

\* A fault leaves a plan.
LEMMA FaultType ==
  ASSUME NEW kind, plan \in Plan, Fault(kind)
  PROVE  plan' \in Plan
BY DEF Fault, Plan

\* A phase a Pod has is a phase the Pod cache can show.
LEMMA SeenType == ASSUME TypeOK PROVE \A p \in PodNames : Seen(pods[p].phase) \in PodPhases
  BY DEF TypeOK, Pod, PodPhases, Seen

\* Caches, Pods and the world keep the types.
LEMMA OtherTypes ==
  ASSUME IInv, OtherStep
  PROVE  TypeOK'
<1>0. TypeOK
  BY DEF IInv
<1>1. CASE CacheSync
  BY <1>0, <1>1 DEF CacheSync, TypeOK, podVars, cdVars, outside
<1>2. CASE CDCacheSync
  BY <1>0, <1>2 DEF CDCacheSync, TypeOK, api, podVars, outside
<1>3. ASSUME NEW p \in PodNames, PodCacheSync(p) PROVE TypeOK'
  <2>1. podCache' \in [PodNames -> PodPhases]
    BY <1>0, <1>3, SeenType DEF PodCacheSync, TypeOK
  <2> QED BY <1>0, <1>3, <2>1 DEF PodCacheSync, TypeOK, api, cdVars, outside
<1>4. ASSUME NEW p \in PodNames, PodProgress(p) PROVE TypeOK'
  <2> USE <1>0, <1>4 DEF PodProgress, PodPushes, PodSucceeds, PodFails, PodRemoved, PodTurns
  <2>1. NoPod \in Pod
    BY DEF NoPod, Pod, PodPhases
  <2>2. \A ph \in PodPhases : [pods[p] EXCEPT !.phase = ph] \in Pod
    BY DEF TypeOK, Pod
  <2>3. pods' \in [PodNames -> Pod]
    BY <2>1, <2>2 DEF TypeOK, PodPhases
  <2>4. pushed' \subseteq Images \X Nat
    <3>1. CASE PodPushes(p)
      <4>1. pods[p].image \in Images /\ pods[p].gen \in Nat
        BY <3>1 DEF IInv, PodSound, Exists, TypeOK, Pod
      <4> QED BY <3>1, <4>1 DEF TypeOK
    <3>2. CASE UNCHANGED pushed
      BY <3>2 DEF TypeOK
    <3> QED BY <3>1, <3>2
  <2> QED BY <2>3, <2>4 DEF TypeOK, api, cdVars, outside
<1>5. CASE EditSpec
  <2>1. PICK rev \in Revisions, reg \in Registries :
          Store([ci EXCEPT !.gen = ci.gen + 1, !.rev = rev, !.reg = reg])
    BY <1>5 DEF EditSpec
  <2>2. [ci EXCEPT !.gen = ci.gen + 1, !.rev = rev, !.reg = reg] \in Version
    <3>1. ci \in Version /\ ci.gen + 1 \in Nat
      BY <1>0 DEF TypeOK, Version
    <3>2. \A n \in Nat : [ci EXCEPT !.gen = n, !.rev = rev, !.reg = reg] \in Version
      BY <3>1 DEF Version
    <3> QED BY <3>1, <3>2
  <2>3. ci' \in Version /\ watch' \subseteq Version
    BY <1>0, <2>1, <2>2, StoreTypes
  <2> QED BY <1>0, <1>5, <2>3 DEF EditSpec, TypeOK, podVars, cdVars, outside
<1>6. CASE DeleteCI
  <2>1. [ci EXCEPT !.life = "deleting"] \in Version
    BY <1>0 DEF TypeOK, Version
  <2>2. ci' \in Version /\ watch' \subseteq Version
    BY <1>0, <1>6, <2>1, StoreTypes DEF DeleteCI
  <2>3. plan' \in Plan
    BY <1>0, <1>6, FaultType DEF DeleteCI, TypeOK
  <2> QED BY <1>0, <1>6, <2>2, <2>3 DEF DeleteCI, TypeOK, podVars, cdVars
<1>7. CASE GarbageCollect
  <2>1. pods' \in [PodNames -> Pod]
    BY <1>0, <1>7 DEF GarbageCollect, DeleteAllPods, TypeOK, Pod
  <2>2. cd' \in [rv: Nat, reg: Registries \cup {None}]
    BY <1>0, <1>7, NoCDType DEF GarbageCollect, TypeOK
  <2> QED BY <1>0, <1>7, <2>1, <2>2 DEF GarbageCollect, TypeOK, api, outside
<1>8. CASE DeleteCD
  <2>1. cd' \in [rv: Nat, reg: Registries \cup {None}]
    BY <1>0, <1>8, NoCDType DEF DeleteCD
  <2>2. plan' \in Plan
    BY <1>0, <1>8, FaultType DEF DeleteCD, TypeOK
  <2> QED BY <1>0, <1>8, <2>1, <2>2 DEF DeleteCD, TypeOK, api, podVars
<1>9. CASE ApiError
  <2>1. plan' \in Plan /\ queued' \in BOOLEAN
    BY <1>0, <1>9, FaultType DEF ApiError, Return, TypeOK
  <2> QED BY <1>0, <1>9, <2>1 DEF ApiError, Return, TypeOK, api, podVars, cdVars
<1>10. CASE Crash
  <2>1. podCache' \in [PodNames -> PodPhases]
    BY <1>0, <1>10, SeenType DEF Crash
  <2>2. plan' \in Plan
    BY <1>0, <1>10, FaultType DEF Crash, TypeOK
  <2> QED BY <1>0, <1>10, <2>1, <2>2 DEF Crash, TypeOK
<1>11. ASSUME NEW need \in Needs, Break(need) \/ Repair(need) PROVE TypeOK'
  <2>1. plan' \in Plan /\ ready' \subseteq Needs
    BY <1>0, <1>11, FaultType DEF Break, Repair, TypeOK
  <2> QED BY <1>0, <1>11, <2>1 DEF Break, Repair, TypeOK, api, podVars, cdVars
<1>12. ASSUME NEW p \in PodNames, Evict(p) PROVE TypeOK'
  <2>1. pods' \in [PodNames -> Pod]
    BY <1>0, <1>12 DEF Evict, TypeOK, Pod
  <2>2. plan' \in Plan
    BY <1>0, <1>12, FaultType DEF Evict, TypeOK
  <2> QED BY <1>0, <1>12, <2>1, <2>2 DEF Evict, TypeOK, api, cdVars
<1> QED BY <1>1, <1>2, <1>3, <1>4, <1>5, <1>6, <1>7, <1>8, <1>9, <1>10, <1>11, <1>12
        DEF OtherStep, World

-----------------------------------------------------------------------------
(* The inductive step.                                                     *)

\* The copies of the CI stay sound through every step of the reconciler.
LEMMA ControllerCopies ==
  ASSUME IInv, ControllerStep
  PROVE  CopiesSound'
<1>0. TypeOK /\ CopiesSound /\ TypeOK'
  BY ControllerTypes DEF IInv, CopiesSound
<1>1. \A r \in {"InvalidSpec", "RegistryCredentials", "PluginUnavailable",
                 "SecretNotAllowed", "BuildPodLost", "BuildFailed"} : r \in Reasons
  BY DEF Reasons
<1>2. cache \in Copies /\ Sound(cache) /\ cache \in Version /\ SameSpec(cache, cache)
  BY <1>0 DEF CopiesSound, Copies, TypeOK, SameSpec
<1>3. pc # "idle" => my \in Copies /\ Sound(my) /\ my \in Version /\ SameSpec(my, my)
  BY <1>0 DEF CopiesSound, Copies, TypeOK, SameSpec
<1>4. CASE Reconcile
  <2>1. Sound(setCIPhase(cache, "Idle", "Idle")) /\ SameSpec(setCIPhase(cache, "Idle", "Idle"), cache)
    BY <1>2, StatusSound, StatusFunctions DEF Phases, Reasons
  <2>2. \A r \in Reasons : Sound(RefuseBuild(cache, r)) /\ SameSpec(RefuseBuild(cache, r), cache)
    BY <1>2, StatusSound, StatusFunctions
  <2>3. MissingReason \in Reasons
    BY <1>1 DEF MissingReason
  <2>4. pc' # "idle" => my' \in {cache, setCIPhase(cache, "Idle", "Idle"),
                                 RefuseBuild(cache, "InvalidSpec"), RefuseBuild(cache, MissingReason)}
    BY <1>4 DEF Reconcile, ReadAndDecide, Patch, Goto
  <2>5. pc' # "idle" => Sound(my')
    BY <1>1, <1>2, <2>1, <2>2, <2>3, <2>4
  <2>6. pc' # "idle" => SameSpec(my', cache)
    BY <1>1, <1>2, <2>1, <2>2, <2>3, <2>4
  <2> QED BY <1>0, <1>2, <1>4, <2>5, <2>6, LocalStep DEF Reconcile, api, podVars
<1>5. CASE UpdateFinalizer
  <2>1. pc' = "idle"
    BY <1>5 DEF UpdateFinalizer, Return
  <2>2. CASE UNCHANGED api
    BY <1>0, <1>5, <2>1, <2>2, LocalStep DEF UpdateFinalizer, api, podVars
  <2>3. ASSUME NEW l \in {"live", "gone"}, Store([ci EXCEPT !.life = l]) PROVE CopiesSound'
    <3>1. ci \in Version /\ Sound(ci) /\ [ci EXCEPT !.life = l] \in Version
      BY <1>0 DEF CopiesSound, Copies, TypeOK, Version
    <3>2. ci' = [[ci EXCEPT !.life = l] EXCEPT !.rv = ci.rv + 1]
          /\ watch' = watch \cup {ci'} /\ ci'.rv = ci.rv + 1
      BY <1>0, <2>3, <3>1, StoreTypes
    <3>3. ci'.gen = ci.gen /\ ci'.rev = ci.rev /\ ci'.reg = ci.reg
      BY <3>1, <3>2 DEF Version
    <3>4. Sound(ci')
      BY <3>1, <3>2, SoundMetadata
    <3> QED BY <1>0, <1>5, <2>1, <3>2, <3>3, <3>4, StoreStep DEF UpdateFinalizer, podVars
  <2> QED BY <1>5, <2>2, <2>3 DEF UpdateFinalizer
<1>6. CASE deleteBuildPods
  <2>1. Copies' = Copies
    BY <1>6 DEF deleteBuildPods, Copies, api
  <2>2. \A p \in PodNames : Exists(p)' =>
           /\ Exists(p) /\ pods'[p].gen = pods[p].gen /\ pods'[p].image = pods[p].image
           /\ pods'[p].phase = pods[p].phase
    BY <1>0, <1>6 DEF deleteBuildPods, DeleteAllPods, Exists, TypeOK, Pod
  <2>3. \A p \in PodNames : Exists(p) /\ pods[p].phase \in {"Pushed", "Succeeded"}
           => <<pods[p].image, pods[p].gen>> \in pushed
    BY <1>0 DEF CopiesSound, PodSound
  <2> QED BY <1>0, <1>6, <2>1, <2>2, <2>3, PodStep DEF deleteBuildPods, api
<1>7. CASE CreatePod
  <2> USE <1>7 DEF CreatePod
  <2>1. CASE UNCHANGED pods /\ my' \in {RefuseBuild(my, "SecretNotAllowed"), PodCreateFailed(my)}
    <3>1. Sound(my') /\ SameSpec(my', my)
      BY <1>1, <1>3, <2>1, StatusSound, StatusFunctions
    <3> QED BY <1>0, <1>3, <2>1, <3>1, LocalStep DEF api
  <2>2. ASSUME NEW p \in PodNames, Fresh(p),
               pods' = [pods EXCEPT ![p] = [phase |-> "Running", deleting |-> FALSE,
                                            image |-> imageRef(my), gen |-> my.gen]],
               Patch(StartBuild(my, p), "requeue")
        PROVE  CopiesSound'
    <3>1. /\ my \in Copies /\ my \in Version /\ my.rev # None
          /\ my' = StartBuild(my, p) /\ SameSpec(my', my) /\ my' \in Version
      BY <1>3, <2>2, StatusFunctions DEF Patch, Goto, IInv, Progress
    <3>2. \A v \in Copies' : v = my' \/ v \in watch \cup {ci, cache}
      BY DEF Copies, api
    <3>3. \A v \in Copies' : \E w \in Copies : SameSpec(v, w)
      BY <3>1, <3>2 DEF Copies, SameSpec
    <3>4. \A v \in Copies' : Dated(v)'
      BY <1>0, <3>3 DEF CopiesSound, Dated, SameSpec, api
    <3>5. \A v, w \in Copies' : Agree(v, w)
      BY <1>0, <3>3 DEF CopiesSound, Agree, SameSpec
    <3>6. /\ pods'[p].gen = my.gen /\ pods'[p].image = imageRef(my) /\ pods'[p].phase = "Running"
          /\ \A q \in PodNames : q # p => pods'[q] = pods[q]
      BY <1>0, <2>2 DEF TypeOK
    <3>7. \A v \in watch \cup {ci, cache} : v \in Copies /\ v.buildPod # p
      BY <2>2 DEF Fresh, Mentioned, Copies
    <3>8. \A v \in watch \cup {ci, cache} : Sound(v)'
      BY <1>0, <3>6, <3>7 DEF CopiesSound, Sound, Exists, current, imageRef
    <3>9. Sound(my)'
      <4>1. /\ my'.phase = "Building" /\ my'.buildPod = p /\ my'.image = my.image
            /\ my'.observed = my.gen /\ my'.building = my.rev /\ my'.gen = my.gen
            /\ my.gen \in Nat
        BY <3>1 DEF StartBuild, setCIPhase, Version
      <4>2. podCache'[p] = "absent"
        BY <2>2 DEF Fresh
      <4>3. my.image # None => \E x \in pushed : x[1] = my.image
        BY <1>3 DEF Sound
      <4>4. imageRef(my)[2] = my.rev
        BY DEF imageRef
      <4>5. my'.observed <= my'.gen
        BY <4>1
      <4> QED BY <4>1, <4>2, <4>3, <4>4, <4>5, <3>6, <2>2 DEF Sound
    <3>10. \A q \in PodNames : PodSound(q)'
      <4>1. PodSound(p)'
        <5>1. my.gen <= ci.gen
          BY <1>0, <3>1 DEF CopiesSound, Dated
        <5>2. imageRef(my) \in Images
          BY <3>1 DEF imageRef, Images, Version
        <5>3. \A v \in Copies' : v.gen = my.gen => imageRef(my) = imageRef(v)
          BY <1>0, <3>1, <3>3 DEF CopiesSound, Agree, SameSpec, imageRef
        <5> QED BY <3>6, <5>1, <5>2, <5>3 DEF PodSound, api, imageRef
      <4>2. ASSUME NEW q \in PodNames, q # p PROVE PodSound(q)'
        BY <1>0, <3>3, <3>6, <4>2 DEF CopiesSound, PodSound, Exists, SameSpec, imageRef, api
      <4> QED BY <4>1, <4>2
    <3> QED BY <3>2, <3>4, <3>5, <3>8, <3>9, <3>10 DEF CopiesSound, Agree
  <2> QED BY <2>1, <2>2 DEF Patch, Goto
<1>8. CASE followBuild
  <2> USE <1>8 DEF followBuild
  <2>1. my.phase = "Building" /\ current(my) /\ my.rev # None /\ my.buildPod \in PodNames
    BY <1>3 DEF IInv, Progress, Sound
  <2>2. podCache[my.buildPod] \in PodPhases
    BY <1>0, <2>1 DEF TypeOK
  <2>3. Sound(podResult(my, podCache[my.buildPod]))
    BY <1>3, <2>1, <2>2, FollowSound DEF Sound
  <2>4. SameSpec(podResult(my, podCache[my.buildPod]), my)
    BY <1>3, <2>1, <2>2, StatusFunctions
  <2>5. Sound(my') /\ SameSpec(my', my)
    BY <1>3, <2>3, <2>4 DEF Follow, Patch, Goto
  <2> QED BY <1>0, <1>3, <2>5, LocalStep DEF api, podVars
<1>9. CASE GetPodFromAPI
  <2> USE <1>9 DEF GetPodFromAPI
  <2>1. my.phase = "Building" /\ current(my) /\ my.rev # None /\ my.buildPod \in PodNames
    BY <1>3 DEF IInv, Progress, Sound
  <2>2. pods[my.buildPod].phase \in PodPhases
    BY <1>0, <2>1 DEF TypeOK, Pod
  <2>3. pods[my.buildPod].phase = "Succeeded" => <<imageRef(my), my.gen>> \in pushed
    <3>1. SUFFICES ASSUME pods[my.buildPod].phase = "Succeeded"
                   PROVE  <<imageRef(my), my.gen>> \in pushed
      OBVIOUS
    <3>2. Exists(my.buildPod)
      BY <3>1 DEF Exists
    <3>3. pods[my.buildPod].gen = my.gen
      BY <1>3, <2>1, <3>2 DEF Sound, current
    <3>4. pods[my.buildPod].image = imageRef(my)
      BY <1>0, <1>3, <2>1, <3>2, <3>3 DEF CopiesSound, PodSound
    <3> QED BY <1>0, <2>1, <3>1, <3>2, <3>3, <3>4 DEF CopiesSound, PodSound
  <2>4. Sound(podResult(my, pods[my.buildPod].phase))
    BY <1>3, <2>1, <2>2, <2>3, FollowSound
  <2>5. SameSpec(podResult(my, pods[my.buildPod].phase), my)
    BY <1>3, <2>1, <2>2, StatusFunctions
  <2>6. Sound(my') /\ SameSpec(my', my)
    BY <1>3, <2>4, <2>5 DEF Follow, Patch, Goto
  <2> QED BY <1>0, <1>3, <2>6, LocalStep DEF api, podVars
<1>10. CASE LostPod
  <2>1. Sound(markCIFailed(my, "BuildPodLost")) /\ SameSpec(markCIFailed(my, "BuildPodLost"), my)
    BY <1>1, <1>3, <1>10, StatusSound, StatusFunctions DEF LostPod
  <2>2. pc' # "idle" => Sound(my') /\ SameSpec(my', my) /\ my \in Copies
    BY <1>3, <1>10, <2>1 DEF LostPod, Patch, Goto, Return
  <2> QED BY <1>0, <1>10, <2>2, LocalStep DEF LostPod, api, podVars
<1>11. CASE patchStatus
  <2> USE <1>11 DEF patchStatus
  <2>1. pc' # "idle" => my' = my
    BY DEF Goto, Return
  <2>2. CASE UNCHANGED api
    BY <1>0, <1>3, <2>1, <2>2, LocalStep DEF api, podVars
  <2>3. CASE LockHolds /\ Store(my)
    <3>1. ci' = [my EXCEPT !.rv = ci.rv + 1] /\ watch' = watch \cup {ci'} /\ ci'.rv = ci.rv + 1
      BY <1>0, <1>3, <2>3, StoreTypes
    <3>2. Sound(ci')
      BY <1>3, <3>1, SoundMetadata
    <3>3. my.gen = ci.gen /\ my.rev = ci.rev /\ my.reg = ci.reg
      BY <1>0, <1>3, <2>3 DEF LockHolds, CopiesSound, Dated, Agree, Copies
    <3>4. ci'.gen = ci.gen /\ ci'.rev = ci.rev /\ ci'.reg = ci.reg
      BY <1>3, <3>1, <3>3 DEF Version
    <3> QED BY <1>0, <2>1, <3>1, <3>2, <3>4, StoreStep DEF podVars
  <2> QED BY <2>2, <2>3
<1>12. CASE ensureCD
  BY <1>0, <1>12, LocalStep DEF ensureCD, Return, api, podVars
<1> QED BY <1>4, <1>5, <1>6, <1>7, <1>8, <1>9, <1>10, <1>11, <1>12 DEF ControllerStep

\* The copies of the CI stay sound through every other step.
LEMMA OtherCopies ==
  ASSUME IInv, OtherStep
  PROVE  CopiesSound'
<1>0. TypeOK /\ CopiesSound /\ TypeOK'
  BY OtherTypes DEF IInv, CopiesSound
<1>1. ci \in Version /\ Sound(ci)
  BY <1>0 DEF CopiesSound, Copies, TypeOK
<1>2. pc # "idle" => my \in Copies /\ Sound(my) /\ SameSpec(my, my)
  BY <1>0 DEF CopiesSound, Copies, TypeOK, SameSpec
<1>3. \A p \in PodNames : Exists(p) /\ pods[p].phase \in {"Pushed", "Succeeded"}
         => <<pods[p].image, pods[p].gen>> \in pushed
  BY <1>0 DEF CopiesSound, PodSound
<1>4. CASE CacheSync
  <2>1. Copies' \subseteq Copies
    BY <1>4 DEF CacheSync, Copies
  <2> QED BY <1>0, <1>4, <2>1, ForgetStep DEF CacheSync, podVars
<1>5. CASE CDCacheSync \/ DeleteCD \/ ApiError \/ \E need \in Needs : Break(need) \/ Repair(need)
  <2>1. pc' # "idle" => my' = my /\ pc # "idle"
    BY <1>5 DEF CDCacheSync, DeleteCD, ApiError, Break, Repair, Return
  <2>2. UNCHANGED <<ci, watch, cache, pods, podCache, pushed>>
    BY <1>5 DEF CDCacheSync, DeleteCD, ApiError, Break, Repair, api, podVars
  <2> QED BY <1>0, <1>2, <2>1, <2>2, LocalStep
<1>6. ASSUME NEW p \in PodNames, PodCacheSync(p) PROVE CopiesSound'
  BY <1>0, <1>6, PodCacheStep DEF PodCacheSync, Copies, api, TypeOK
<1>7. ASSUME NEW p \in PodNames, PodProgress(p) PROVE CopiesSound'
  <2> USE <1>7 DEF PodProgress, PodPushes, PodSucceeds, PodFails, PodRemoved, PodTurns
  <2>1. Copies' = Copies /\ pushed \subseteq pushed'
    BY DEF Copies, api
  <2>2. ASSUME NEW q \in PodNames, Exists(q)'
        PROVE  /\ Exists(q) /\ pods'[q].gen = pods[q].gen /\ pods'[q].image = pods[q].image
               /\ pods'[q].phase \in {"Pushed", "Succeeded"}
                    => <<pods[q].image, pods[q].gen>> \in pushed'
    BY <1>0, <1>3, <2>2 DEF Exists, TypeOK, Pod, NoPod
  <2> QED BY <1>0, <2>1, <2>2, PodStep DEF api
<1>8. CASE EditSpec
  <2>1. PICK rev \in Revisions, reg \in Registries :
          Store([ci EXCEPT !.gen = ci.gen + 1, !.rev = rev, !.reg = reg])
    BY <1>8 DEF EditSpec
  <2>2. ci' = [ci EXCEPT !.gen = ci.gen + 1, !.rev = rev, !.reg = reg, !.rv = ci.rv + 1]
        /\ watch' = watch \cup {ci'}
    BY <2>1 DEF Store
  <2>3. Sound(ci')
    BY <1>1, <2>2, SoundMetadata
  <2>4. ci'.gen = ci.gen + 1 /\ ci'.rv = ci.rv + 1
    BY <1>1, <2>2 DEF Version
  <2> QED BY <1>0, <1>8, <2>2, <2>3, <2>4, StoreStep DEF EditSpec, podVars
<1>9. CASE DeleteCI
  <2>1. ci' = [ci EXCEPT !.life = "deleting", !.rv = ci.rv + 1] /\ watch' = watch \cup {ci'}
    BY <1>9 DEF DeleteCI, Store
  <2>2. Sound(ci')
    BY <1>1, <2>1, SoundMetadata
  <2>3. ci'.gen = ci.gen /\ ci'.rev = ci.rev /\ ci'.reg = ci.reg /\ ci'.rv = ci.rv + 1
    BY <1>1, <2>1 DEF Version
  <2> QED BY <1>0, <1>9, <2>1, <2>2, <2>3, StoreStep DEF DeleteCI, podVars
<1>10. CASE GarbageCollect \/ \E p \in PodNames : Evict(p)
  <2>1. Copies' = Copies
    BY <1>10 DEF GarbageCollect, Evict, Copies, api
  <2>2. \A q \in PodNames : Exists(q)' =>
           /\ Exists(q) /\ pods'[q].gen = pods[q].gen /\ pods'[q].image = pods[q].image
           /\ pods'[q].phase = pods[q].phase
    BY <1>0, <1>10 DEF GarbageCollect, DeleteAllPods, Evict, Exists, TypeOK, Pod
  <2> QED BY <1>0, <1>3, <1>10, <2>1, <2>2, PodStep DEF GarbageCollect, Evict, api
<1>11. CASE Crash
  <2>1. Copies' \subseteq Copies
    BY <1>11 DEF Crash, Copies
  <2> QED BY <1>0, <1>11, <2>1, PodCacheStep, SeenType DEF Crash, TypeOK
<1> QED BY <1>4, <1>5, <1>6, <1>7, <1>8, <1>9, <1>10, <1>11 DEF OtherStep, World

\* What the reconciler knows at each API call, and that it never has two
\* builds going: no one else creates a Pod or touches its copy of the CI.
LEMMA ProgressStep ==
  ASSUME IInv, Next
  PROVE  Progress' /\ OneActiveBuild'
<1>0. TypeOK /\ CopiesSound /\ Progress /\ OneActiveBuild
  BY DEF IInv, CopiesSound
<1>1. CASE Reconcile
  <2>1. pc' # "createPod" /\ UNCHANGED pods
    BY <1>1 DEF Reconcile, ReadAndDecide, Patch, Goto, podVars
  <2>2. pc' = "followBuild" => current(cache) /\ cache.phase = "Building" /\ cache.rev # None
                               /\ my' = cache
    BY <1>1 DEF Reconcile, ReadAndDecide, Patch, Goto
  <2>3. pc' = "deleteBuildPods" => cache.rev # None /\ my' = cache
    BY <1>1 DEF Reconcile, ReadAndDecide, Patch, Goto
  <2>4. pc' # "getPod"
    BY <1>1 DEF Reconcile, ReadAndDecide, Patch, Goto
  <2>5. Progress'
    BY <2>1, <2>2, <2>3, <2>4 DEF Progress, current
  <2> QED BY <1>0, <2>1, <2>5 DEF OneActiveBuild, Exists
<1>2. CASE deleteBuildPods
  <2>1. \A p \in PodNames : Exists(p)' => pods'[p].deleting
    BY <1>0, <1>2 DEF deleteBuildPods, DeleteAllPods, Exists, TypeOK, Pod
  <2>2. pc' = "createPod" /\ my' = my /\ my.rev # None
    BY <1>0, <1>2 DEF deleteBuildPods, Progress
  <2> QED BY <2>1, <2>2 DEF Progress, OneActiveBuild, Exists
<1>3. CASE CreatePod
  <2>1. pc' = "patchStatus"
    BY <1>3 DEF CreatePod, Patch, Goto
  <2>2. \A p \in PodNames : Exists(p) => pods[p].deleting
    BY <1>0, <1>3 DEF CreatePod, Progress
  <2>3. pods' = pods \/ \E p \in PodNames : \A q \in PodNames : q # p => pods'[q] = pods[q]
    BY <1>0, <1>3 DEF CreatePod, TypeOK
  <2> QED BY <2>1, <2>2, <2>3 DEF Progress, OneActiveBuild, Exists
<1>4. CASE followBuild \/ GetPodFromAPI
  <2>1. pc' \in {"patchStatus", "getCI"} \/ (pc = "followBuild" /\ pc' = "getPod" /\ my' = my)
    BY <1>4 DEF followBuild, GetPodFromAPI, Follow, Patch, Goto
  <2>2. UNCHANGED pods
    BY <1>4 DEF followBuild, GetPodFromAPI, podVars
  <2> QED BY <1>0, <2>1, <2>2 DEF Progress, OneActiveBuild, Exists, current
<1>5. CASE UpdateFinalizer \/ LostPod \/ patchStatus \/ ensureCD \/ ApiError \/ Crash
  <2>1. pc' \in {"idle", "patchStatus", "ensureCD"}
    BY <1>5 DEF UpdateFinalizer, LostPod, patchStatus, ensureCD, ApiError, Crash, Return,
                Patch, Goto
  <2>2. UNCHANGED pods
    BY <1>5 DEF UpdateFinalizer, LostPod, patchStatus, ensureCD, ApiError, Crash, podVars
  <2> QED BY <1>0, <2>1, <2>2 DEF Progress, OneActiveBuild, Exists
<1>6. CASE CacheSync \/ CDCacheSync \/ EditSpec \/ DeleteCI \/ DeleteCD
           \/ (\E need \in Needs : Break(need) \/ Repair(need))
           \/ (\E p \in PodNames : PodCacheSync(p))
  <2>1. UNCHANGED <<pc, my, pods>>
    BY <1>6 DEF CacheSync, CDCacheSync, EditSpec, DeleteCI, DeleteCD, Break, Repair,
                PodCacheSync, podVars
  <2> QED BY <1>0, <2>1 DEF Progress, OneActiveBuild, Exists, current
<1>7. CASE GarbageCollect \/ \E p \in PodNames : Evict(p) \/ PodProgress(p)
  <2>1. UNCHANGED <<pc, my>>
    BY <1>7 DEF GarbageCollect, Evict, PodProgress, PodPushes, PodSucceeds, PodFails,
                PodRemoved, PodTurns
  <2>2. ASSUME NEW q \in PodNames, Exists(q)'
        PROVE  Exists(q) /\ (pods[q].deleting => pods'[q].deleting)
    <3>1. CASE GarbageCollect
      BY <1>0, <2>2, <3>1 DEF GarbageCollect, DeleteAllPods, Exists, TypeOK, Pod
    <3>2. ASSUME NEW p \in PodNames, Evict(p) \/ PodProgress(p)
          PROVE  Exists(q) /\ (pods[q].deleting => pods'[q].deleting)
      BY <1>0, <2>2, <3>2 DEF Evict, PodProgress, PodPushes, PodSucceeds, PodFails,
                PodRemoved, PodTurns, Exists, TypeOK, Pod, NoPod
    <3> QED BY <1>7, <3>1, <3>2
  <2> QED BY <1>0, <2>1, <2>2 DEF Progress, OneActiveBuild, current
<1> QED BY <1>1, <1>2, <1>3, <1>4, <1>5, <1>6, <1>7 DEF Next, ControllerStep, World

\* IInv is inductive.
THEOREM Inductive == Spec => []IInv
<1>1. IInv /\ [Next]_vars => IInv'
  <2>1. ASSUME IInv, Next PROVE IInv'
    <3>1. ControllerStep \/ OtherStep
      BY <2>1 DEF Next, OtherStep
    <3>2. TypeOK' /\ CopiesSound'
      BY <2>1, <3>1, ControllerTypes, OtherTypes, ControllerCopies, OtherCopies
    <3> QED BY <2>1, <3>2, ProgressStep DEF IInv, CopiesSound
  <2>2. ASSUME IInv, UNCHANGED vars PROVE IInv'
    <3>1. Copies' = Copies /\ TypeOK'
      BY <2>2 DEF IInv, vars, TypeOK, Copies
    <3>2. \A v \in Copies : Dated(v)'
      BY <2>2 DEF IInv, vars, Dated
    <3>3. \A v \in Copies : Sound(v)'
      BY <2>2 DEF IInv, vars, Sound, Exists, current, imageRef
    <3>4. \A p \in PodNames : PodSound(p)'
      BY <2>2, <3>1 DEF IInv, vars, PodSound, Exists, imageRef
    <3>5. Progress' /\ OneActiveBuild'
      BY <2>2 DEF IInv, vars, Progress, OneActiveBuild, Exists, current
    <3> QED BY <2>2, <3>1, <3>2, <3>3, <3>4, <3>5 DEF IInv, Agree
  <2> QED BY <2>1, <2>2
<1> QED BY <1>1, InitIInv, PTL DEF Spec

\* Every variable keeps its type, whatever the constants and the bounds.
THEOREM TypeCorrect == Spec => []TypeOK
<1>1. IInv => TypeOK
  BY DEF IInv
<1> QED BY <1>1, Inductive, PTL

\* A CI that says Succeeded names an image pushed by a build Pod of exactly
\* the generation it has observed (followBuild, patchStatus).
THEOREM ImageTheorem == Spec => []SucceededMeansPushed
<1>1. IInv => SucceededMeansPushed
  BY DEF IInv, Copies, Sound, SucceededMeansPushed
<1> QED BY <1>1, Inductive, PTL

\* There are never two build Pods that are both meant to run
\* (deleteBuildPods before every Create).
THEOREM OneBuildTheorem == Spec => []OneActiveBuild
<1>1. IInv => OneActiveBuild
  BY DEF IInv
<1> QED BY <1>1, Inductive, PTL

\* A CI in phase Building follows a Pod of the generation and revision it
\* says it is building (the optimistic lock of patchStatus).
THEOREM FollowTheorem == Spec => []BuildingFollowsItsPod
<1>1. IInv => BuildingFollowsItsPod
  BY NoneAssumption DEF IInv, Copies, Sound, BuildingFollowsItsPod
<1> QED BY <1>1, Inductive, PTL

-----------------------------------------------------------------------------
(* The outcome of a build is final.                                        *)

\* An outcome that only a new generation may take back, and a status that does
\* not take it back.
Settled(v) == Finished(v) /\ v.reason # "PodCreateFailed"
Carries(w, v) ==
  \/ w.phase = v.phase /\ w.image = v.image
  \/ w.reason \in {"Idle", "InvalidSpec"}

\* A cached copy with the resource version of the CI is the CI itself.
Same == \A v \in watch \cup {cache} : v.rv = ci.rv => v = ci

\* A reconcile that read the settled CI has nothing but a harmless status to
\* write; any other one that is about to write a status read an older version.
Harmless ==
  pc \notin {"idle", "finalizer", "ensureCD"} /\ my.rv = ci.rv /\ Settled(ci) =>
    pc = "patchStatus" /\ Carries(my, ci)

Final == Same /\ Harmless

\* The steps that neither write the CI nor touch its copies.
LEMMA SameKept ==
  ASSUME Same, ci' = ci, watch' \cup {cache'} \subseteq watch \cup {ci, cache}
  PROVE  Same'
BY DEF Same

\* A reconcile that has not read the settled CI has not read it a call later.
LEMMA HarmlessKept ==
  ASSUME Harmless, ci' = ci,
         \/ pc' \in {"idle", "finalizer", "ensureCD"}
         \/ pc' = pc /\ my' = my
         \/ pc \notin {"idle", "finalizer", "ensureCD", "patchStatus"} /\ my'.rv = my.rv
  PROVE  Harmless'
BY DEF Harmless, Settled, Finished, current, Carries

\* The reconciler takes the cached copy: if that is the settled CI, it leaves the
\* outcome alone or says why there is none.
LEMMA ReadFinal == ASSUME IInv, Final, Reconcile PROVE Final'
<1>1. UNCHANGED <<ci, watch, cache>> /\ cache \in Version /\ ReadAndDecide(cache) /\ pc = "idle"
  BY DEF Reconcile, api, IInv, TypeOK
<1>2. Same'
  BY <1>1, SameKept DEF Final
<1>3. Harmless'
  <2> SUFFICES ASSUME pc' \notin {"idle", "finalizer", "ensureCD"}, my'.rv = ci.rv, Settled(ci)
               PROVE  pc' = "patchStatus" /\ Carries(my', ci)
    BY <1>1 DEF Harmless, Settled, Finished, current, Carries
  <2>1. PICK next \in {"done", "requeue"}, reason \in {"Idle", "InvalidSpec"} :
          \/ Patch(setCIPhase(cache, "Idle", "Idle"), next) \/ Patch(RefuseBuild(cache, "InvalidSpec"), next)
          \/ ~ (cache.life = "live" /\ current(cache) /\ cache.phase \in {"Succeeded", "Failed"})
    BY <1>1 DEF ReadAndDecide, Goto
  <2>2. setCIPhase(cache, "Idle", "Idle").reason = "Idle"
        /\ RefuseBuild(cache, "InvalidSpec").reason = "InvalidSpec"
    BY <1>1 DEF setCIPhase, RefuseBuild, markCIFailed, Version
  <2>3. my'.rv = cache.rv
    <3>1. \E v \in {cache, setCIPhase(cache, "Idle", "Idle")}
                   \cup {RefuseBuild(cache, r) : r \in Reasons} : my' = v
      BY <1>1 DEF ReadAndDecide, Patch, Goto, MissingReason, Reasons
    <3>2. /\ setCIPhase(cache, "Idle", "Idle").rv = cache.rv
          /\ \A r \in Reasons : RefuseBuild(cache, r).rv = cache.rv
      BY <1>1 DEF setCIPhase, RefuseBuild, markCIFailed, Version
    <3> QED
      BY <3>1, <3>2
  <2>4. cache = ci
    BY <2>3 DEF Final, Same
  <2> QED
    BY <2>1, <2>2, <2>4 DEF Patch, Goto, Settled, Finished, Carries
<1> QED
  BY <1>2, <1>3 DEF Final

\* A write of the CI leaves every copy behind.
LEMMA WriteFinal ==
  ASSUME IInv, NEW v \in Version, Store(v), cache' = cache,
         \/ pc' \in {"idle", "finalizer", "ensureCD"}
         \/ pc' = pc /\ my' = my /\ pc # "idle"
  PROVE  Final'
<1>1. /\ ci'.rv = ci.rv + 1 /\ watch' = watch \cup {ci'} /\ ci.rv \in Nat
  BY DEF Store, Version, IInv, TypeOK
<1>2. \A w \in Copies : w.rv \in Nat /\ w.rv # ci'.rv
  <2>1. \A w \in Copies : w.rv <= ci.rv
    BY DEF IInv, Dated
  <2>2. \A w \in Copies : w.rv \in Nat
    BY DEF IInv, TypeOK, Copies, Version
  <2> QED
    BY <1>1, <2>1, <2>2
<1>3. Same'
  BY <1>1, <1>2 DEF Same, Copies
<1>4. Harmless'
  BY <1>2 DEF Harmless, Copies
<1> QED
  BY <1>3, <1>4 DEF Final

\* The steps that write the CI: a status that is patched, the finalizer, an edit
\* of the spec and the deletion.
LEMMA WritersFinal ==
  ASSUME IInv, Final, UpdateFinalizer \/ patchStatus \/ EditSpec \/ DeleteCI
  PROVE  Final'
<1>1. ci \in Version /\ cache' = cache
  BY DEF IInv, TypeOK, UpdateFinalizer, patchStatus, EditSpec, DeleteCI
<1>2. pc' \in {"idle", "ensureCD"} \/ (pc' = pc /\ my' = my)
  BY DEF UpdateFinalizer, patchStatus, EditSpec, DeleteCI, Return, Goto
<1>3. UNCHANGED api \/ \E v \in Version : Store(v)
  <2>1. CASE UpdateFinalizer
    <3>1. \A life \in {"live", "gone"} : [ci EXCEPT !.life = life] \in Version
      BY <1>1 DEF Version
    <3> QED
      BY <2>1, <3>1 DEF UpdateFinalizer
  <2>2. CASE patchStatus
    BY <2>2 DEF patchStatus, IInv, TypeOK
  <2>3. CASE EditSpec
    <3>1. \A gen \in Nat, rev \in Revisions, reg \in Registries :
            [ci EXCEPT !.gen = gen, !.rev = rev, !.reg = reg] \in Version
      BY <1>1 DEF Version
    <3>2. ci.gen + 1 \in Nat
      BY <1>1 DEF Version
    <3> QED
      BY <2>3, <3>1, <3>2 DEF EditSpec
  <2>4. CASE DeleteCI
    <3>1. [ci EXCEPT !.life = "deleting"] \in Version
      BY <1>1 DEF Version
    <3> QED
      BY <2>4, <3>1 DEF DeleteCI
  <2> QED
    BY <2>1, <2>2, <2>3, <2>4
<1>4. CASE UNCHANGED api
  <2>1. ci' = ci /\ watch' = watch
    BY <1>4 DEF api
  <2> QED
    BY <1>1, <1>2, <2>1, SameKept, HarmlessKept DEF Final
<1>5. CASE \E v \in Version : Store(v)
  BY <1>1, <1>2, <1>5, WriteFinal
<1> QED
  BY <1>3, <1>4, <1>5

\* The other steps of a reconcile that has begun.
LEMMA CallsFinal ==
  ASSUME IInv, Final,
         deleteBuildPods \/ CreatePod \/ followBuild \/ GetPodFromAPI \/ LostPod \/ ensureCD
  PROVE  Final'
<1>1. UNCHANGED <<ci, watch, cache>>
  BY DEF deleteBuildPods, CreatePod, followBuild, GetPodFromAPI, LostPod, ensureCD, api
<1>2. pc' = "idle" \/ (pc \notin {"idle", "finalizer", "ensureCD", "patchStatus"} /\ my'.rv = my.rv)
  <2>1. CASE deleteBuildPods
    BY <2>1 DEF deleteBuildPods
  <2>2. CASE ensureCD
    BY <2>2 DEF ensureCD, Return
  <2>3. CASE CreatePod \/ followBuild \/ GetPodFromAPI \/ LostPod
    <3>1. my \in Version
      BY <2>3 DEF CreatePod, followBuild, GetPodFromAPI, LostPod, IInv, TypeOK
    <3>2. /\ \A r : RefuseBuild(my, r).rv = my.rv /\ markCIFailed(my, r).rv = my.rv
          /\ PodCreateFailed(my).rv = my.rv
      BY <3>1 DEF RefuseBuild, markCIFailed, PodCreateFailed, Version
    <3>3. /\ \A p : StartBuild(my, p).rv = my.rv
          /\ \A phase : podResult(my, phase).rv = my.rv
      BY <3>1 DEF StartBuild, setCIPhase, podResult, Succeed, markCIFailed, Version
    <3> QED
      BY <2>3, <3>2, <3>3 DEF CreatePod, followBuild, GetPodFromAPI, LostPod, Follow, Patch, Goto, Return
  <2> QED
    BY <2>1, <2>2, <2>3
<1> QED
  BY <1>1, <1>2, SameKept, HarmlessKept DEF Final

\* Every step.
LEMMA NextFinal == ASSUME IInv, Final, [Next]_vars PROVE Final'
<1>1. CASE ControllerStep
  BY <1>1, ReadFinal, WritersFinal, CallsFinal DEF ControllerStep
<1>2. CASE EditSpec \/ DeleteCI
  BY <1>2, WritersFinal
<1>3. CASE CacheSync \/ ApiError \/ Crash
  <2>1. /\ ci' = ci /\ watch' \cup {cache'} \subseteq watch \cup {ci, cache}
        /\ pc' = "idle" \/ (pc' = pc /\ my' = my)
    BY <1>3 DEF CacheSync, ApiError, Crash, Return, api
  <2> QED
    BY <2>1, SameKept, HarmlessKept DEF Final
<1>4. CASE \/ CDCacheSync \/ GarbageCollect \/ DeleteCD
           \/ \E need \in Needs : Break(need) \/ Repair(need)
           \/ \E p \in PodNames : PodCacheSync(p) \/ PodProgress(p) \/ Evict(p)
           \/ UNCHANGED vars
  <2>1. UNCHANGED <<ci, watch, cache, pc, my>>
    BY <1>4 DEF CDCacheSync, GarbageCollect, DeleteCD, Break, Repair, PodCacheSync, PodProgress, PodPushes,
                PodSucceeds, PodFails, PodRemoved, PodTurns, Evict, api, vars
  <2> QED
    BY <2>1, SameKept, HarmlessKept DEF Final
<1> QED
  BY <1>1, <1>2, <1>3, <1>4 DEF Next, World

\* No late or repeated reconcile takes the outcome of a build back (patchStatus
\* under its lock, and what reconcile decides of a finished build).
THEOREM OutcomeTheorem == Spec => OutcomeIsFinal
<1>1. Init => Final
  BY DEF Init, Final, Same, Harmless
<1>2. ASSUME IInv, Final, [Next]_vars,
             Settled(ci), ci'.gen = ci.gen, ~ UNCHANGED vars
      PROVE  Carries(ci', ci)
  <2>1. CASE ci' = ci
    BY <2>1 DEF Carries
  <2>2. CASE UpdateFinalizer \/ DeleteCI
    <3>1. ci \in Version
      BY <1>2 DEF IInv, TypeOK
    <3>2. ci' = ci \/ \E life : Store([ci EXCEPT !.life = life])
      BY <2>2 DEF UpdateFinalizer, DeleteCI, api
    <3>3. \A life : /\ [ci EXCEPT !.life = life, !.rv = ci.rv + 1].phase = ci.phase
                    /\ [ci EXCEPT !.life = life, !.rv = ci.rv + 1].image = ci.image
      BY <3>1 DEF Version
    <3> QED
      BY <3>2, <3>3 DEF Store, Carries
  <2>3. CASE patchStatus
    <3>1. ci' = ci \/ (pc = "patchStatus" /\ my.rv = ci.rv /\ Store(my) /\ my \in Version)
      BY <1>2, <2>3 DEF patchStatus, LockHolds, api, IInv, TypeOK
    <3>2. CASE pc = "patchStatus" /\ my.rv = ci.rv /\ Store(my) /\ my \in Version
      <4>1. Carries(my, ci)
        BY <1>2, <3>2 DEF Final, Harmless
      <4>2. ci'.phase = my.phase /\ ci'.image = my.image /\ ci'.reason = my.reason
        BY <3>2 DEF Store, Version
      <4> QED
        BY <4>1, <4>2 DEF Carries
    <3> QED
      BY <3>1, <3>2 DEF Carries
  <2>4. CASE EditSpec
    <3>1. ci.gen \in Nat /\ ci \in Version
      BY <1>2 DEF IInv, TypeOK, Version
    <3>2. ci'.gen = ci.gen + 1
      BY <2>4, <3>1 DEF EditSpec, Store, Version
    <3> QED
      BY <1>2, <3>1, <3>2
  <2> QED
    <3>1. \/ ci' = ci
          \/ UpdateFinalizer \/ DeleteCI \/ patchStatus \/ EditSpec
      BY <1>2 DEF Next, ControllerStep, World, Reconcile, deleteBuildPods, CreatePod, followBuild,
                  GetPodFromAPI, LostPod, ensureCD, CacheSync, CDCacheSync, PodCacheSync, PodProgress,
                  PodPushes, PodSucceeds, PodFails, PodRemoved, PodTurns, GarbageCollect, DeleteCD,
                  ApiError, Crash, Break, Repair, Evict, api
    <3> QED
      BY <2>1, <2>2, <2>3, <2>4, <3>1
<1>3. IInv /\ Final /\ [Next]_vars =>
        [ Finished(ci) /\ ci.reason # "PodCreateFailed" /\ ci'.gen = ci.gen
          => \/ ci'.phase = ci.phase /\ ci'.image = ci.image
             \/ ci'.reason \in {"Idle", "InvalidSpec"} ]_vars
  BY <1>2 DEF Settled, Carries
<1>4. IInv /\ Final /\ [Next]_vars => Final'
  BY NextFinal
<1>5. Spec => [][Next]_vars /\ Init
  BY DEF Spec
<1> QED
  BY <1>1, <1>3, <1>4, <1>5, Inductive, PTL DEF OutcomeIsFinal

-----------------------------------------------------------------------------
(* Rest.                                                                   *)

\* The last version under way is the CI as it is; so is the cache without one.
WatchEnds == IF watch = {} THEN cache = ci ELSE ci \in watch

\* A cached CD that is not the CD is an older one.
CDTrails == cdCache = cd \/ cdCache.rv < cd.rv

\* There is nothing to do for a copy, or nothing but the CD.
Rested(v) == v.life = "live" /\ IF v.rev = None THEN v.phase = "Idle" ELSE Finished(v)
Built(v)  == Rested(v) /\ v.rev # None /\ v.phase = "Succeeded"

\* A status that nobody asks to look after is one at rest.
Working ==
  /\ pc \notin {"idle", "finalizer"} => my.life = "live"
  /\ pc \in {"followBuild", "getPod", "getCI"} => current(my) /\ my.rev # None
  /\ pc = "patchStatus" /\ then = "done" => Rested(my) /\ my.phase # "Succeeded"
  /\ pc = "patchStatus" /\ then = "ensureCD" => Built(my)
  /\ pc = "ensureCD" => Built(my)

\* Without another reconcile to come, the one that makes the CD has the CI as it
\* is, and the last one has left the CI at rest.
Covered ==
  ~ queued /\ watch = {} =>
    /\ pc = "ensureCD" => my = ci
    /\ pc = "idle" =>
         ci.life = "gone" \/ (Rested(ci) /\ (Built(ci) => cd.reg = ci.reg \/ cdCache # cd))

RInv == WatchEnds /\ CDTrails /\ Working /\ Covered

\* A write of the CI is the last version under way.
LEMMA StoreEnds == ASSUME NEW v, Store(v) PROVE watch' # {} /\ ci' \in watch'
BY DEF Store

\* The watch ends with the CI after every step.
LEMMA WatchEndsStep == ASSUME IInv, Same, WatchEnds, [Next]_vars PROVE WatchEnds'
<1>1. CASE UNCHANGED <<ci, watch, cache>>
  BY <1>1 DEF WatchEnds
<1>2. CASE \E v : Store(v)
  BY <1>2, StoreEnds DEF WatchEnds
<1>3. CASE CacheSync
  <2>1. PICK v \in watch :
          (\A w \in watch : v.rv <= w.rv) /\ cache' = v /\ watch' = watch \ {v} /\ ci' = ci
    BY <1>3 DEF CacheSync
  <2>2. ci \in watch
    BY <2>1 DEF WatchEnds
  <2>3. CASE v = ci
    <3>1. \A w \in watch : w.rv = ci.rv
      <4>1. \A w \in watch : w.rv \in Nat /\ w.rv <= ci.rv /\ ci.rv <= w.rv
        BY <2>1, <2>3 DEF IInv, TypeOK, Version, Copies, Dated
      <4> QED
        BY <4>1 DEF IInv, TypeOK, Version
    <3>2. watch = {ci}
      BY <2>2, <3>1 DEF Same
    <3> QED
      BY <2>1, <2>3, <3>2 DEF WatchEnds
  <2>4. CASE v # ci
    BY <2>1, <2>2, <2>4 DEF WatchEnds
  <2> QED
    BY <2>3, <2>4
<1>4. CASE Crash
  BY <1>4 DEF Crash, WatchEnds
<1>5. CASE UpdateFinalizer \/ patchStatus \/ EditSpec \/ DeleteCI
  BY <1>1, <1>2, <1>5 DEF UpdateFinalizer, patchStatus, EditSpec, DeleteCI, api
<1>6. \/ UNCHANGED <<ci, watch, cache>> \/ CacheSync \/ Crash
      \/ UpdateFinalizer \/ patchStatus \/ EditSpec \/ DeleteCI
  BY DEF Next, ControllerStep, World, Reconcile, deleteBuildPods, CreatePod, followBuild,
         GetPodFromAPI, LostPod, ensureCD, CDCacheSync, PodCacheSync, PodProgress,
         PodPushes, PodSucceeds, PodFails, PodRemoved, PodTurns, GarbageCollect, DeleteCD,
         ApiError, Break, Repair, Evict, api, vars
<1> QED
  BY <1>1, <1>3, <1>4, <1>5, <1>6

\* Each write of the CD makes a newer one.
LEMMA TrailsStep == ASSUME IInv, CDTrails, [Next]_vars PROVE CDTrails'
<1>1. cd.rv \in Nat /\ cdCache.rv \in Nat
  BY DEF IInv, TypeOK
<1>2. CASE UNCHANGED cdVars
  BY <1>2 DEF CDTrails, cdVars
<1>3. CASE \E reg : StoreCD(reg) /\ cdCache' = cdCache
  <2>1. cd'.rv = cd.rv + 1 /\ cdCache' = cdCache
    BY <1>3 DEF StoreCD
  <2>2. cdCache.rv <= cd.rv
    BY <1>1 DEF CDTrails
  <2> QED
    BY <1>1, <2>1, <2>2 DEF CDTrails
<1>4. CASE cdCache' = cd /\ cd' = cd
  BY <1>4 DEF CDTrails
<1>5. CASE ensureCD \/ GarbageCollect \/ DeleteCD
  <2>1. cdCache' = cdCache /\ (cd' = cd \/ \E reg : StoreCD(reg))
    BY <1>5 DEF ensureCD, GarbageCollect, DeleteCD
  <2> QED
    BY <1>2, <1>3, <2>1 DEF cdVars
<1>6. \/ UNCHANGED cdVars \/ (cdCache' = cd /\ cd' = cd) \/ ensureCD \/ GarbageCollect \/ DeleteCD
  BY DEF Next, ControllerStep, World, Reconcile, UpdateFinalizer, patchStatus, deleteBuildPods,
         CreatePod, followBuild, GetPodFromAPI, LostPod, CacheSync, CDCacheSync, PodCacheSync,
         PodProgress, PodPushes, PodSucceeds, PodFails, PodRemoved, PodTurns, EditSpec, DeleteCI,
         ApiError, Crash, Break, Repair, Evict, cdVars, vars
<1> QED
  BY <1>2, <1>4, <1>5, <1>6

\* What the functions of the status leave at rest: idle without a revision, and
\* what is recorded as failed for good.
LEMMA StatusRested ==
  ASSUME NEW v \in Version, v.life = "live"
  PROVE  /\ v.rev = None => LET w == setCIPhase(v, "Idle", "Idle")
                            IN  Rested(w) /\ w.phase # "Succeeded"
         /\ \A r \in Reasons : v.rev # None => LET w == RefuseBuild(v, r)
                                               IN  Rested(w) /\ w.phase # "Succeeded"
         /\ \A r \in Reasons : current(v) /\ v.rev # None =>
              LET w == markCIFailed(v, r) IN  Rested(w) /\ w.phase # "Succeeded"
         /\ current(v) /\ v.rev # None => Built(Succeed(v))
<1>1. ASSUME v.rev = None
      PROVE  LET w == setCIPhase(v, "Idle", "Idle") IN Rested(w) /\ w.phase # "Succeeded"
  BY <1>1 DEF setCIPhase, Version, Rested
<1>2. ASSUME NEW r \in Reasons, v.rev # None
      PROVE  LET w == RefuseBuild(v, r) IN Rested(w) /\ w.phase # "Succeeded"
  <2> DEFINE w == RefuseBuild(v, r)
  <2>1. w.life = "live" /\ w.rev = v.rev /\ w.phase = "Failed" /\ w.building = w.rev
        /\ w.observed = w.gen
    BY DEF RefuseBuild, markCIFailed, Version
  <2> HIDE DEF w
  <2>2. Rested(w) /\ w.phase # "Succeeded"
    BY <1>2, <2>1 DEF Rested, Finished, current
  <2> QED
    BY <2>2 DEF w
<1>3. ASSUME NEW r \in Reasons, current(v), v.rev # None
      PROVE  LET w == markCIFailed(v, r) IN Rested(w) /\ w.phase # "Succeeded"
  <2> DEFINE w == markCIFailed(v, r)
  <2>1. w.life = "live" /\ w.rev = v.rev /\ w.phase = "Failed" /\ w.building = v.building
        /\ w.observed = w.gen
    BY DEF markCIFailed, Version
  <2> HIDE DEF w
  <2>2. Rested(w) /\ w.phase # "Succeeded"
    BY <1>3, <2>1 DEF Rested, Finished, current
  <2> QED
    BY <2>2 DEF w
<1>4. ASSUME current(v), v.rev # None PROVE Built(Succeed(v))
  <2> DEFINE w == Succeed(v)
  <2>1. w.life = "live" /\ w.rev = v.rev /\ w.phase = "Succeeded" /\ w.building = v.building
        /\ w.observed = v.observed /\ w.gen = v.gen
    BY DEF Succeed, Version
  <2> HIDE DEF w
  <2>2. Built(w)
    BY <1>4, <2>1 DEF Built, Rested, Finished, current
  <2> QED
    BY <2>2 DEF w
<1> QED
  BY <1>1, <1>2, <1>3, <1>4

\* The status functions leave the metadata alone.
LEMMA StatusLive ==
  ASSUME NEW v \in Version, v.life = "live"
  PROVE  /\ setCIPhase(v, "Idle", "Idle").life = "live"
         /\ setCIPhase(v, "Building", "Building").life = "live"
         /\ \A r : RefuseBuild(v, r).life = "live" /\ markCIFailed(v, r).life = "live"
         /\ PodCreateFailed(v).life = "live" /\ Succeed(v).life = "live"
         /\ \A p : StartBuild(v, p).life = "live"
BY DEF setCIPhase, RefuseBuild, markCIFailed, PodCreateFailed, Succeed, StartBuild, Version

\* Following a Pod: a success makes the CD, a failure ends the matter.
LEMMA FollowRested ==
  ASSUME NEW phase, my \in Version, my.life = "live", current(my), my.rev # None,
         Follow(phase), pc' = "patchStatus"
  PROVE  Working'
<1> DEFINE v == podResult(my, phase)
<1>1. my' = v /\ then' = (IF phase = "Succeeded" THEN "ensureCD"
                          ELSE IF phase = "Failed" THEN "done" ELSE "requeue")
  BY DEF Follow, Patch, Goto
<1>2. CASE phase = "Succeeded"
  <2>1. v = Succeed(my) /\ then' = "ensureCD"
    BY <1>1, <1>2 DEF podResult
  <2>2. Built(my') /\ my'.life = "live"
    BY <1>1, <2>1, StatusRested DEF Built, Rested
  <2> QED
    BY <2>1, <2>2 DEF Working, Built, Rested, Finished, current
<1>3. CASE phase = "Failed"
  <2>1. v = markCIFailed(my, "BuildFailed") /\ then' = "done" /\ "BuildFailed" \in Reasons
    BY <1>1, <1>3 DEF podResult, Reasons
  <2>2. Rested(my') /\ my'.phase # "Succeeded" /\ my'.life = "live"
    BY <1>1, <2>1, StatusRested DEF Rested
  <2> QED
    BY <2>1, <2>2 DEF Working, Built, Rested, Finished, current
<1>4. CASE phase \notin {"Succeeded", "Failed"}
  <2>1. v = setCIPhase(my, "Building", "Building") /\ then' = "requeue"
    BY <1>1, <1>4 DEF podResult
  <2>2. my'.life = "live"
    BY <1>1, <2>1, StatusLive
  <2> QED
    BY <2>1, <2>2 DEF Working
<1> QED
  BY <1>2, <1>3, <1>4

\* The reconciler decides: what it records without asking for another reconcile
\* is at rest.
LEMMA ReconcileWorking == ASSUME IInv, Working, Reconcile PROVE Working'
<1>1. cache \in Version /\ ReadAndDecide(cache) /\ pc = "idle"
  BY DEF Reconcile, IInv, TypeOK
<1>2. CASE pc' \in {"idle", "finalizer"}
  BY <1>2 DEF Working
<1>3. CASE cache.life = "live" /\ Patch(setCIPhase(cache, "Idle", "Idle"), "requeue")
  <2>1. my'.life = "live" /\ pc' = "patchStatus" /\ then' = "requeue"
    BY <1>1, <1>3, StatusLive DEF Patch, Goto
  <2> QED
    BY <2>1 DEF Working
<1>4. CASE /\ cache.life = "live"
           /\ \/ cache.rev = None /\ Patch(setCIPhase(cache, "Idle", "Idle"), "done")
              \/ cache.rev # None /\ \E r \in Reasons : Patch(RefuseBuild(cache, r), "done")
  <2>1. pc' = "patchStatus" /\ then' = "done"
    BY <1>4 DEF Patch, Goto
  <2>2. Rested(my') /\ my'.phase # "Succeeded"
    BY <1>1, <1>4, StatusRested DEF Patch, Goto
  <2>3. my'.life = "live"
    BY <2>2 DEF Rested
  <2> QED
    BY <2>1, <2>2, <2>3 DEF Working, Rested, Finished, current
<1>5. CASE cache.life = "live" /\ cache.rev # None /\ current(cache) /\ Goto("followBuild", cache)
  <2>1. pc' = "followBuild" /\ my' = cache
    BY <1>5 DEF Goto
  <2> QED
    BY <1>5, <2>1 DEF Working, current
<1>6. CASE /\ cache.life = "live" /\ cache.rev # None /\ current(cache)
           /\ cache.phase = "Succeeded" /\ Goto("ensureCD", cache)
  <2>1. pc' = "ensureCD" /\ my' = cache /\ Built(cache)
    BY <1>6 DEF Goto, Built, Rested, Finished
  <2>2. Built(my')
    BY <2>1
  <2> QED
    BY <1>6, <2>1, <2>2 DEF Working, Built, Rested, Finished, current
<1>7. CASE cache.life = "live" /\ Goto("deleteBuildPods", cache)
  <2>1. pc' = "deleteBuildPods" /\ my' = cache
    BY <1>7 DEF Goto
  <2> QED
    BY <1>7, <2>1 DEF Working
<1>8. MissingReason \in Reasons /\ "InvalidSpec" \in Reasons
  BY DEF MissingReason, Reasons
<1> QED
  BY <1>1, <1>2, <1>3, <1>4, <1>5, <1>6, <1>7, <1>8 DEF ReadAndDecide, Goto

\* Every other call, too.
LEMMA WorkingStep == ASSUME IInv, Working, [Next]_vars PROVE Working'
<1>1. CASE Reconcile
  BY <1>1, ReconcileWorking
<1>2. CASE pc' = "idle"
  BY <1>2 DEF Working
<1>3. CASE UNCHANGED <<pc, my, then>>
  BY <1>3 DEF Working, Built, Rested, Finished, current
<1>4. CASE deleteBuildPods
  BY <1>4 DEF deleteBuildPods, Working
<1>5. CASE CreatePod
  <2>1. my \in Version /\ my.life = "live" /\ my.rev # None /\ pc' = "patchStatus"
    BY <1>5 DEF CreatePod, Working, IInv, TypeOK, Progress, Patch, Goto
  <2>2. CASE Patch(RefuseBuild(my, "SecretNotAllowed"), "done")
    <3>1. then' = "done" /\ Rested(my') /\ my'.phase # "Succeeded"
      BY <2>1, <2>2, StatusRested DEF Patch, Goto, Reasons
    <3>2. my'.life = "live"
      BY <3>1 DEF Rested
    <3> QED
      BY <2>1, <3>1, <3>2 DEF Working, Rested, Finished, current
  <2>3. CASE Patch(PodCreateFailed(my), "requeue") \/ \E p : Patch(StartBuild(my, p), "requeue")
    <3>1. then' = "requeue" /\ my'.life = "live"
      BY <2>1, <2>3, StatusLive DEF Patch, Goto
    <3> QED
      BY <2>1, <3>1 DEF Working
  <2> QED
    BY <1>5, <2>2, <2>3 DEF CreatePod
<1>6. CASE followBuild \/ GetPodFromAPI
  <2>1. my \in Version /\ my.life = "live" /\ current(my) /\ my.rev # None
    BY <1>6 DEF followBuild, GetPodFromAPI, Working, IInv, TypeOK
  <2>2. CASE \E phase : Follow(phase)
    <3>1. pc' = "patchStatus"
      BY <2>2 DEF Follow, Patch, Goto
    <3> QED
      BY <2>1, <2>2, <3>1, FollowRested
  <2>3. CASE \E label \in {"getPod", "getCI"} : Goto(label, my)
    <3>1. my' = my /\ pc' \in {"getPod", "getCI"}
      BY <2>3 DEF Goto
    <3> QED
      BY <2>1, <3>1 DEF Working, current
  <2> QED
    BY <1>6, <2>2, <2>3 DEF followBuild, GetPodFromAPI
<1>7. CASE LostPod
  <2>1. my \in Version /\ my.life = "live" /\ current(my) /\ my.rev # None
    BY <1>7 DEF LostPod, Working, IInv, TypeOK
  <2>2. CASE Patch(markCIFailed(my, "BuildPodLost"), "done")
    <3>1. pc' = "patchStatus" /\ then' = "done" /\ Rested(my') /\ my'.phase # "Succeeded"
      BY <2>1, <2>2, StatusRested DEF Patch, Goto, Reasons
    <3>2. my'.life = "live"
      BY <3>1 DEF Rested
    <3> QED
      BY <3>1, <3>2 DEF Working, Rested, Finished, current
  <2> QED
    BY <1>2, <1>7, <2>2 DEF LostPod, Return
<1>8. CASE patchStatus
  <2>1. pc' = "idle" \/ (then = "ensureCD" /\ pc = "patchStatus" /\ pc' = "ensureCD" /\ my' = my)
    BY <1>8 DEF patchStatus, Return, Goto
  <2> QED
    BY <1>2, <2>1 DEF Working, Built, Rested, Finished, current
<1>9. CASE UpdateFinalizer \/ ensureCD \/ ApiError \/ Crash
  BY <1>2, <1>9 DEF UpdateFinalizer, ensureCD, ApiError, Crash, Return
<1>10. \/ Reconcile \/ UNCHANGED <<pc, my, then>> \/ deleteBuildPods \/ CreatePod \/ followBuild
       \/ GetPodFromAPI \/ LostPod \/ patchStatus \/ UpdateFinalizer \/ ensureCD \/ ApiError \/ Crash
  BY DEF Next, ControllerStep, World, CacheSync, CDCacheSync, PodCacheSync, PodProgress,
         PodPushes, PodSucceeds, PodFails, PodRemoved, PodTurns, EditSpec, DeleteCI, GarbageCollect,
         DeleteCD, Break, Repair, Evict, vars
<1> QED
  BY <1>1, <1>3, <1>4, <1>5, <1>6, <1>7, <1>8, <1>9, <1>10

\* A step that brings another reconcile, or another version of the CI, owes nothing.
LEMMA Disturbed == ASSUME queued' \/ watch' # {} PROVE Covered'
BY DEF Covered

\* Nor does one between two calls.
LEMMA UnderWay == ASSUME pc' \notin {"idle", "ensureCD"} PROVE Covered'
BY DEF Covered

\* The status is recorded: if that changes nothing, it was at rest before.
LEMMA PatchCovered == ASSUME IInv, RInv, patchStatus PROVE Covered'
<1>1. pc = "patchStatus" /\ my \in Version /\ then \in {"ensureCD", "requeue", "done"}
      /\ UNCHANGED <<cache, cd, cdCache>>
  BY DEF patchStatus, IInv, TypeOK, cdVars
<1>2. CASE \E v : Store(v)
  BY <1>2, StoreEnds, Disturbed
<1>3. CASE Return(TRUE)
  BY <1>3, Disturbed DEF Return
<1>4. CASE my = ci /\ UNCHANGED api /\ then = "ensureCD" /\ Goto("ensureCD", my)
  BY <1>4 DEF Covered, Goto, api
<1>5. CASE my = ci /\ UNCHANGED api /\ then = "done" /\ Return(FALSE)
  <2>1. Rested(ci) /\ ci.phase # "Succeeded" /\ ci' = ci /\ pc' = "idle"
    BY <1>1, <1>5 DEF RInv, Working, api, Return
  <2> QED
    BY <2>1 DEF Covered, Built, Rested, Finished, current
<1> QED
  BY <1>1, <1>2, <1>3, <1>4, <1>5 DEF patchStatus

\* The CD is there, or has been written, or there is another reconcile.
LEMMA EnsureCovered == ASSUME IInv, RInv, ensureCD PROVE Covered'
<1>1. pc = "ensureCD" /\ my \in Version /\ UNCHANGED <<ci, watch, cdCache>>
  BY DEF ensureCD, IInv, TypeOK, api
<1>2. Built(my)
  BY <1>1 DEF RInv, Working
<1>3. CASE Return(TRUE)
  BY <1>3, Disturbed DEF Return
<1>4. CASE Return(FALSE) /\ (cd'.reg = my.reg \/ (cdCache.reg = my.reg /\ cd' = cd))
  <2> SUFFICES ASSUME ~ queued', watch' = {} PROVE Covered'
    BY Disturbed
  <2>1. my = ci
    BY <1>1, <1>4 DEF RInv, Covered, Return
  <2>2. cd'.reg = ci'.reg \/ cdCache' # cd'
    BY <1>1, <1>4, <2>1
  <2>3. Rested(ci)
    BY <1>2, <2>1 DEF Built
  <2> QED
    BY <1>1, <1>4, <2>2, <2>3 DEF Covered, Return, Rested, Finished, current
<1>5. Return(TRUE) \/ (Return(FALSE) /\ (cd'.reg = my.reg \/ (cdCache.reg = my.reg /\ cd' = cd)))
  <2>1. \A reg : StoreCD(reg) => cd'.reg = reg
    BY DEF StoreCD
  <2> QED
    BY <2>1, Zenon DEF ensureCD
<1> QED
  BY <1>3, <1>4, <1>5

\* The reconciler reads the CI as it is, or a version is under way.
LEMMA ReconcileCovered == ASSUME IInv, RInv, Reconcile PROVE Covered'
<1>1. cache \in Version /\ ReadAndDecide(cache) /\ pc = "idle"
      /\ UNCHANGED <<ci, watch, cache, cd, cdCache>>
  BY DEF Reconcile, IInv, TypeOK, api, cdVars
<1> SUFFICES ASSUME ~ queued', watch' = {} PROVE Covered'
  BY Disturbed
<1>2. cache = ci
  BY <1>1 DEF RInv, WatchEnds
<1>3. CASE ci.life = "gone"
  BY <1>1, <1>2, <1>3 DEF Covered, ReadAndDecide
<1>4. CASE pc' = "ensureCD" /\ my' = ci
  BY <1>1, <1>4 DEF Covered
<1>5. CASE pc' = "idle" /\ ci.life = "live" /\ ci.rev # None /\ current(ci) /\ ci.phase = "Failed"
  <2>1. Rested(ci) /\ ci' = ci /\ ci.phase # "Succeeded"
    BY <1>1, <1>5 DEF Rested, Finished
  <2> QED
    BY <1>5, <2>1 DEF Covered, Built, Rested, Finished, current
<1>6. CASE pc' \notin {"idle", "ensureCD"}
  BY <1>6, UnderWay
<1> QED
  BY <1>1, <1>2, <1>3, <1>4, <1>5, <1>6 DEF ReadAndDecide, Goto, Patch

\* Every step.
LEMMA CoveredStep == ASSUME IInv, RInv, [Next]_vars PROVE Covered'
<1>1. CASE Reconcile
  BY <1>1, ReconcileCovered
<1>2. CASE patchStatus
  BY <1>2, PatchCovered
<1>3. CASE ensureCD
  BY <1>3, EnsureCovered
<1>4. CASE UpdateFinalizer
  <2>1. Return(TRUE) \/ \E v : Store(v)
    BY <1>4 DEF UpdateFinalizer
  <2> QED
    BY <2>1, StoreEnds, Disturbed DEF Return
<1>5. CASE EditSpec \/ DeleteCI
  BY <1>5, StoreEnds, Disturbed DEF EditSpec, DeleteCI
<1>6. CASE CacheSync \/ CDCacheSync \/ ApiError \/ Crash \/ \E p \in PodNames : PodCacheSync(p)
  BY <1>6, Disturbed DEF CacheSync, CDCacheSync, ApiError, Crash, PodCacheSync, Return
<1>7. CASE deleteBuildPods \/ CreatePod \/ followBuild \/ GetPodFromAPI
  BY <1>7, UnderWay DEF deleteBuildPods, CreatePod, followBuild, GetPodFromAPI, Follow, Patch, Goto
<1>8. CASE LostPod
  BY <1>8, UnderWay, Disturbed DEF LostPod, Patch, Goto, Return
<1>9. CASE UNCHANGED <<queued, watch, ci, cd, cdCache, pc, my>>
  BY <1>9, Zenon DEF RInv, Covered, Built, Rested, Finished, current
<1>10. CASE GarbageCollect
  BY <1>10 DEF GarbageCollect, Covered, RInv, api
<1>11. CASE DeleteCD
  <2>1. UNCHANGED <<queued, watch, ci, cdCache, pc, my>> /\ cd'.rv = cd.rv + 1
    BY <1>11 DEF DeleteCD, StoreCD, api
  <2>2. cdCache' # cd'
    BY <2>1 DEF RInv, CDTrails, IInv, TypeOK
  <2> QED
    BY <2>1, <2>2 DEF RInv, Covered, Built, Rested, Finished, current
<1>12. CASE (\E need \in Needs : Break(need) \/ Repair(need)) \/ UNCHANGED vars
            \/ \E p \in PodNames : PodProgress(p) \/ Evict(p)
  BY <1>9, <1>12 DEF Break, Repair, vars, api, cdVars, Evict, PodProgress, PodPushes, PodSucceeds,
                     PodFails, PodRemoved, PodTurns
<1> QED
  BY <1>1, <1>2, <1>3, <1>4, <1>5, <1>6, <1>7, <1>8, <1>10, <1>11, <1>12
  DEF Next, ControllerStep, World

\* Whatever of the CI is not as it should be is queued, in hand, or something a
\* cache has yet to show.
THEOREM RestInvariant == Spec => []RInv
<1>1. Init => Final /\ RInv
  <2>1. Init => Final /\ WatchEnds /\ CDTrails
    BY DEF Init, Final, Same, Harmless, WatchEnds, CDTrails
  <2>2. Init => Working /\ Covered
    BY DEF Init, Working, Covered
  <2> QED
    BY <2>1, <2>2 DEF RInv
<1>2. IInv /\ Final /\ RInv /\ [Next]_vars => Final' /\ RInv'
  BY NextFinal, WatchEndsStep, TrailsStep, WorkingStep, CoveredStep DEF RInv, Final
<1> QED
  BY <1>1, <1>2, Inductive, PTL DEF Spec

\* No wake-up of the CI is lost: when the caches show everything and no reconcile
\* runs or is queued, a CI that is not gone is idle for want of a revision, or
\* has an outcome for its spec, and after a success its CD.
THEOREM OutcomeAtRestTheorem == Spec => []OutcomeAtRest
<1>1. RInv => OutcomeAtRest
  <2> SUFFICES ASSUME RInv, pc = "idle", ~ queued, watch = {}, cdCache = cd, ci.life # "gone"
               PROVE  /\ ci.life = "live"
                      /\ IF ci.rev = None THEN ci.phase = "Idle"
                         ELSE Finished(ci) /\ (ci.phase = "Succeeded" => cd.reg = ci.reg)
    BY DEF OutcomeAtRest
  <2>1. Rested(ci) /\ (Built(ci) => cd.reg = ci.reg)
    BY DEF RInv, Covered
  <2> QED
    BY <2>1 DEF Rested, Built
<1> QED
  BY <1>1, RestInvariant, PTL
=============================================================================
