----------------------- MODULE ServiceControllerProofs -----------------------
(***************************************************************************)
(* Proofs about the Service reconciler: a Service is only called Ready of a*)
(* commit that ran, and it is polled for ever unless its spec is invalid,  *)
(* for all commits, Dockerfiles, faults and bounds.                        *)
(***************************************************************************)
EXTENDS ServiceController, TLAPS

\* A copy of the Service is truthful: it is Ready only with a commit that has
\* run up to now (r).
Sound(v, r) == v \in Version /\ (v.phase = "Ready" => v.latest \in r)

\* So is a copy of the CD: what it calls Running has run.
Shown(d, r) == d \in CD /\ (d.phase = "Running" => d.rev \in r)

\* The Service, and its copies on their way to the reconciler.
Stored ==
  /\ Sound(svc, ran) /\ Sound(cache, ran) /\ ran \subseteq Nat
  /\ watch \in Seq(Version) /\ \A i \in DOMAIN watch : Sound(watch[i], ran)

Labels == {"idle", "finalizer", "resolve", "clone", "ensureDockerfile", "pruneDockerfiles",
           "ensureCI", "syncCD", "patchStatus"}

\* The copy a reconcile works on.
InHand ==
  /\ pc \in Labels /\ Sound(my, ran) /\ mine \in BOOLEAN /\ target \in Nat /\ file \in Nat

\* CI and CD, and their cached copies.
Pipeline ==
  /\ ci \in CI /\ ciCache \in CI /\ ciFresh \in BOOLEAN
  /\ Shown(cd, ran) /\ Shown(cdCache, ran)

\* The branch, the Dockerfiles stored and the queue.
Around ==
  /\ newest \in Commits /\ head \in 1 .. newest /\ ready \subseteq Needs /\ plan \in Plan
  /\ cms \subseteq Nat /\ cmCache \subseteq Nat /\ cooling \in BOOLEAN /\ queued \in BOOLEAN

\* The inductive invariant.
IInv == Stored /\ InHand /\ Pipeline /\ Around

-----------------------------------------------------------------------------
(* The pure parts.                                                         *)

\* A truthful copy stays truthful while more commits run.
LEMMA SoundGrows ==
  ASSUME NEW r, NEW s, r \subseteq s
  PROVE  /\ \A v : Sound(v, r) => Sound(v, s)
         /\ \A d : Shown(d, r) => Shown(d, s)
BY DEF Sound, Shown

\* No version, no CI and no CD claim nothing.
LEMMA NothingSound ==
  ASSUME NEW r PROVE Sound(NoVersion, r) /\ Shown(NoCD, r) /\ NoCI \in CI
<1>1. NoVersion \in Version /\ NoVersion.phase # "Ready"
  BY DEF NoVersion, Version
<1>2. NoCD \in CD /\ NoCD.phase # "Running" /\ NoCI \in CI
  BY DEF NoCD, CD, NoCI, CI
<1> QED
  BY <1>1, <1>2 DEF Sound, Shown

\* Every status but Ready claims nothing.
LEMMA StatusSound ==
  ASSUME NEW r, NEW v, Sound(v, r)
  PROVE  /\ \A phase \in {"Discovering", "Building"} : Sound(setPhase(v, phase), r)
         /\ \A reason \in OwnReasons : Sound(markFailed(v, reason), r)
         /\ \A reason \in PipelineReasons : Sound(setPipelineFailed(v, reason), r)
         /\ v.latest \in r => Sound(setPhase(v, "Ready"), r)
<1>1. v \in Version /\ v.gen \in Nat
  BY DEF Sound, Version
<1>2. ASSUME NEW phase \in {"Discovering", "Building", "Ready"}
      PROVE  setPhase(v, phase) \in Version /\ setPhase(v, phase).phase = phase
             /\ setPhase(v, phase).latest = v.latest
  BY <1>1 DEF setPhase, Version
<1>3. ASSUME NEW reason \in OwnReasons
      PROVE  markFailed(v, reason) \in Version /\ markFailed(v, reason).phase = "Failed"
  BY <1>1 DEF markFailed, Version
<1>4. ASSUME NEW reason \in PipelineReasons
      PROVE  setPipelineFailed(v, reason) \in Version /\ setPipelineFailed(v, reason).phase = "Failed"
  BY <1>1 DEF setPipelineFailed, Version
<1> QED
  BY <1>2, <1>3, <1>4 DEF Sound

\* The end of discoverAndBuild: the new commit is Building.
LEMMA DiscoveredSound ==
  ASSUME NEW r, NEW v, Sound(v, r), NEW commit \in Nat, NEW cm \in Nat
  PROVE  Sound(Discovered(v, commit, cm), r)
<1> DEFINE u == setPhase(v, "Building")
           w == [u EXCEPT !.latest = commit, !.cm = cm, !.ciRef = TRUE, !.observed = v.gen]
<1>1. v \in Version /\ v.gen \in Nat
  BY DEF Sound, Version
<1>2. u \in Version /\ u.phase = "Building"
  BY <1>1 DEF setPhase, Version
<1> HIDE DEF u
<1>3. w \in Version /\ w.phase = u.phase
  BY <1>1, <1>2 DEF Version
<1> HIDE DEF w
<1>4. Discovered(v, commit, cm) = w
  BY DEF Discovered, w, u
<1> QED
  BY <1>2, <1>3, <1>4 DEF Sound

\* The phase that is derived from CI and CD is Ready only with a CD that runs
\* the commit of the status.
LEMMA PhaseSound ==
  ASSUME NEW v, Sound(v, ran), Shown(cdCache, ran)
  PROVE  Sound(setPipelinePhase(v), ran)
<1>1. \/ setPipelinePhase(v) = setPhase(v, "Building")
      \/ \E reason \in PipelineReasons : setPipelinePhase(v) = setPipelineFailed(v, reason)
      \/ /\ setPipelinePhase(v) = setPhase(v, "Ready")
         /\ cdCache.phase = "Running" /\ cdCache.rev = v.latest
  <2>1. {"CIFailed", "CDFailed"} \subseteq PipelineReasons
    BY DEF PipelineReasons
  <2>2. CASE ciCache.life = "none" \/ ciCache.rev # v.latest
    BY <2>2 DEF setPipelinePhase
  <2>3. CASE ~ (ciCache.life = "none" \/ ciCache.rev # v.latest)
    BY <2>1, <2>3, SMTT(20) DEF setPipelinePhase
  <2> QED
    BY <2>2, <2>3
<1> QED
  BY <1>1, StatusSound DEF Shown

-----------------------------------------------------------------------------
(* Steps of the parts of the state.                                        *)

\* The Service rests while more commits run.
LEMMA StoredKept ==
  ASSUME Stored, UNCHANGED <<svc, watch, cache>>, ran \subseteq ran', ran' \subseteq Nat
  PROVE  Stored'
BY SoundGrows DEF Stored

\* A write of a truthful version.
LEMMA StoreStep ==
  ASSUME Stored, NEW v, Sound(v, ran), Store(v), UNCHANGED <<cache, ran>>
  PROVE  Stored'
<1>1. svc' = v /\ watch' = Append(watch, v) /\ v \in Version /\ watch \in Seq(Version)
  BY DEF Store, Sound, Stored
<1>2. /\ DOMAIN watch = 1 .. Len(watch) /\ Len(watch) \in Nat
      /\ DOMAIN watch' = 1 .. Len(watch) + 1 /\ watch' \in Seq(Version)
      /\ watch'[Len(watch) + 1] = v /\ \A i \in 1 .. Len(watch) : watch'[i] = watch[i]
  BY <1>1
<1>3. ASSUME NEW i \in DOMAIN watch' PROVE Sound(watch'[i], ran)
  <2>1. CASE i \in DOMAIN watch
    BY <1>2, <2>1 DEF Stored
  <2>2. CASE i = Len(watch) + 1
    BY <1>2, <2>2
  <2> QED
    BY <1>2, <2>1, <2>2
<1> QED
  BY <1>1, <1>2, <1>3 DEF Stored

\* The informer delivers the oldest version.
LEMMA DeliverStep ==
  ASSUME Stored, watch # <<>>, cache' = Head(watch), watch' = Tail(watch), UNCHANGED <<svc, ran>>
  PROVE  Stored'
<1>1. /\ DOMAIN watch = 1 .. Len(watch) /\ Len(watch) \in Nat /\ Len(watch) > 0
      /\ cache' = watch[1] /\ watch' \in Seq(Version)
      /\ DOMAIN watch' = 1 .. Len(watch) - 1
      /\ \A i \in DOMAIN watch' : watch'[i] = watch[i + 1]
  BY DEF Stored
<1>2. 1 \in DOMAIN watch /\ \A i \in DOMAIN watch' : i + 1 \in DOMAIN watch
  BY <1>1
<1>3. Sound(cache', ran) /\ \A i \in DOMAIN watch' : Sound(watch'[i], ran)
  BY <1>1, <1>2 DEF Stored
<1> QED
  BY <1>1, <1>3 DEF Stored

\* The reconcile rests while more commits run.
LEMMA InHandKept ==
  ASSUME InHand, UNCHANGED <<pc, my, target, file>>, mine' \in BOOLEAN, ran \subseteq ran'
  PROVE  InHand'
BY SoundGrows DEF InHand

\* A reconcile that is over has nothing in hand.
LEMMA IdleStep ==
  ASSUME pc' = "idle", my' = NoVersion, mine' = FALSE, target' = 0, file' = 0
  PROVE  InHand'
<1>1. Sound(NoVersion, ran')
  BY NothingSound
<1> QED
  BY <1>1 DEF InHand, Labels

\* Return ends a reconcile, and leaves the key in the queue or not.
LEMMA ReturnStep ==
  ASSUME NEW requeue \in BOOLEAN, queued \in BOOLEAN, Return(requeue)
  PROVE  InHand' /\ queued' \in BOOLEAN
<1>1. InHand'
  BY IdleStep DEF Return
<1> QED
  BY <1>1 DEF Return

\* On to the next call with a truthful copy.
LEMMA GotoStep ==
  ASSUME InHand, NEW label \in Labels, NEW v, Sound(v, ran), Goto(label, v), ran' = ran,
         target' \in Nat, file' \in Nat
  PROVE  InHand'
<1>1. pc' = label /\ my' = v /\ mine' \in BOOLEAN
  <2>1. (watch = <<>>) \in BOOLEAN /\ mine \in BOOLEAN
    BY DEF InHand
  <2> QED
    BY <2>1 DEF Goto
<1> QED
  BY <1>1 DEF InHand

\* A failure claims nothing.
LEMMA FailStep ==
  ASSUME InHand, NEW v, Sound(v, ran), NEW reason \in OwnReasons, Fail(v, reason), ran' = ran
  PROVE  InHand'
<1>1. Goto("patchStatus", markFailed(v, reason)) /\ target' = target /\ file' = file
  BY DEF Fail
<1>2. Sound(markFailed(v, reason), ran) /\ "patchStatus" \in Labels
  BY StatusSound DEF Labels
<1>3. target' \in Nat /\ file' \in Nat
  BY <1>1 DEF InHand
<1> QED
  BY <1>1, <1>2, <1>3, GotoStep

\* The pipeline rests while more commits run.
LEMMA PipelineKept ==
  ASSUME Pipeline, UNCHANGED <<ciVars, cd, cdCache>>, ran \subseteq ran'
  PROVE  Pipeline'
BY SoundGrows DEF Pipeline, ciVars

-----------------------------------------------------------------------------
(* Every step.                                                             *)

\* The initial state.
LEMMA InitIInv == Init => IInv
<1> SUFFICES ASSUME Init PROVE IInv
  OBVIOUS
<1>1. plan \in Plan /\ newest = 1 /\ head = 1
  BY PlansAssumption DEF Init
<1>2. newest \in Commits
  <2>1. plan.commits \in 1 .. MaxCommits /\ MaxCommits \in Nat
    BY <1>1, BoundsAssumption DEF Plan, Commits
  <2> QED
    BY <1>1, <2>1 DEF Commits
<1>3. svc \in Version /\ svc.phase = "unset"
  <2>1. PICK valid \in BOOLEAN : svc = [NoVersion EXCEPT !.gen = 1, !.life = "new", !.valid = valid]
    BY DEF Init
  <2> QED
    BY <2>1 DEF NoVersion, Version
<1>4. Stored
  BY <1>3 DEF Init, Stored, Sound
<1>5. InHand
  BY NothingSound DEF Init, InHand, Labels
<1>6. Pipeline
  BY NothingSound DEF Init, Pipeline
<1>7. head \in 1 .. newest
  BY <1>1
<1>8. ready = Needs /\ cms = {} /\ cmCache = {} /\ cooling = FALSE /\ queued = TRUE
  BY DEF Init
<1>9. Around
  BY <1>1, <1>2, <1>7, <1>8 DEF Around
<1> QED
  BY <1>4, <1>5, <1>6, <1>9 DEF IInv

\* A step of the reconcile that writes neither Service nor pipeline.
LEMMA LocalStep ==
  ASSUME IInv, InHand', UNCHANGED <<svc, watch, cache, ciVars, cdVars, git, ready, plan, cooling>>,
         cms' \subseteq Nat, cmCache' \subseteq Nat, queued' \in BOOLEAN
  PROVE  IInv'
<1>1. cd' = cd /\ cdCache' = cdCache /\ ran' = ran /\ head' = head /\ newest' = newest
  BY DEF cdVars, git
<1>2. Stored'
  BY <1>1, StoredKept DEF IInv, Stored
<1>3. Pipeline'
  BY <1>1, PipelineKept DEF IInv
<1>4. Around'
  BY <1>1 DEF IInv, Around
<1> QED
  BY <1>2, <1>3, <1>4 DEF IInv

\* What a reconcile finds.
LEMMA Found ==
  ASSUME IInv
  PROVE  /\ InHand /\ Sound(my, ran) /\ Sound(cache, ran) /\ my.gen \in Nat
         /\ my.latest \in Nat /\ my.cm \in Nat
         /\ cms \subseteq Nat /\ cmCache \subseteq Nat /\ queued \in BOOLEAN
         /\ head \in Nat /\ head \in Commits /\ DockerfileOf[head] \in Nat
         /\ plan \in Plan
<1>1. my \in Version /\ Sound(my, ran) /\ Sound(cache, ran)
  BY DEF IInv, InHand, Stored, Sound
<1>2. head \in Commits /\ head \in Nat
  BY BoundsAssumption DEF IInv, Around, Commits
<1>3. DockerfileOf[head] \in Nat
  BY <1>2, DockerfileAssumption
<1> QED
  BY <1>1, <1>2, <1>3 DEF IInv, Around, Version

\* The reconciler reads the cached Service and decides.
LEMMA ReconcileStep == ASSUME IInv, Reconcile PROVE IInv'
<1>1. /\ UNCHANGED <<svc, watch, cache, ciVars, cdVars, cms, cmCache, git, ready, plan, cooling>>
      /\ queued' = FALSE /\ ran' = ran /\ ReadAndDecide(cache)
  BY DEF Reconcile, api, cmVars, cdVars, outside
<1>2. InHand /\ Sound(cache, ran)
  BY Found
<1>3. InHand'
  <2>1. CASE UNCHANGED local
    BY <1>1, <1>2, <2>1 DEF local, InHand
  <2>2. CASE \E reason \in OwnReasons : Fail(cache, reason)
    BY <1>1, <1>2, <2>2, FailStep
  <2>3. CASE /\ \E label \in {"finalizer", "resolve"} : Goto(label, cache)
             /\ UNCHANGED <<target, file>>
    <3>1. {"finalizer", "resolve"} \subseteq Labels /\ target' \in Nat /\ file' \in Nat
      BY <1>2, <2>3 DEF Labels, InHand
    <3> QED
      BY <1>1, <1>2, <2>3, <3>1, GotoStep
  <2>4. {"InvalidSource", "SecretUnavailable", "PluginUnavailable"} \subseteq OwnReasons
    BY DEF OwnReasons
  <2> QED
    BY <1>1, <2>1, <2>2, <2>3, <2>4 DEF ReadAndDecide
<1> QED
  BY <1>1, <1>3, Found, LocalStep

\* The finalizer is added or removed.
LEMMA FinalizerStep == ASSUME IInv, UpdateFinalizer PROVE IInv'
<1>1. UNCHANGED <<cache, ciVars, cd, cdCache, ran, cms, cmCache, head, newest, ready, plan, cooling>>
  BY DEF UpdateFinalizer, cdVars, cmVars, outside, git
<1>2. InHand' /\ queued' \in BOOLEAN
  <2>1. PICK requeue \in BOOLEAN : Return(requeue)
    BY DEF UpdateFinalizer
  <2> QED
    BY <2>1, Found, ReturnStep
<1>3. Stored'
  <2>1. CASE UNCHANGED <<svc, watch>>
    BY <1>1, <2>1, StoredKept DEF IInv, Stored
  <2>2. CASE \E life \in {"live", "gone"} : Store([svc EXCEPT !.life = life])
    <3>1. PICK life \in {"live", "gone"} : Store([svc EXCEPT !.life = life])
      BY <2>2
    <3> DEFINE v == [svc EXCEPT !.life = life]
    <3>2. svc \in Version /\ Sound(svc, ran)
      BY DEF IInv, Stored, Sound
    <3>3. v \in Version /\ v.phase = svc.phase /\ v.latest = svc.latest
      BY <3>2 DEF Version
    <3>4. Sound(v, ran)
      BY <3>2, <3>3 DEF Sound
    <3> HIDE DEF v
    <3>5. Store(v)
      BY <3>1 DEF v
    <3> QED
      BY <1>1, <3>4, <3>5, StoreStep DEF IInv
  <2> QED
    BY <2>1, <2>2 DEF UpdateFinalizer, api
<1>4. Pipeline'
  BY <1>1, PipelineKept DEF IInv
<1>5. Around'
  BY <1>1, <1>2 DEF IInv, Around
<1> QED
  BY <1>2, <1>3, <1>4, <1>5 DEF IInv

\* The server is asked for the branch.
LEMMA ResolveStep == ASSUME IInv, ResolveRevision PROVE IInv'
<1>1. /\ UNCHANGED <<svc, watch, cache, ciVars, cdVars, cms, cmCache, git, ready, plan, cooling, queued>>
      /\ ran' = ran
  BY DEF ResolveRevision, api, cmVars, cdVars, outside
<1>2. InHand /\ Sound(my, ran) /\ head \in Nat
  BY Found
<1>3. InHand'
  <2>1. CASE Fail(my, "RevisionUnresolved")
    <3>1. "RevisionUnresolved" \in OwnReasons
      BY DEF OwnReasons
    <3> QED
      BY <1>1, <1>2, <2>1, <3>1, FailStep
  <2>2. CASE /\ \E label \in {"patchStatus", "ensureCI"} : Goto(label, my)
             /\ UNCHANGED <<target, file>>
    <3>1. {"patchStatus", "ensureCI"} \subseteq Labels /\ target' \in Nat /\ file' \in Nat
      BY <1>2, <2>2 DEF Labels, InHand
    <3> QED
      BY <1>1, <1>2, <2>2, <3>1, GotoStep
  <2>3. CASE Goto("clone", setPhase(my, "Discovering")) /\ target' = head /\ file' = file
    <3>1. "clone" \in Labels /\ target' \in Nat /\ file' \in Nat
      BY <1>2, <2>3 DEF Labels, InHand
    <3>2. Sound(setPhase(my, "Discovering"), ran)
      BY <1>2, StatusSound
    <3> QED
      BY <1>1, <1>2, <2>3, <3>1, <3>2, GotoStep
  <2> QED
    BY <2>1, <2>2, <2>3 DEF ResolveRevision
<1> QED
  BY <1>1, <1>3, Found, LocalStep

\* The branch is cloned and its Dockerfile found.
LEMMA DiscoverStep == ASSUME IInv, Discover PROVE IInv'
<1>1. /\ UNCHANGED <<svc, watch, cache, ciVars, cdVars, cms, cmCache, git, ready, plan, cooling, queued>>
      /\ ran' = ran
  BY DEF Discover, api, cmVars, cdVars, outside
<1>2. InHand /\ Sound(my, ran) /\ cloneAt \in Nat
  BY Found DEF cloneAt
<1>3. InHand'
  <2>1. CASE Fail(my, "DiscoveryFailed")
    <3>1. "DiscoveryFailed" \in OwnReasons
      BY DEF OwnReasons
    <3> QED
      BY <1>1, <1>2, <2>1, <3>1, FailStep
  <2>2. CASE file' = cloneAt /\ Goto("ensureDockerfile", my) /\ target' = target
    <3>1. "ensureDockerfile" \in Labels /\ target' \in Nat /\ file' \in Nat
      BY <1>2, <2>2 DEF Labels, InHand
    <3> QED
      BY <1>1, <1>2, <2>2, <3>1, GotoStep
  <2> QED
    BY <2>1, <2>2 DEF Discover
<1> QED
  BY <1>1, <1>3, Found, LocalStep

\* The Dockerfile is stored, and the others are deleted.
LEMMA DockerfileStep == ASSUME IInv, ensureDockerfile \/ pruneDockerfiles PROVE IInv'
<1>1. /\ UNCHANGED <<svc, watch, cache, ciVars, cdVars, cmCache, git, ready, plan, cooling, queued>>
      /\ ran' = ran
  BY DEF ensureDockerfile, pruneDockerfiles, api, cdVars, outside
<1>2. InHand /\ Sound(my, ran) /\ file \in Nat
  BY Found DEF InHand
<1>3. cms' \subseteq Nat
  <2>1. cms' \subseteq cms \cup {file}
    BY DEF ensureDockerfile, pruneDockerfiles
  <2> QED
    BY <1>2, <2>1, Found
<1>4. InHand'
  <2>1. CASE Fail(my, "DockerfileFailed")
    <3>1. "DockerfileFailed" \in OwnReasons
      BY DEF OwnReasons
    <3> QED
      BY <1>1, <1>2, <2>1, <3>1, FailStep
  <2>2. CASE /\ \E label \in {"pruneDockerfiles", "ensureCI"} : Goto(label, my)
             /\ UNCHANGED <<target, file>>
    <3>1. {"pruneDockerfiles", "ensureCI"} \subseteq Labels /\ target' \in Nat /\ file' \in Nat
      BY <1>2, <2>2 DEF Labels, InHand
    <3> QED
      BY <1>1, <1>2, <2>2, <3>1, GotoStep
  <2> QED
    BY <2>1, <2>2 DEF ensureDockerfile, pruneDockerfiles
<1> QED
  BY <1>1, <1>3, <1>4, Found, LocalStep

\* The CI is written as wanted, or the write is refused.
LEMMA CIStep == ASSUME IInv, ensureCI PROVE IInv'
<1>1. UNCHANGED <<svc, watch, cache, ciCache, cd, cdCache, ran, cms, cmCache, git, ready, plan, cooling>>
  BY DEF ensureCI, api, cmVars, cdVars, outside
<1>2. /\ InHand /\ Sound(my, ran) /\ target \in Nat /\ file \in Nat /\ my.gen \in Nat
      /\ my.latest \in Nat /\ my.cm \in Nat /\ queued \in BOOLEAN
  BY Found DEF InHand
<1>3. ci' \in CI /\ ciFresh' \in BOOLEAN
  <2>1. CASE UNCHANGED <<ci, ciFresh>>
    BY <2>1 DEF IInv, Pipeline
  <2>2. CASE StoreCI(Created(Wanted))
    <3>1. Wanted.rev \in Nat /\ Wanted.cm \in Nat /\ Wanted.conf \in Nat
      BY <1>2 DEF Wanted
    <3> DEFINE want == Wanted
    <3> HIDE DEF want
    <3>2. want.rev \in Nat /\ want.cm \in Nat /\ want.conf \in Nat
      BY <3>1 DEF want
    <3>3. ci \in CI
      BY DEF IInv, Pipeline
    <3>4. Created(want) \in CI
      BY <3>2, <3>3 DEF Created, CI
    <3> QED
      BY <2>2, <3>4 DEF StoreCI, want
  <2> QED
    BY <2>1, <2>2 DEF ensureCI
<1>4. InHand' /\ queued' \in BOOLEAN
  <2>1. CASE /\ Goto("syncCD", IF target # 0 THEN Discovered(my, target, file) ELSE my)
             /\ UNCHANGED <<target, file, queued>>
    <3> DEFINE v == IF target # 0 THEN Discovered(my, target, file) ELSE my
    <3>1. Sound(v, ran)
      BY <1>2, DiscoveredSound
    <3> HIDE DEF v
    <3>2. Goto("syncCD", v) /\ "syncCD" \in Labels
      BY <2>1 DEF v, Labels
    <3> QED
      BY <1>1, <1>2, <2>1, <3>1, <3>2, GotoStep
  <2>2. CASE CIFails
    <3>1. CASE Return(TRUE)
      BY <1>2, <3>1, ReturnStep
    <3>2. CASE /\ \E v \in {markFailed(my, "CIInitFailed"), my} : Goto("patchStatus", v)
               /\ UNCHANGED <<target, file, queued>>
      <4>1. "CIInitFailed" \in OwnReasons /\ "patchStatus" \in Labels
        BY DEF OwnReasons, Labels
      <4>2. \A v \in {markFailed(my, "CIInitFailed"), my} : Sound(v, ran)
        BY <1>2, <4>1, StatusSound
      <4> QED
        BY <1>1, <1>2, <3>2, <4>1, <4>2, GotoStep
    <3> QED
      BY <2>2, <3>1, <3>2 DEF CIFails
  <2> QED
    BY <2>1, <2>2 DEF ensureCI
<1>5. Stored'
  BY <1>1, StoredKept DEF IInv, Stored
<1>6. Pipeline'
  BY <1>1, <1>3 DEF IInv, Pipeline
<1>7. Around'
  BY <1>1, <1>4 DEF IInv, Around, git
<1> QED
  BY <1>4, <1>5, <1>6, <1>7 DEF IInv

\* The CD gets the settings, and the Service its phase.
LEMMA SyncStep == ASSUME IInv, syncCD PROVE IInv'
<1>1. /\ UNCHANGED <<svc, watch, cache, ciVars, cdCache, ran, cms, cmCache, git, ready, plan, cooling>>
      /\ queued' = queued
  BY DEF syncCD, api, cmVars, outside
<1>2. InHand /\ Sound(my, ran) /\ my.gen \in Nat /\ target \in Nat /\ file \in Nat
  BY Found DEF InHand
<1>3. InHand'
  <2>1. Sound(setPipelinePhase(my), ran)
    BY <1>2, PhaseSound DEF IInv, Pipeline
  <2>2. "patchStatus" \in Labels
    BY DEF Labels
  <2> QED
    BY <1>1, <1>2, <2>1, <2>2, GotoStep DEF syncCD
<1>4. Pipeline'
  <2>1. Shown(cd, ran)
    BY DEF IInv, Pipeline
  <2>2. \A n \in Nat : Shown([cd EXCEPT !.conf = n], ran)
    BY <2>1 DEF Shown, CD
  <2>3. Shown(cd', ran)
    BY <1>2, <2>1, <2>2 DEF syncCD
  <2> QED
    BY <1>1, <2>3 DEF IInv, Pipeline, ciVars
<1>5. Stored'
  BY <1>1, StoredKept DEF IInv, Stored
<1>6. Around'
  BY <1>1 DEF IInv, Around, git
<1> QED
  BY <1>3, <1>4, <1>5, <1>6 DEF IInv

\* The status is patched under the lock.
LEMMA PatchStep == ASSUME IInv, patchStatus PROVE IInv'
<1>1. UNCHANGED <<cache, ciVars, cd, cdCache, ran, cms, cmCache, git, ready, plan>>
  BY DEF patchStatus, cdVars, cmVars, outside
<1>2. InHand /\ Sound(my, ran) /\ queued \in BOOLEAN
  BY Found
<1>3. InHand' /\ queued' \in BOOLEAN
  <2>1. PICK requeue \in BOOLEAN : Return(requeue)
    BY DEF patchStatus
  <2> QED
    BY <1>2, <2>1, ReturnStep
<1>4. Stored'
  <2>1. CASE UNCHANGED <<svc, watch>>
    BY <1>1, <2>1, StoredKept DEF IInv, Stored
  <2>2. CASE Store(my)
    BY <1>1, <1>2, <2>2, StoreStep DEF IInv
  <2> QED
    BY <2>1, <2>2 DEF patchStatus, api
<1>5. Pipeline'
  BY <1>1, PipelineKept DEF IInv
<1>6. Around'
  <2>1. cooling' \in BOOLEAN
    BY DEF patchStatus, IInv, Around
  <2> QED
    BY <1>1, <1>3, <2>1 DEF IInv, Around, git
<1> QED
  BY <1>3, <1>4, <1>5, <1>6 DEF IInv

\* A step in which Service and reconcile rest.
LEMMA RestStep ==
  ASSUME IInv, UNCHANGED <<svc, watch, cache, local>>, ran \subseteq ran', ran' \subseteq Nat
  PROVE  Stored' /\ InHand'
<1>1. Stored'
  BY StoredKept DEF IInv
<1>2. InHand'
  BY InHandKept DEF IInv, InHand, local
<1> QED
  BY <1>1, <1>2

\* A fault is one that the plan allows, and leaves a plan.
LEMMA FaultStep ==
  ASSUME NEW kind, Fault(kind), plan \in Plan
  PROVE  plan' \in Plan
BY DEF Fault, Plan

\* The pause ends, or an informer delivers.
LEMMA WakeStep ==
  ASSUME IInv, PauseEnds \/ CacheSync \/ CICacheSync \/ CDCacheSync \/ CMCacheSync
  PROVE  IInv'
<1>1. UNCHANGED <<svc, ci, cd, ran, cms, head, newest, ready, plan, local>>
  BY DEF PauseEnds, CacheSync, CICacheSync, CDCacheSync, CMCacheSync, api, ciVars, cdVars, cmVars,
         outside, git
<1>2. cooling' \in BOOLEAN /\ queued' \in BOOLEAN
  BY DEF IInv, Around, PauseEnds, CacheSync, CICacheSync, CDCacheSync, CMCacheSync
<1>3. cmCache' \subseteq Nat
  BY DEF IInv, Around, PauseEnds, CacheSync, CICacheSync, CDCacheSync, CMCacheSync, cmVars
<1>4. Pipeline'
  BY <1>1 DEF IInv, Pipeline, PauseEnds, CacheSync, CICacheSync, CDCacheSync, CMCacheSync, ciVars, cdVars
<1>5. Stored'
  <2>1. CASE UNCHANGED <<watch, cache>>
    BY <1>1, <2>1, StoredKept DEF IInv, Stored
  <2>2. CASE CacheSync
    BY <1>1, <2>2, DeliverStep DEF CacheSync, IInv
  <2> QED
    BY <2>1, <2>2 DEF PauseEnds, CICacheSync, CDCacheSync, CMCacheSync, api
<1>6. InHand'
  BY <1>1, InHandKept DEF IInv, InHand, local
<1>7. Around'
  BY <1>1, <1>2, <1>3 DEF IInv, Around
<1> QED
  BY <1>4, <1>5, <1>6, <1>7 DEF IInv

\* The CI controller builds, fails, or lets go of a CI being deleted; the CI
\* that is stored is a CI.
LEMMA CITurnsStep ==
  ASSUME IInv, CIStarts \/ CISucceeds \/ CIBuildFails \/ CIGoes \/ DeleteCI
  PROVE  IInv'
<1>1. /\ UNCHANGED <<svc, watch, cache, ciCache, cdCache, ran, cms, cmCache, head, newest, ready,
                      cooling, queued, local>>
      /\ plan' \in Plan
  BY FaultStep DEF IInv, Around, CIStarts, CISucceeds, CIBuildFails, CIGoes, DeleteCI, api, cdVars,
                   cmVars, outside, git
<1>2. ci \in CI /\ cache.gen \in Nat /\ Shown(cd, ran)
  BY DEF IInv, Pipeline, Stored, Sound, Version
<1>3. PICK c \in CI : StoreCI(c)
  <2>1. CASE CIStarts
    <3>1. [ci EXCEPT !.phase = "Building", !.new = FALSE] \in CI
      BY <1>2 DEF CI
    <3> QED
      BY <2>1, <3>1 DEF CIStarts
  <2>2. CASE CISucceeds
    <3>1. ci.rev \in Nat
      BY <1>2 DEF CI
    <3>2. [ci EXCEPT !.phase = "Succeeded", !.built = ci.rev] \in CI
      BY <1>2, <3>1 DEF CI
    <3> QED
      BY <2>2, <3>2 DEF CISucceeds
  <2>3. CASE CIBuildFails
    <3>1. [ci EXCEPT !.phase = "Failed"] \in CI
      BY <1>2 DEF CI
    <3> QED
      BY <2>3, <3>1 DEF CIBuildFails
  <2>4. CASE CIGoes
    BY <2>4, NothingSound DEF CIGoes
  <2>5. CASE DeleteCI
    <3>1. [ci EXCEPT !.life = "deleting"] \in CI
      BY <1>2 DEF CI
    <3> QED
      BY <2>5, <3>1 DEF DeleteCI
  <2> QED
    BY <2>1, <2>2, <2>3, <2>4, <2>5
<1>4. Shown(cd', ran)
  <2>1. CASE cd' = cd
    BY <1>2, <2>1
  <2>2. CASE CISucceeds
    <3>1. cd' = [cd EXCEPT !.on = TRUE, !.conf = cache.gen]
      BY <2>2 DEF CISucceeds
    <3>2. cd \in CD /\ cd' \in CD /\ cd'.phase = cd.phase /\ cd'.rev = cd.rev
      BY <1>2, <3>1 DEF Shown, CD
    <3> QED
      BY <1>2, <3>2 DEF Shown
  <2>3. CASE CIGoes
    BY <2>3, NothingSound DEF CIGoes
  <2> QED
    BY <2>1, <2>2, <2>3 DEF CIStarts, CIBuildFails, DeleteCI, cdVars
<1>5. Pipeline'
  BY <1>1, <1>3, <1>4 DEF IInv, Pipeline, StoreCI
<1>6. Stored' /\ InHand'
  BY <1>1, RestStep DEF IInv, Stored
<1>7. Around'
  BY <1>1 DEF IInv, Around
<1> QED
  BY <1>5, <1>6, <1>7 DEF IInv

\* A rollout ends: what runs is remembered, and the CD shows it.
LEMMA RolloutStep == ASSUME IInv, CDRuns \/ CDFails PROVE IInv'
<1>1. /\ UNCHANGED <<svc, watch, cache, ciVars, cdCache, cms, cmCache, head, newest, ready,
                      cooling, queued, local>>
      /\ plan' \in Plan
  BY FaultStep DEF IInv, Around, CDRuns, CDFails, api, cmVars, outside, git
<1>2. ci.built \in Nat /\ Shown(cd, ran) /\ ran \subseteq Nat
  BY DEF IInv, Pipeline, Stored, CI
<1>3. /\ ran \subseteq ran' /\ ran' \subseteq Nat
      /\ cd'.phase = "Running" => cd'.rev \in ran'
      /\ cd' \in CD
  <2>1. CASE CDRuns
    <3>1. cd' = [cd EXCEPT !.phase = "Running", !.rev = ci.built] /\ ran' = ran \cup {ci.built}
      BY <2>1 DEF CDRuns
    <3>2. cd' \in CD /\ cd'.rev = ci.built
      BY <1>2, <3>1 DEF Shown, CD
    <3> QED
      BY <1>2, <3>1, <3>2
  <2>2. CASE CDFails
    <3>1. cd' = [cd EXCEPT !.phase = "Failed", !.rev = ci.built] /\ ran' = ran
      BY <2>2 DEF CDFails
    <3>2. cd' \in CD /\ cd'.phase = "Failed"
      BY <1>2, <3>1 DEF Shown, CD
    <3> QED
      BY <1>2, <3>1, <3>2
  <2> QED
    BY <2>1, <2>2
<1>4. Shown(cd', ran')
  BY <1>3 DEF Shown
<1>5. Shown(cdCache, ran')
  BY <1>3, SoundGrows DEF IInv, Pipeline
<1>6. Pipeline'
  BY <1>1, <1>4, <1>5 DEF IInv, Pipeline, ciVars
<1>7. Stored' /\ InHand'
  BY <1>1, <1>3, RestStep
<1>8. Around'
  BY <1>1 DEF IInv, Around
<1> QED
  BY <1>6, <1>7, <1>8 DEF IInv

\* What a deleted Service owned is collected.
LEMMA CollectStep == ASSUME IInv, GarbageCollect PROVE IInv'
<1>1. /\ UNCHANGED <<svc, watch, cache, ciCache, cd, cdCache, ran, cmCache, head, newest, ready,
                      plan, cooling, queued, local>>
      /\ cms' = {}
  BY DEF GarbageCollect, api, cdVars, outside, git
<1>2. ci' \in CI /\ ciFresh' \in BOOLEAN
  <2>1. ci \in CI /\ ciFresh \in BOOLEAN
    BY DEF IInv, Pipeline
  <2>2. [ci EXCEPT !.life = "deleting"] \in CI
    BY <2>1 DEF CI
  <2> QED
    BY <2>1, <2>2 DEF GarbageCollect, StoreCI
<1>3. Pipeline'
  BY <1>1, <1>2 DEF IInv, Pipeline
<1>4. Stored' /\ InHand'
  BY <1>1, RestStep DEF IInv, Stored
<1>5. Around'
  BY <1>1 DEF IInv, Around
<1> QED
  BY <1>3, <1>4, <1>5 DEF IInv

\* The branch moves on, or back.
LEMMA BranchStep == ASSUME IInv, Push \/ ForcePush PROVE IInv'
<1>1. /\ UNCHANGED <<svc, watch, cache, ciVars, cd, cdCache, ran, cms, cmCache, ready, cooling,
                      queued, local>>
      /\ plan' \in Plan
  BY FaultStep DEF IInv, Around, Push, ForcePush, api, cdVars, cmVars
<1>2. newest \in 1 .. MaxCommits /\ MaxCommits \in Nat /\ plan.commits \in 1 .. MaxCommits
  BY BoundsAssumption DEF IInv, Around, Plan, Commits
<1>3. newest' \in Commits /\ head' \in 1 .. newest'
  <2>1. CASE Push
    BY <1>2, <2>1 DEF Push, Commits
  <2>2. CASE ForcePush
    BY <1>2, <2>2 DEF ForcePush, Commits
  <2> QED
    BY <2>1, <2>2
<1>4. Pipeline'
  BY <1>1, PipelineKept DEF IInv
<1>5. Stored' /\ InHand'
  BY <1>1, RestStep DEF IInv, Stored
<1>6. Around'
  BY <1>1, <1>3 DEF IInv, Around
<1> QED
  BY <1>4, <1>5, <1>6 DEF IInv

\* Somebody else writes the Service: its spec, a label, or its deletion.
LEMMA OthersStep == ASSUME IInv, EditSpec \/ Refresh \/ DeleteService PROVE IInv'
<1>1. /\ UNCHANGED <<cache, ciVars, cd, cdCache, ran, cms, cmCache, head, newest, ready, cooling,
                      queued>>
      /\ plan' \in Plan
  BY FaultStep DEF IInv, Around, EditSpec, Refresh, DeleteService, cdVars, cmVars, outside, git
<1>2. svc \in Version /\ Sound(svc, ran)
  BY DEF IInv, Stored, Sound
<1>3. PICK v : Sound(v, ran) /\ OthersStore(v)
  <2>1. CASE EditSpec
    <3>1. PICK valid \in BOOLEAN : OthersStore([svc EXCEPT !.gen = svc.gen + 1, !.valid = valid])
      BY <2>1 DEF EditSpec
    <3> DEFINE v == [svc EXCEPT !.gen = svc.gen + 1, !.valid = valid]
    <3>2. valid \in BOOLEAN /\ svc.gen + 1 \in Nat
      BY <1>2, <3>1 DEF Version
    <3>3. v \in Version /\ v.phase = svc.phase /\ v.latest = svc.latest
      BY <1>2, <3>2 DEF Version
    <3>4. Sound(v, ran)
      BY <1>2, <3>3 DEF Sound
    <3> HIDE DEF v
    <3>5. OthersStore(v)
      BY <3>1 DEF v
    <3> QED
      BY <3>4, <3>5
  <2>2. CASE Refresh
    BY <1>2, <2>2 DEF Refresh
  <2>3. CASE DeleteService
    <3> DEFINE v == [svc EXCEPT !.life = "deleting"]
    <3>1. v \in Version /\ v.phase = svc.phase /\ v.latest = svc.latest
      BY <1>2 DEF Version
    <3>2. Sound(v, ran)
      BY <1>2, <3>1 DEF Sound
    <3> HIDE DEF v
    <3>3. OthersStore(v)
      BY <2>3 DEF DeleteService, v
    <3> QED
      BY <3>2, <3>3
  <2> QED
    BY <2>1, <2>2, <2>3
<1>4. Stored'
  BY <1>1, <1>3, StoreStep DEF OthersStore, IInv
<1>5. InHand'
  BY <1>1, <1>3, InHandKept DEF OthersStore, IInv
<1>6. Pipeline'
  BY <1>1, PipelineKept DEF IInv
<1>7. Around'
  BY <1>1 DEF IInv, Around
<1> QED
  BY <1>4, <1>5, <1>6, <1>7 DEF IInv

\* A need breaks or is met again.
LEMMA NeedStep ==
  ASSUME IInv, NEW need \in Needs, Break(need) \/ Repair(need) PROVE IInv'
<1>1. /\ UNCHANGED <<svc, watch, cache, ciVars, cd, cdCache, ran, cms, cmCache, head, newest,
                      cooling, queued, local>>
      /\ plan' \in Plan
  BY FaultStep DEF IInv, Around, Break, Repair, api, cdVars, cmVars, git
<1>2. ready' \subseteq Needs
  BY DEF IInv, Around, Break, Repair
<1>3. Pipeline'
  BY <1>1, PipelineKept DEF IInv
<1>4. Stored' /\ InHand'
  BY <1>1, RestStep DEF IInv, Stored
<1>5. Around'
  BY <1>1, <1>2 DEF IInv, Around
<1> QED
  BY <1>3, <1>4, <1>5 DEF IInv

\* A call to the API server fails.
LEMMA ApiErrorStep == ASSUME IInv, ApiError PROVE IInv'
<1>1. /\ UNCHANGED <<svc, watch, cache, ciVars, cd, cdCache, ran, cms, cmCache, head, newest, ready,
                      cooling>>
      /\ plan' \in Plan
  BY FaultStep DEF IInv, Around, ApiError, api, cdVars, cmVars, git
<1>2. InHand /\ Sound(my, ran) /\ queued \in BOOLEAN
  BY Found
<1>3. InHand' /\ queued' \in BOOLEAN
  <2>1. CASE \E reason \in OwnReasons : Fail(my, reason) /\ queued' = queued
    BY <1>1, <1>2, <2>1, FailStep
  <2>2. CASE Return(TRUE)
    BY <1>2, <2>2, ReturnStep
  <2>3. {"DockerfileFailed", "CIInitFailed"} \subseteq OwnReasons
    BY DEF OwnReasons
  <2> QED
    BY <2>1, <2>2, <2>3 DEF ApiError
<1>4. Pipeline'
  BY <1>1, PipelineKept DEF IInv
<1>5. Stored'
  BY <1>1, StoredKept DEF IInv, Stored
<1>6. Around'
  BY <1>1, <1>3 DEF IInv, Around
<1> QED
  BY <1>3, <1>4, <1>5, <1>6 DEF IInv

\* The operator crashes: what was in hand is lost, and the caches are read anew.
LEMMA CrashStep == ASSUME IInv, Crash PROVE IInv'
<1>1. /\ UNCHANGED <<svc, ci, cd, ran, cms, head, newest, ready, cooling>>
      /\ cache' = svc /\ watch' = <<>> /\ ciCache' = ci /\ ciFresh' = TRUE /\ cdCache' = cd
      /\ cmCache' = cms /\ queued' = TRUE
  BY DEF Crash, git
<1>2. plan' \in Plan
  BY FaultStep DEF IInv, Around, Crash
<1>3. Stored'
  BY <1>1 DEF IInv, Stored
<1>4. InHand'
  BY IdleStep DEF Crash
<1>5. Pipeline'
  BY <1>1 DEF IInv, Pipeline
<1>6. Around'
  BY <1>1, <1>2 DEF IInv, Around
<1> QED
  BY <1>3, <1>4, <1>5, <1>6 DEF IInv

\* Every step keeps the invariant.
LEMMA NextIInv == ASSUME IInv, [Next]_vars PROVE IInv'
<1>1. CASE ControllerStep
  BY <1>1, ReconcileStep, FinalizerStep, ResolveStep, DiscoverStep, DockerfileStep, CIStep, SyncStep,
     PatchStep DEF ControllerStep
<1>2. CASE PauseEnds \/ CacheSync \/ CICacheSync \/ CDCacheSync \/ CMCacheSync
  BY <1>2, WakeStep
<1>3. CASE CIStarts \/ CISucceeds \/ CIBuildFails \/ CIGoes \/ DeleteCI
  BY <1>3, CITurnsStep
<1>4. CASE CDRuns \/ CDFails \/ GarbageCollect
  BY <1>4, RolloutStep, CollectStep
<1>5. CASE Push \/ ForcePush
  BY <1>5, BranchStep
<1>6. CASE EditSpec \/ Refresh \/ DeleteService
  BY <1>6, OthersStep
<1>7. CASE ApiError \/ Crash
  BY <1>7, ApiErrorStep, CrashStep
<1>8. CASE \E need \in Needs : Break(need) \/ Repair(need)
  BY <1>8, NeedStep
<1>9. CASE UNCHANGED vars
  <2>1. UNCHANGED <<svc, watch, cache, ciVars, cdVars, git, ready, plan, cooling, cms, cmCache,
                    queued, local>>
    BY <1>9 DEF vars, ciVars, cdVars, git, local
  <2>2. InHand'
    BY <2>1, RestStep DEF IInv, Stored, cdVars
  <2> QED
    BY <2>1, <2>2, Found, LocalStep
<1> QED
  BY <1>1, <1>2, <1>3, <1>4, <1>5, <1>6, <1>7, <1>8, <1>9 DEF Next

-----------------------------------------------------------------------------
(* The theorems.                                                           *)

\* In every reachable state every copy of the Service (at the API server, on
\* its way to the informer, in its cache, in the hand of a reconcile) says
\* Ready only of a commit that ran, and every copy of the CD says Running only
\* of such a commit.
THEOREM ServiceInvariant == Spec => []IInv
BY InitIInv, NextIInv, PTL DEF Spec

\* The variables have their types.
THEOREM ServiceTypeCorrect == Spec => []TypeOK
<1>1. IInv => TypeOK
  <2> SUFFICES ASSUME IInv PROVE TypeOK
    OBVIOUS
  <2>1. {head, newest} \subseteq Commits
    BY BoundsAssumption DEF IInv, Around, Commits
  <2>2. {svc, cache, my} \subseteq Version /\ watch \in Seq(Version)
    BY DEF IInv, Stored, InHand, Sound
  <2>3. {ci, ciCache} \subseteq CI /\ {cd, cdCache} \subseteq CD
    BY DEF IInv, Pipeline, Shown
  <2>4. /\ cms \subseteq Nat /\ cmCache \subseteq Nat /\ ran \subseteq Nat
        /\ ready \subseteq Needs /\ plan \in Plan
    BY DEF IInv, Stored, Around
  <2>5. {cooling, queued, mine, ciFresh} \subseteq BOOLEAN
    BY DEF IInv, InHand, Pipeline, Around
  <2>6. pc \in Labels /\ target \in Nat /\ file \in Nat
    BY DEF IInv, InHand
  <2> QED
    BY <2>1, <2>2, <2>3, <2>4, <2>5, <2>6 DEF TypeOK, Labels
<1> QED
  BY <1>1, ServiceInvariant, PTL

\* A Service is never Ready with a commit that no CD has reported Running.
THEOREM RanTheorem == Spec => []ReadyMeansRan
<1>1. IInv => ReadyMeansRan
  BY DEF IInv, Stored, Sound, ReadyMeansRan
<1> QED
  BY <1>1, ServiceInvariant, PTL

-----------------------------------------------------------------------------
(* Rest.  A reconcile may decide on a stale copy, be overtaken by another  *)
(* client's write, conflict, or find the Service in its pause.  None of    *)
(* these ways to stop may be the last, unless nothing is left to do.       *)

\* What the watch delivers ends with the Service.
WatchEnds == IF watch = <<>> THEN cache = svc ELSE watch[Len(watch)] = svc

\* A copy that says it failed gives a reason; that its source is invalid, it
\* says of its own spec just if that is so.
Judged(v) ==
  /\ v.observed <= v.gen
  /\ v.reason = "InvalidSource" => v.phase = "Failed"
  /\ v.phase = "Failed" => v.reason # "unset"
  /\ v.phase = "Failed" /\ v.observed = v.gen => (v.reason = "InvalidSource" <=> ~ v.valid)

AllJudged ==
  Judged(svc) /\ Judged(cache) /\ \A i \in DOMAIN watch : Judged(watch[i])

\* A reconcile gets past the validation with a valid copy only, and past the
\* look at the branch without an old verdict; a verdict that it writes over the
\* Service is a new one, so the write comes back through the watch.
Working ==
  /\ Judged(my)
  /\ pc \in Labels \ {"idle", "finalizer", "patchStatus"} => my.valid
  /\ pc \in Labels \ {"idle", "finalizer", "resolve", "patchStatus"} => my.reason # "InvalidSource"
  /\ pc = "patchStatus" /\ mine /\ my.reason = "InvalidSource" => my # svc

RInv == WatchEnds /\ AllJudged /\ Working /\ PollingGoesOn

\* No version claims nothing.
LEMMA NothingJudged == Judged(NoVersion)
BY DEF Judged, NoVersion

\* What the status functions write: a failure of its own judges the spec, any
\* other status none.
LEMMA StatusJudged ==
  ASSUME NEW v \in Version, Judged(v)
  PROVE  /\ \A reason \in OwnReasons :
              (reason = "InvalidSource" <=> ~ v.valid) =>
                /\ Judged(markFailed(v, reason)) /\ markFailed(v, reason).reason = reason
                /\ markFailed(v, reason).phase = "Failed"
                /\ markFailed(v, reason).observed = v.gen
         /\ \A phase \in {"Discovering", "Building", "Ready"} :
              Judged(setPhase(v, phase)) /\ setPhase(v, phase).reason = "unset"
              /\ setPhase(v, phase).valid = v.valid
         /\ \A reason \in PipelineReasons :
              v.valid => Judged(setPipelineFailed(v, reason)) /\ setPipelineFailed(v, reason).reason = reason
<1>1. v.gen \in Nat /\ v.observed \in Nat /\ v.observed <= v.gen /\ v.valid \in BOOLEAN
  BY DEF Version, Judged
<1>2. ASSUME NEW reason \in OwnReasons, reason = "InvalidSource" <=> ~ v.valid
      PROVE  /\ Judged(markFailed(v, reason)) /\ markFailed(v, reason).reason = reason
             /\ markFailed(v, reason).phase = "Failed" /\ markFailed(v, reason).observed = v.gen
  <2> DEFINE w == markFailed(v, reason)
  <2>1. /\ w.gen = v.gen /\ w.observed = v.gen /\ w.valid = v.valid
        /\ w.phase = "Failed" /\ w.reason = reason
    BY DEF markFailed, Version
  <2>2. reason # "unset"
    BY DEF OwnReasons
  <2> HIDE DEF w
  <2>3. Judged(w)
    BY <1>1, <1>2, <2>1, <2>2 DEF Judged
  <2> QED
    BY <2>1, <2>3 DEF w
<1>3. ASSUME NEW phase \in {"Discovering", "Building", "Ready"}
      PROVE  /\ Judged(setPhase(v, phase)) /\ setPhase(v, phase).reason = "unset"
             /\ setPhase(v, phase).valid = v.valid
  <2> DEFINE w == setPhase(v, phase)
  <2>1. /\ w.gen = v.gen /\ w.observed = v.observed /\ w.valid = v.valid
        /\ w.phase = phase /\ w.reason = "unset"
    BY DEF setPhase, Version
  <2> HIDE DEF w
  <2>2. Judged(w)
    BY <1>1, <2>1 DEF Judged
  <2> QED
    BY <2>1, <2>2 DEF w
<1>4. ASSUME NEW reason \in PipelineReasons, v.valid
      PROVE  Judged(setPipelineFailed(v, reason)) /\ setPipelineFailed(v, reason).reason = reason
  <2> DEFINE w == setPipelineFailed(v, reason)
  <2>1. /\ w.gen = v.gen /\ w.observed = v.observed /\ w.valid = v.valid
        /\ w.phase = "Failed" /\ w.reason = reason
    BY DEF setPipelineFailed, Version
  <2>2. reason # "unset" /\ reason # "InvalidSource"
    BY DEF PipelineReasons
  <2> HIDE DEF w
  <2>3. Judged(w)
    BY <1>1, <1>4, <2>1, <2>2 DEF Judged
  <2> QED
    BY <2>1, <2>3 DEF w
<1> QED
  BY <1>2, <1>3, <1>4

\* The status at the end of a discovery judges nothing.
LEMMA DiscoveredJudged ==
  ASSUME NEW v \in Version, Judged(v), NEW commit \in Nat, NEW cm \in Nat
  PROVE  /\ Judged(Discovered(v, commit, cm)) /\ Discovered(v, commit, cm).reason = "unset"
         /\ Discovered(v, commit, cm).valid = v.valid
<1> DEFINE u == setPhase(v, "Building")
           w == [u EXCEPT !.latest = commit, !.cm = cm, !.ciRef = TRUE, !.observed = v.gen]
<1>1. v.gen \in Nat
  BY DEF Version
<1>2. u \in Version /\ u.gen = v.gen /\ u.valid = v.valid /\ u.phase = "Building" /\ u.reason = "unset"
  BY DEF setPhase, Version
<1> HIDE DEF u
<1>3. /\ w.gen = u.gen /\ w.valid = u.valid /\ w.phase = u.phase /\ w.reason = u.reason
      /\ w.observed = v.gen
  BY <1>2 DEF Version
<1> HIDE DEF w
<1>4. Discovered(v, commit, cm) = w
  BY DEF Discovered, w, u
<1> QED
  BY <1>1, <1>2, <1>3, <1>4 DEF Judged

\* Nor does the phase derived from CI and CD.
LEMMA PhaseJudged ==
  ASSUME NEW v \in Version, Judged(v), v.valid
  PROVE  Judged(setPipelinePhase(v)) /\ setPipelinePhase(v).reason # "InvalidSource"
<1>1. \/ \E phase \in {"Building", "Ready"} : setPipelinePhase(v) = setPhase(v, phase)
      \/ \E reason \in PipelineReasons : setPipelinePhase(v) = setPipelineFailed(v, reason)
  <2>1. {"CIFailed", "CDFailed"} \subseteq PipelineReasons
    BY DEF PipelineReasons
  <2>2. CASE ciCache.life = "none" \/ ciCache.rev # v.latest
    BY <2>2 DEF setPipelinePhase
  <2>3. CASE ~ (ciCache.life = "none" \/ ciCache.rev # v.latest)
    BY <2>1, <2>3, SMTT(20) DEF setPipelinePhase
  <2> QED
    BY <2>2, <2>3
<1>2. \A reason \in PipelineReasons : reason # "InvalidSource"
  BY DEF PipelineReasons
<1>3. \A phase \in {"Building", "Ready"} : phase \in {"Discovering", "Building", "Ready"}
  OBVIOUS
<1> QED
  BY <1>1, <1>2, <1>3, StatusJudged

\* A version under way more is another watch.
LEMMA AppendGrows ==
  ASSUME NEW v \in Version, NEW list \in Seq(Version)
  PROVE  Append(list, v) # list
<1>1. Len(Append(list, v)) = Len(list) + 1 /\ Len(list) \in Nat
  OBVIOUS
<1> QED
  BY <1>1

\* A write of the Service is the last version under way.
LEMMA StoreEnds ==
  ASSUME IInv, AllJudged, NEW v, Judged(v), Store(v), cache' = cache
  PROVE  WatchEnds' /\ AllJudged' /\ watch' # <<>>
<1>1. svc' = v /\ watch' = Append(watch, v) /\ watch \in Seq(Version) /\ v \in Version \cup {v}
  BY DEF Store, IInv, Stored
<1>2. watch \in Seq(Version \cup {v})
  BY <1>1
<1>3. /\ Len(watch) \in Nat /\ Len(watch') = Len(watch) + 1 /\ watch' # <<>>
      /\ DOMAIN watch = 1 .. Len(watch) /\ DOMAIN watch' = 1 .. Len(watch) + 1
      /\ watch'[Len(watch) + 1] = v /\ \A i \in 1 .. Len(watch) : watch'[i] = watch[i]
  BY <1>1, <1>2
<1>4. WatchEnds'
  BY <1>1, <1>3 DEF WatchEnds
<1>5. ASSUME NEW i \in DOMAIN watch' PROVE Judged(watch'[i])
  <2>1. CASE i \in DOMAIN watch
    BY <1>3, <2>1 DEF AllJudged
  <2>2. CASE i = Len(watch) + 1
    BY <1>3, <2>2
  <2> QED
    BY <1>3, <2>1, <2>2
<1>6. AllJudged'
  BY <1>1, <1>5 DEF AllJudged
<1> QED
  BY <1>3, <1>4, <1>6

\* The informer's copy moves to the next version, or it is the Service.
LEMMA DeliverEnds ==
  ASSUME IInv, WatchEnds, AllJudged, watch # <<>>,
         cache' = Head(watch), watch' = Tail(watch), svc' = svc
  PROVE  WatchEnds' /\ AllJudged'
<1>1. /\ watch \in Seq(Version) /\ DOMAIN watch = 1 .. Len(watch) /\ Len(watch) \in Nat
      /\ Len(watch) > 0 /\ cache' = watch[1] /\ Len(watch') = Len(watch) - 1
      /\ DOMAIN watch' = 1 .. Len(watch) - 1 /\ watch' \in Seq(Version)
      /\ \A i \in DOMAIN watch' : watch'[i] = watch[i + 1]
  BY DEF IInv, Stored
<1>2. 1 \in DOMAIN watch /\ \A i \in DOMAIN watch' : i + 1 \in DOMAIN watch
  BY <1>1
<1>3. AllJudged'
  BY <1>1, <1>2 DEF AllJudged
<1>4. WatchEnds'
  <2>1. CASE Len(watch) = 1
    BY <1>1, <2>1 DEF WatchEnds
  <2>2. CASE Len(watch) > 1
    <3>1. Len(watch) - 1 \in DOMAIN watch' /\ watch' # <<>>
      BY <1>1, <2>2
    <3> QED
      BY <1>1, <2>2, <3>1 DEF WatchEnds
  <2> QED
    BY <1>1, <2>1, <2>2
<1> QED
  BY <1>3, <1>4

\* While the watch rests, so does what it says.
LEMMA EndsKept ==
  ASSUME WatchEnds, AllJudged, UNCHANGED <<svc, watch, cache>>
  PROVE  WatchEnds' /\ AllJudged'
BY DEF WatchEnds, AllJudged

\* A reconcile that is over claims nothing.
LEMMA ReturnWorks == ASSUME pc' = "idle", my' = NoVersion PROVE Working'
BY NothingJudged DEF Working

\* On with the reconcile, which neither rests nor ends.
LEMMA GotoWorks ==
  ASSUME NEW label, NEW v, Goto(label, v), Judged(v),
         label \in {"finalizer", "resolve", "clone", "ensureDockerfile", "pruneDockerfiles",
                    "ensureCI", "syncCD", "patchStatus"},
         label \notin {"finalizer", "patchStatus"} => v.valid,
         label \notin {"finalizer", "resolve"} => v.reason # "InvalidSource"
  PROVE  Working' /\ PollingGoesOn'
<1>1. pc' = label /\ my' = v /\ label # "idle"
  BY DEF Goto
<1> QED
  BY <1>1 DEF Working, PollingGoesOn, Labels

\* A failure of a valid Service.
LEMMA FailWorks ==
  ASSUME NEW v \in Version, Judged(v), v.valid,
         NEW reason \in OwnReasons \ {"InvalidSource"}, Fail(v, reason)
  PROVE  Working' /\ PollingGoesOn'
<1>1. Goto("patchStatus", markFailed(v, reason))
  BY DEF Fail
<1>2. Judged(markFailed(v, reason)) /\ markFailed(v, reason).reason # "InvalidSource"
  BY StatusJudged
<1> QED
  BY <1>1, <1>2, GotoWorks

\* What a reconcile has in hand.
LEMMA HeldCopy ==
  ASSUME IInv, RInv
  PROVE  /\ my \in Version /\ Judged(my) /\ cache \in Version /\ Judged(cache)
         /\ svc \in Version /\ Judged(svc) /\ target \in Nat /\ file \in Nat /\ mine \in BOOLEAN
         /\ pc \in {"clone", "ensureDockerfile", "pruneDockerfiles", "ensureCI", "syncCD"} =>
              my.valid /\ my.reason # "InvalidSource"
         /\ pc = "resolve" => my.valid
BY DEF IInv, RInv, Stored, InHand, Sound, AllJudged, Working, Labels

\* The initial state.
LEMMA InitRInv == Init => RInv
<1> SUFFICES ASSUME Init PROVE RInv
  OBVIOUS
<1>1. PICK valid \in BOOLEAN : svc = [NoVersion EXCEPT !.gen = 1, !.life = "new", !.valid = valid]
  BY DEF Init
<1>2. Judged(svc)
  BY <1>1 DEF NoVersion, Judged
<1>3. cache = svc /\ watch = <<>> /\ queued = TRUE /\ pc = "idle" /\ my = NoVersion
  BY DEF Init
<1> QED
  BY <1>2, <1>3, NothingJudged DEF RInv, WatchEnds, AllJudged, Working, PollingGoesOn

\* A reconcile that stops at once has found nothing to do, or a Service in its
\* pause; if its copy was stale, the watch has more to deliver.
LEMMA ReconcileRests == ASSUME IInv, RInv, Reconcile PROVE RInv'
<1>1. UNCHANGED <<svc, watch, cache, cooling>> /\ queued' = FALSE /\ pc = "idle" /\ ReadAndDecide(cache)
  BY DEF Reconcile, api
<1>2. cache \in Version /\ Judged(cache)
  BY HeldCopy
<1>3. WatchEnds' /\ AllJudged'
  BY <1>1, EndsKept DEF RInv
<1>4. Working' /\ PollingGoesOn'
  <2>1. CASE UNCHANGED local
    <3>1. Working'
      BY <1>1, <2>1 DEF local, RInv, Working
    <3>2. ASSUME watch = <<>> PROVE PollingGoesOn'
      <4>1. cache = svc
        BY <3>2 DEF RInv, WatchEnds
      <4>2. /\ svc.phase = "Failed" /\ svc.reason \notin PipelineReasons
            => svc.reason \in OwnReasons
        BY <1>2, <4>1 DEF Version, Judged
      <4>3. \/ svc.life = "gone"
            \/ /\ svc.life = "live" /\ ~ svc.valid /\ svc.phase = "Failed" /\ ~ specChanged(svc)
            \/ /\ svc.life = "live" /\ svc.valid /\ mustWait(svc)
        <5>1. pc' = "idle"
          BY <1>1, <2>1 DEF local
        <5>2. svc.life \in {"new", "live", "deleting", "gone"}
          BY <1>2, <4>1 DEF Version
        <5> QED
          BY <1>1, <4>1, <5>1, <5>2 DEF ReadAndDecide, Goto, Fail
      <4>4. CASE svc.life = "live" /\ ~ svc.valid /\ svc.phase = "Failed" /\ ~ specChanged(svc)
        BY <1>1, <1>2, <4>1, <4>4 DEF PollingGoesOn, specChanged, Judged
      <4>5. CASE svc.life = "live" /\ svc.valid /\ mustWait(svc)
        BY <1>1, <1>2, <4>1, <4>2, <4>5
          DEF PollingGoesOn, mustWait, pipelineFailure, specChanged, Judged
      <4> QED
        BY <1>1, <4>3, <4>4, <4>5 DEF PollingGoesOn
    <3>3. watch # <<>> => PollingGoesOn'
      BY <1>1 DEF PollingGoesOn
    <3> QED
      BY <3>1, <3>2, <3>3
  <2>2. CASE Goto("finalizer", cache)
    BY <1>2, <2>2, GotoWorks
  <2>3. CASE cache.valid /\ \E reason \in {"SecretUnavailable", "PluginUnavailable"} : Fail(cache, reason)
    <3>1. {"SecretUnavailable", "PluginUnavailable"} \subseteq OwnReasons \ {"InvalidSource"}
      BY DEF OwnReasons
    <3> QED
      BY <1>2, <2>3, <3>1, FailWorks
  <2>4. CASE cache.valid /\ Goto("resolve", cache)
    BY <1>2, <2>4, GotoWorks
  <2>5. CASE ~ cache.valid /\ (cache.phase # "Failed" \/ specChanged(cache)) /\ Fail(cache, "InvalidSource")
    <3> DEFINE w == markFailed(cache, "InvalidSource")
    <3>1. "InvalidSource" \in OwnReasons
      BY DEF OwnReasons
    <3>2. Judged(w) /\ w.phase = "Failed" /\ w.observed = cache.gen
      BY <1>2, <2>5, <3>1, StatusJudged
    <3>3. w # cache
      BY <2>5, <3>2 DEF specChanged
    <3> HIDE DEF w
    <3>4. pc' = "patchStatus" /\ my' = w /\ mine' = (watch = <<>>)
      BY <1>1, <2>5 DEF Fail, Goto, w
    <3>5. mine' => my' # svc'
      BY <1>1, <3>3, <3>4 DEF RInv, WatchEnds
    <3> QED
      BY <3>2, <3>4, <3>5 DEF Working, PollingGoesOn, Labels
  <2> QED
    BY <1>1, <2>1, <2>2, <2>3, <2>4, <2>5 DEF ReadAndDecide
<1> QED
  BY <1>3, <1>4 DEF RInv

\* The update that takes the finalizer away is not queued, but seen.
LEMMA FinalizerRests == ASSUME IInv, RInv, UpdateFinalizer PROVE RInv'
<1>1. cache' = cache /\ pc' = "idle" /\ my' = NoVersion
  BY DEF UpdateFinalizer, Return
<1>2. Working'
  BY <1>1, ReturnWorks
<1>3. CASE UNCHANGED api /\ queued' = TRUE
  <2>1. WatchEnds' /\ AllJudged'
    BY <1>1, <1>3, EndsKept DEF RInv, api
  <2> QED
    BY <1>2, <1>3, <2>1 DEF RInv, PollingGoesOn
<1>4. CASE \E life \in {"live", "gone"} : Store([svc EXCEPT !.life = life])
  <2>1. PICK life \in {"live", "gone"} : Store([svc EXCEPT !.life = life])
    BY <1>4
  <2> DEFINE v == [svc EXCEPT !.life = life]
  <2>2. svc \in Version /\ Judged(svc)
    BY HeldCopy
  <2>3. /\ v.gen = svc.gen /\ v.observed = svc.observed /\ v.valid = svc.valid
        /\ v.phase = svc.phase /\ v.reason = svc.reason
    BY <2>2 DEF Version
  <2> HIDE DEF v
  <2>4. Judged(v) /\ Store(v)
    <3>1. Judged(v)
      BY <2>2, <2>3 DEF Judged
    <3> QED
      BY <2>1, <3>1 DEF v
  <2>5. WatchEnds' /\ AllJudged' /\ watch' # <<>>
    BY <1>1, <2>4, StoreEnds DEF RInv
  <2> QED
    BY <1>2, <2>5 DEF RInv, PollingGoesOn
<1> QED
  BY <1>3, <1>4 DEF UpdateFinalizer, Return

\* The calls between: each goes on with a valid copy, or gives up for now and
\* leaves the key in the queue.
LEMMA CallsRest ==
  ASSUME IInv, RInv,
         \/ ResolveRevision \/ Discover \/ ensureDockerfile \/ pruneDockerfiles
         \/ ensureCI \/ syncCD
  PROVE  RInv'
<1>1. UNCHANGED <<svc, watch, cache>>
  BY DEF ResolveRevision, Discover, ensureDockerfile, pruneDockerfiles, ensureCI, syncCD, api
<1>2. WatchEnds' /\ AllJudged'
  BY <1>1, EndsKept DEF RInv
<1>3. my \in Version /\ Judged(my) /\ my.valid /\ target \in Nat /\ file \in Nat
  BY HeldCopy DEF ResolveRevision, Discover, ensureDockerfile, pruneDockerfiles, ensureCI, syncCD
<1>4. pc # "resolve" => my.reason # "InvalidSource"
  BY HeldCopy DEF ResolveRevision, Discover, ensureDockerfile, pruneDockerfiles, ensureCI, syncCD
<1>5. {"RevisionUnresolved", "DiscoveryFailed", "DockerfileFailed", "CIInitFailed"}
        \subseteq OwnReasons \ {"InvalidSource"}
  BY DEF OwnReasons
<1>6. CASE ResolveRevision
  <2>1. CASE Fail(my, "RevisionUnresolved")
    BY <1>2, <1>3, <1>5, <2>1, FailWorks DEF RInv
  <2>2. CASE Goto("clone", setPhase(my, "Discovering"))
    BY <1>2, <1>3, <2>2, StatusJudged, GotoWorks DEF RInv
  <2>3. CASE ~ mustDiscover(my) /\ \E label \in {"patchStatus", "ensureCI"} : Goto(label, my)
    <3>1. my.reason # "InvalidSource"
      BY <1>3, <2>3 DEF mustDiscover, specChanged, discovered, Judged, pipelineFailure, PipelineReasons
    <3> QED
      BY <1>2, <1>3, <2>3, <3>1, GotoWorks DEF RInv
  <2> QED
    BY <1>6, <2>1, <2>2, <2>3 DEF ResolveRevision
<1>7. CASE Discover
  <2>1. CASE Fail(my, "DiscoveryFailed")
    BY <1>2, <1>3, <1>5, <2>1, FailWorks DEF RInv
  <2>2. CASE Goto("ensureDockerfile", my)
    BY <1>2, <1>3, <1>4, <1>7, <2>2, GotoWorks DEF RInv, Discover
  <2> QED
    BY <1>7, <2>1, <2>2 DEF Discover
<1>8. CASE ensureDockerfile \/ pruneDockerfiles
  <2>1. CASE Fail(my, "DockerfileFailed")
    BY <1>2, <1>3, <1>5, <2>1, FailWorks DEF RInv
  <2>2. CASE \E label \in {"pruneDockerfiles", "ensureCI"} : Goto(label, my)
    <3>1. my.reason # "InvalidSource"
      BY <1>4, <1>8 DEF ensureDockerfile, pruneDockerfiles
    <3> QED
      BY <1>2, <1>3, <2>2, <3>1, GotoWorks DEF RInv
  <2> QED
    BY <1>8, <2>1, <2>2 DEF ensureDockerfile, pruneDockerfiles
<1>9. CASE ensureCI
  <2>1. my.reason # "InvalidSource"
    BY <1>4, <1>9 DEF ensureCI
  <2>2. CASE Goto("syncCD", IF target # 0 THEN Discovered(my, target, file) ELSE my)
    <3> DEFINE v == IF target # 0 THEN Discovered(my, target, file) ELSE my
    <3>1. Judged(v) /\ v.valid /\ v.reason # "InvalidSource"
      BY <1>3, <2>1, DiscoveredJudged
    <3> HIDE DEF v
    <3>2. Goto("syncCD", v)
      BY <2>2 DEF v
    <3> QED
      BY <1>2, <3>1, <3>2, GotoWorks DEF RInv
  <2>3. CASE Return(TRUE)
    BY <1>2, <2>3, ReturnWorks DEF RInv, Return, PollingGoesOn
  <2>4. CASE \E v \in {markFailed(my, "CIInitFailed"), my} : Goto("patchStatus", v)
    <3>1. \A v \in {markFailed(my, "CIInitFailed"), my} : Judged(v) /\ v.reason # "InvalidSource"
      BY <1>3, <1>5, <2>1, StatusJudged
    <3> QED
      BY <1>2, <2>4, <3>1, GotoWorks DEF RInv
  <2> QED
    BY <1>9, <2>2, <2>3, <2>4 DEF ensureCI, CIFails
<1>10. CASE syncCD
  <2>1. Goto("patchStatus", setPipelinePhase(my))
    BY <1>10 DEF syncCD
  <2> QED
    BY <1>2, <1>3, <2>1, PhaseJudged, GotoWorks DEF RInv
<1> QED
  BY <1>6, <1>7, <1>8, <1>9, <1>10

\* The patch that refuses the Service is the only one after which nothing is
\* queued; it changes the Service, so it is seen.
LEMMA PatchRests == ASSUME IInv, RInv, patchStatus PROVE RInv'
<1>1. cache' = cache /\ pc = "patchStatus" /\ pc' = "idle" /\ my' = NoVersion
  BY DEF patchStatus, Return
<1>2. Working'
  BY <1>1, ReturnWorks
<1>3. CASE UNCHANGED api
  <2>1. WatchEnds' /\ AllJudged'
    BY <1>1, <1>3, EndsKept DEF RInv, api
  <2>2. queued' = TRUE
    <3>1. CASE mine /\ my = svc
      <4>1. my.reason # "InvalidSource" /\ Return(my.reason # "InvalidSource")
        BY <1>1, <3>1 DEF RInv, Working, patchStatus
      <4> QED
        BY <4>1 DEF Return
    <3>2. CASE ~ mine
      BY <3>2 DEF patchStatus, Return
    <3>3. CASE mine /\ my # svc
      <4>1. watch' = Append(watch, my) /\ watch' = watch /\ watch \in Seq(Version) /\ my \in Version
        BY <1>3, <3>3, HeldCopy DEF patchStatus, Store, api, IInv, Stored
      <4>2. Append(watch, my) # watch
        BY <4>1, AppendGrows
      <4> QED
        BY <4>1, <4>2
    <3> QED
      BY <3>1, <3>2, <3>3
  <2> QED
    BY <1>2, <2>1, <2>2 DEF RInv, PollingGoesOn
<1>4. CASE Store(my)
  <2>1. WatchEnds' /\ AllJudged' /\ watch' # <<>>
    BY <1>1, <1>4, HeldCopy, StoreEnds DEF RInv
  <2> QED
    BY <1>2, <2>1 DEF RInv, PollingGoesOn
<1> QED
  BY <1>3, <1>4 DEF patchStatus

\* A timer or an informer wakes the reconciler; ConfigMaps wake nobody.
LEMMA WakeRests ==
  ASSUME IInv, RInv, PauseEnds \/ CacheSync \/ CICacheSync \/ CDCacheSync
  PROVE  RInv'
<1>1. queued' = TRUE /\ UNCHANGED <<svc, local>>
  BY DEF PauseEnds, CacheSync, CICacheSync, CDCacheSync, api
<1>2. PollingGoesOn' /\ Working'
  BY <1>1 DEF RInv, PollingGoesOn, Working, local
<1>3. CASE UNCHANGED <<watch, cache>>
  BY <1>1, <1>2, <1>3, EndsKept DEF RInv
<1>4. CASE CacheSync
  BY <1>1, <1>2, <1>4, DeliverEnds DEF RInv, CacheSync
<1> QED
  BY <1>3, <1>4 DEF PauseEnds, CacheSync, CICacheSync, CDCacheSync, api

\* Other steps do not touch the Service, its copies or its reconciler.
LEMMA AsideRests ==
  ASSUME RInv, UNCHANGED <<svc, watch, cache, cooling, queued, local>>
  PROVE  RInv'
<1>1. WatchEnds' /\ AllJudged'
  BY EndsKept DEF RInv
<1>2. Working'
  BY DEF RInv, Working, local
<1>3. PollingGoesOn'
  BY DEF RInv, PollingGoesOn, local
<1> QED
  BY <1>1, <1>2, <1>3 DEF RInv

\* A new spec has not been judged yet; and another's write takes the version
\* away from the reconcile.
LEMMA OthersRest == ASSUME IInv, RInv, EditSpec \/ Refresh \/ DeleteService PROVE RInv'
<1>1. UNCHANGED <<cache, pc, my>>
  BY DEF EditSpec, Refresh, DeleteService, OthersStore
<1>2. svc \in Version /\ Judged(svc)
  BY HeldCopy
<1>3. PICK v : Judged(v) /\ OthersStore(v)
  <2>1. CASE EditSpec
    <3>1. PICK valid \in BOOLEAN : OthersStore([svc EXCEPT !.gen = svc.gen + 1, !.valid = valid])
      BY <2>1 DEF EditSpec
    <3> DEFINE v == [svc EXCEPT !.gen = svc.gen + 1, !.valid = valid]
    <3>2. /\ v.gen = svc.gen + 1 /\ v.observed = svc.observed
          /\ v.phase = svc.phase /\ v.reason = svc.reason
          /\ svc.gen \in Nat /\ svc.observed \in Nat
      BY <1>2 DEF Version
    <3> HIDE DEF v
    <3>3. Judged(v)
      BY <1>2, <3>2 DEF Judged
    <3>4. OthersStore(v)
      BY <3>1 DEF v
    <3> QED
      BY <3>3, <3>4
  <2>2. CASE Refresh
    BY <1>2, <2>2 DEF Refresh
  <2>3. CASE DeleteService
    <3> DEFINE v == [svc EXCEPT !.life = "deleting"]
    <3>1. /\ v.gen = svc.gen /\ v.observed = svc.observed /\ v.valid = svc.valid
          /\ v.phase = svc.phase /\ v.reason = svc.reason
      BY <1>2 DEF Version
    <3> HIDE DEF v
    <3>2. Judged(v)
      BY <1>2, <3>1 DEF Judged
    <3>3. OthersStore(v)
      BY <2>3 DEF DeleteService, v
    <3> QED
      BY <3>2, <3>3
  <2> QED
    BY <2>1, <2>2, <2>3
<1>4. WatchEnds' /\ AllJudged' /\ watch' # <<>> /\ mine' = FALSE
  BY <1>1, <1>3, StoreEnds DEF OthersStore, RInv
<1>5. Working'
  BY <1>1, <1>4 DEF RInv, Working
<1> QED
  BY <1>4, <1>5 DEF RInv, PollingGoesOn

\* A failing call fails the Service, or is tried again.
LEMMA ApiErrorRests == ASSUME IInv, RInv, ApiError PROVE RInv'
<1>1. UNCHANGED <<svc, watch, cache>>
  BY DEF ApiError, api
<1>2. WatchEnds' /\ AllJudged'
  BY <1>1, EndsKept DEF RInv
<1>3. {"DockerfileFailed", "CIInitFailed"} \subseteq OwnReasons \ {"InvalidSource"}
  BY DEF OwnReasons
<1>4. CASE /\ pc \in {"ensureDockerfile", "pruneDockerfiles", "ensureCI"}
           /\ \E reason \in {"DockerfileFailed", "CIInitFailed"} : Fail(my, reason)
  BY <1>2, <1>3, <1>4, HeldCopy, FailWorks DEF RInv
<1>5. CASE Return(TRUE)
  BY <1>2, <1>5, ReturnWorks DEF RInv, Return, PollingGoesOn
<1> QED
  BY <1>4, <1>5 DEF ApiError

\* A restarted operator has the Service in its cache and in its queue.
LEMMA CrashRests == ASSUME RInv, Crash PROVE RInv'
<1>1. /\ svc' = svc /\ cache' = svc /\ watch' = <<>> /\ queued' = TRUE
      /\ pc' = "idle" /\ my' = NoVersion
  BY DEF Crash
<1>2. Working'
  BY <1>1, ReturnWorks
<1> QED
  BY <1>1, <1>2 DEF RInv, WatchEnds, AllJudged, PollingGoesOn

\* Every step keeps it.
LEMMA NextRInv == ASSUME IInv, RInv, [Next]_vars PROVE RInv'
<1>1. CASE ControllerStep
  BY <1>1, ReconcileRests, FinalizerRests, CallsRest, PatchRests DEF ControllerStep
<1>2. CASE PauseEnds \/ CacheSync \/ CICacheSync \/ CDCacheSync
  BY <1>2, WakeRests
<1>3. CASE EditSpec \/ Refresh \/ DeleteService
  BY <1>3, OthersRest
<1>4. CASE ApiError \/ Crash
  BY <1>4, ApiErrorRests, CrashRests
<1>5. CASE \/ CMCacheSync \/ CIStarts \/ CISucceeds \/ CIBuildFails \/ CDRuns \/ CDFails \/ CIGoes
           \/ GarbageCollect \/ Push \/ ForcePush \/ DeleteCI
           \/ \E need \in Needs : Break(need) \/ Repair(need)
  <2>1. UNCHANGED <<svc, watch, cache, cooling, queued, local>>
    BY <1>5 DEF CMCacheSync, CIStarts, CISucceeds, CIBuildFails, CDRuns, CDFails, CIGoes,
       GarbageCollect, Push, ForcePush, DeleteCI, Break, Repair, api
  <2> QED
    BY <2>1, AsideRests
<1>6. CASE UNCHANGED vars
  BY <1>6, AsideRests DEF vars, local
<1> QED
  BY <1>1, <1>2, <1>3, <1>4, <1>5, <1>6 DEF Next

\* Whatever way a reconcile stops, on a stale copy, in a conflict, in the pause
\* or with a refusal, something is left that makes the next one, if there is
\* anything left to do.
THEOREM ServiceRestInvariant == Spec => []RInv
BY InitRInv, NextRInv, ServiceInvariant, PTL DEF Spec

\* A Service is polled for ever, unless it is gone or its spec is invalid, or
\* it failed for a reason of its own, in which case its pause will end.
THEOREM PollingTheorem == Spec => []PollingGoesOn
<1>1. RInv => PollingGoesOn
  BY DEF RInv
<1> QED
  BY <1>1, ServiceRestInvariant, PTL

=============================================================================
