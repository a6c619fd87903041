-------------------------- MODULE ServiceController --------------------------
(***************************************************************************)
(* The Service reconciler (internal/controller/service_*.go) working on    *)
(* ONE Service that follows a branch: it polls git, discovers the          *)
(* Dockerfile and stores it in a ConfigMap, points the CI at the new       *)
(* commit, copies settings to the CD and derives its phase from both.      *)
(*                                                                         *)
(* A reconcile is split at every call that leaves the process: git         *)
(* ls-remote, git clone and every API write.  The CI and CD controllers    *)
(* appear as what this one sees of them: their specs and statuses.         *)
(***************************************************************************)
EXTENDS Naturals, Sequences

CONSTANTS
  MaxCommits,    \* bound: commits pushed to the branch, numbered from 1
  DockerfileOf,  \* the Dockerfile discovery finds at each commit
  Plans,         \* bound: what the outside world may do, see Plan
  MaxLag         \* bound: versions of the Service the informer may trail by

\* The git token's Secret, the plugins, the git server, a discoverable tree.
Needs == {"token", "plugins", "git", "stack"}
Commits == 1 .. MaxCommits

FaultKinds == Needs \cup {"invalid", "force", "build", "rollout", "refresh",
                          "crash", "api", "delete", "deleteCI"}

\* Which faults may happen, how many of them together, and how many
\* generations the spec and commits the branch may have.
Plan == [faults: SUBSET FaultKinds, left: Nat, gens: Nat, commits: Commits]

ASSUME BoundsAssumption == {MaxCommits, MaxLag} \subseteq Nat
ASSUME DockerfileAssumption == DockerfileOf \in [Commits -> Nat \ {0}]
ASSUME PlansAssumption == Plans \subseteq Plan

VARIABLES
  head, newest,   \* the commit the branch points at, and the last one made
  svc,            \* the Service at the API server
  watch, cache,   \* versions in flight to the informer, and its copy
  ci, ciCache,    \* the CI: spec, and the status this controller reads
  ciFresh,        \* ciCache has the resourceVersion of ci
  cd, cdCache,    \* the CD: the same
  cms, cmCache,   \* the Dockerfiles stored in ConfigMaps of the Service
  ran,            \* history: commits a CD reported Running
  ready, plan,    \* needs that are met; what may still happen outside
  cooling,        \* the pause of failedRetryInterval has not passed
  queued,         \* the work queue holds the Service
  pc, my,         \* next call of the running reconcile, and its copy
  mine,           \* my has the resourceVersion of svc
  target, file    \* the commit it moves to (0: none) and its Dockerfile

vars == <<head, newest, svc, watch, cache, ci, ciCache, ciFresh, cd, cdCache, cms, cmCache,
          ran, ready, plan, cooling, queued, pc, my, mine, target, file>>
api     == <<svc, watch>>
ciVars  == <<ci, ciCache, ciFresh>>
cdVars  == <<cd, cdCache, ran>>
cmVars  == <<cms, cmCache>>
git     == <<head, newest>>
outside == <<git, ready, plan>>
local   == <<pc, my, mine, target, file>>

OwnReasons == {"InvalidSource", "SecretUnavailable", "PluginUnavailable", "RevisionUnresolved",
               "DiscoveryFailed", "DockerfileFailed", "CIInitFailed"}
PipelineReasons == {"CIFailed", "CDFailed"}

\* A Service: metadata, spec (of which only the generation and the validity
\* of spec.source matter) and the status fields that steer the controller.
Version ==
  [gen: Nat, life: {"new", "live", "deleting", "gone"}, valid: BOOLEAN,
   phase: {"unset", "Discovering", "Building", "Ready", "Failed"},
   reason: OwnReasons \cup PipelineReasons \cup {"unset"},
   observed: Nat, latest: Nat, cm: Nat, ciRef: BOOLEAN]
NoVersion == [gen |-> 0, life |-> "gone", valid |-> FALSE, phase |-> "unset",
              reason |-> "unset", observed |-> 0, latest |-> 0, cm |-> 0, ciRef |-> FALSE]

\* A CI: what it is to build (conf: the generation of the Service its other
\* fields come from) and the build it reports; new: not observed yet.
CI == [life: {"none", "live", "deleting"}, rev: Nat, cm: Nat, conf: Nat,
       phase: {"unset", "Building", "Succeeded", "Failed"}, built: Nat, new: BOOLEAN]
NoCI == [life |-> "none", rev |-> 0, cm |-> 0, conf |-> 0, phase |-> "unset",
             built |-> 0, new |-> FALSE]
CD == [on: BOOLEAN, conf: Nat, phase: {"unset", "Running", "Failed"}, rev: Nat]
NoCD == [on |-> FALSE, conf |-> 0, phase |-> "unset", rev |-> 0]

Init ==
  /\ head = 1 /\ newest = 1
  /\ plan \in Plans
  /\ \E valid \in {TRUE} \cup {"invalid" \notin plan.faults} :
       svc = [NoVersion EXCEPT !.gen = 1, !.life = "new", !.valid = valid]
  /\ cache = svc /\ watch = <<>> /\ mine = FALSE
  /\ ci = NoCI /\ ciCache = ci /\ ciFresh = TRUE /\ cd = NoCD /\ cdCache = cd
  /\ cms = {} /\ cmCache = {} /\ ran = {}
  /\ ready = Needs /\ cooling = FALSE
  /\ queued = TRUE /\ pc = "idle" /\ my = NoVersion /\ target = 0 /\ file = 0

-----------------------------------------------------------------------------
(* Pure parts.                                                             *)

setPhase(v, phase) == [v EXCEPT !.phase = phase, !.reason = "unset"]

markFailed(v, reason) ==
  [v EXCEPT !.phase = "Failed", !.reason = reason, !.observed = v.gen]

setPipelineFailed(v, reason) == [v EXCEPT !.phase = "Failed", !.reason = reason]

pipelineFailure(v) == v.phase = "Failed" /\ v.reason \in PipelineReasons

specChanged(v) == v.observed # v.gen

discovered(v) ==
  /\ v.observed = v.gen /\ v.ciRef
  /\ v.phase \in {"Building", "Ready"} \/ pipelineFailure(v)

\* Mutant: the ConfigMap is not recorded.
Discovered_noDockerfile(v, commit, cm) ==
  [setPhase(v, "Building") EXCEPT !.latest = commit, !.ciRef = TRUE, !.observed = v.gen]

\* The end of discoverAndBuild.
Discovered(v, commit, cm) ==
  [setPhase(v, "Building") EXCEPT !.latest = commit, !.cm = cm, !.ciRef = TRUE,
                                  !.observed = v.gen]

\* Mutant: any running CD makes the Service Ready.
setPipelinePhase_anyRevision(v) ==
  IF /\ ciCache.life # "none" /\ ciCache.rev = v.latest /\ ciCache.phase = "Succeeded"
     /\ cdCache.on /\ cdCache.phase = "Running"
  THEN setPhase(v, "Ready") ELSE setPhase(v, "Building")

\* The phase of the Service, from the CI and CD in the caches.
setPipelinePhase(v) ==
  CASE \/ ciCache.life = "none" \/ ciCache.rev # v.latest -> setPhase(v, "Building")
    [] ciCache.life # "none" /\ ciCache.rev = v.latest /\ ciCache.phase = "Failed" ->
         setPipelineFailed(v, "CIFailed")
    [] /\ ciCache.life # "none" /\ ciCache.rev = v.latest /\ ciCache.phase = "Succeeded"
       /\ ciCache.built = v.latest /\ cdCache.on /\ cdCache.phase = "Failed" ->
         setPipelineFailed(v, "CDFailed")
    [] /\ ciCache.life # "none" /\ ciCache.rev = v.latest /\ ciCache.phase = "Succeeded"
       /\ ciCache.built = v.latest
       /\ cdCache.on /\ cdCache.phase = "Running" /\ cdCache.rev = v.latest ->
         setPhase(v, "Ready")
    [] OTHER -> setPhase(v, "Building")

-----------------------------------------------------------------------------
(* The steps of reconcile.                                                 *)

\* A write of the Service, which the watch will deliver.
Store(v) == Len(watch) < MaxLag /\ svc' = v /\ watch' = Append(watch, v)

\* A write by someone else, so no copy read before it is the current one.
OthersStore(v) == Store(v) /\ mine' = FALSE /\ UNCHANGED <<pc, my, target, file>>

StoreCI(c) == ci' = c /\ ciFresh' = FALSE

Return(requeue) ==
  /\ pc' = "idle" /\ my' = NoVersion /\ mine' = FALSE /\ target' = 0 /\ file' = 0
  /\ queued' = (queued \/ requeue)

\* On with the next call; the first step also takes the copy, which is the
\* current one when nothing is in flight to the cache.
Goto(label, v) ==
  pc' = label /\ my' = v /\ mine' = IF pc = "idle" THEN watch = <<>> ELSE mine

\* Fail the Service and write the status; its pause starts with the write.
Fail(v, reason) == Goto("patchStatus", markFailed(v, reason)) /\ UNCHANGED <<target, file>>

\* Mutant: a failure is never retried.
mustWait_forever(v) == v.phase = "Failed" /\ ~ pipelineFailure(v) /\ ~ specChanged(v)

\* retryWait: a Service that failed on its own waits before it tries again.
mustWait(v) ==
  v.phase = "Failed" /\ ~ pipelineFailure(v) /\ ~ specChanged(v) /\ cooling

\* reconcile, from the cached Service up to the first call.
ReadAndDecide(v) ==
  \/ /\ v.life = "gone" \/ (v.life = "live" /\ ~ v.valid /\ v.phase = "Failed" /\ ~ specChanged(v))
     /\ UNCHANGED local
  \/ /\ v.life \in {"new", "deleting"}
     /\ Goto("finalizer", v) /\ UNCHANGED <<target, file>>
  \/ /\ v.life = "live" /\ ~ v.valid /\ (v.phase # "Failed" \/ specChanged(v))
     /\ Fail(v, "InvalidSource")
  \/ /\ v.life = "live" /\ v.valid /\ mustWait(v)
     /\ UNCHANGED local        \* until PauseEnds
  \/ /\ v.life = "live" /\ v.valid /\ ~ mustWait(v)
     /\ \/ "token" \notin ready /\ Fail(v, "SecretUnavailable")
        \/ "token" \in ready /\ "plugins" \notin ready /\ Fail(v, "PluginUnavailable")
        \/ /\ {"token", "plugins"} \subseteq ready
           /\ Goto("resolve", v) /\ UNCHANGED <<target, file>>

Reconcile ==
  /\ pc = "idle" /\ queued /\ queued' = FALSE
  /\ ReadAndDecide(cache)
  /\ UNCHANGED <<api, cache, ciVars, cdVars, cmVars, outside, cooling>>

\* Mutant: a Service being deleted keeps its finalizer.
UpdateFinalizer_kept ==
  /\ pc = "finalizer"
  /\ \/ mine /\ my.life = "new" /\ Store([svc EXCEPT !.life = "live"]) /\ Return(TRUE)
     \/ ~ mine /\ my.life = "new" /\ Return(TRUE) /\ UNCHANGED api
     \/ my.life # "new" /\ Return(FALSE) /\ UNCHANGED api
  /\ UNCHANGED <<cache, ciVars, cdVars, cmVars, outside, cooling>>

\* Update that adds the finalizer, or removes it from a Service being deleted.
UpdateFinalizer ==
  /\ pc = "finalizer"
  /\ \/ /\ mine
        /\ Store([svc EXCEPT !.life = IF my.life = "new" THEN "live" ELSE "gone"])
        /\ Return(my.life = "new")
     \/ ~ mine /\ Return(TRUE) /\ UNCHANGED api
  /\ UNCHANGED <<cache, ciVars, cdVars, cmVars, outside, cooling>>

HasRevisionChanged(v) == head # v.latest

\* Mutant: discovery is not repeated for a new spec.
mustDiscover_once(v) == ~ v.ciRef

\* pollForCommit only once discovery is done for this spec.
mustDiscover(v) == specChanged(v) \/ ~ discovered(v)

\* ResolveRevision or pollForCommit: both ask the server where the branch is.
ResolveRevision ==
  /\ pc = "resolve"
  /\ \/ /\ "git" \notin ready /\ mustDiscover(my)
        /\ Fail(my, "RevisionUnresolved")
     \/ /\ "git" \notin ready /\ ~ mustDiscover(my)
        /\ Goto("patchStatus", my) /\ UNCHANGED <<target, file>>   \* message only
     \/ /\ "git" \in ready /\ (mustDiscover(my) \/ HasRevisionChanged(my))
        /\ Goto("clone", setPhase(my, "Discovering")) /\ target' = head /\ UNCHANGED file
     \/ /\ "git" \in ready /\ ~ mustDiscover(my) /\ ~ HasRevisionChanged(my)
        /\ Goto("ensureCI", my) /\ UNCHANGED <<target, file>>
  /\ UNCHANGED <<api, cache, ciVars, cdVars, cmVars, outside, cooling, queued>>

\* A shallow clone of the BRANCH: it has whatever commit the branch points
\* at by now, and with it that commit's Dockerfile.
cloneAt == DockerfileOf[head]

\* Discover, of the clone.
Discover ==
  /\ pc = "clone"
  /\ \/ /\ {"git", "stack"} \subseteq ready
        /\ file' = cloneAt /\ Goto("ensureDockerfile", my) /\ UNCHANGED target
     \/ ~ ({"git", "stack"} \subseteq ready) /\ Fail(my, "DiscoveryFailed")
  /\ UNCHANGED <<api, cache, ciVars, cdVars, cmVars, outside, cooling, queued>>

\* CreateOrUpdate of ConfigMap <svc>-dockerfile-<hash>: the name fixes the
\* content, so a ConfigMap in the cache is left alone.
ensureDockerfile ==
  /\ pc = "ensureDockerfile"
  /\ \/ file \in cmCache /\ Goto("pruneDockerfiles", my) /\ UNCHANGED <<cms, target, file>>
     \/ /\ file \notin cmCache /\ file \notin cms
        /\ cms' = cms \cup {file}
        /\ Goto("pruneDockerfiles", my) /\ UNCHANGED <<target, file>>
     \/ /\ file \notin cmCache /\ file \in cms               \* AlreadyExists
        /\ Fail(my, "DockerfileFailed") /\ UNCHANGED cms
  /\ UNCHANGED <<api, cache, ciVars, cdVars, cmCache, outside, cooling, queued>>

\* The rest of ensureDockerfile: delete the other ConfigMaps in the cache.
pruneDockerfiles ==
  /\ pc = "pruneDockerfiles"
  /\ cms' = cms \ (cmCache \ {file})
  /\ Goto("ensureCI", my) /\ UNCHANGED <<target, file>>
  /\ UNCHANGED <<api, cache, ciVars, cdVars, cmCache, outside, cooling, queued>>

\* What ensureCI writes: the commit just discovered, or (ensureOwnCI) what
\* the status says the last discovery found.
Wanted ==
  IF target # 0 THEN [rev |-> target, cm |-> file, conf |-> my.gen]
  ELSE [rev |-> my.latest, cm |-> my.cm, conf |-> my.gen]
Has(c, want) == c.rev = want.rev /\ c.cm = want.cm /\ c.conf = want.conf

Created(want) == [ci EXCEPT !.life = "live", !.rev = want.rev,
                            !.cm = want.cm, !.conf = want.conf, !.new = TRUE]

\* The write goes through: a create where there is no CI, an update of the
\* version in the cache.
CIWriteApplies ==
  IF ciCache.life = "none" THEN ci.life = "none" ELSE ciFresh

\* Discovery that ran into a conflict stays Discovering and starts over.
CIFails ==
  \/ target = 0 /\ Return(TRUE)
  \/ /\ target # 0 /\ UNCHANGED <<target, file, queued>>
     /\ IF ciCache.life = "live" /\ ci.life = "none"        \* Update: NotFound
        THEN Goto("patchStatus", markFailed(my, "CIInitFailed"))
        ELSE Goto("patchStatus", my)

ensureCI ==
  /\ pc = "ensureCI"
  /\ \/ /\ ciCache.life = "live" /\ Has(ciCache, Wanted) /\ UNCHANGED <<ci, ciFresh>>
        /\ Goto("syncCD", IF target # 0 THEN Discovered(my, target, file) ELSE my)
        /\ UNCHANGED <<target, file, queued>>
     \/ /\ ciCache.life # "deleting" /\ ~ (ciCache.life = "live" /\ Has(ciCache, Wanted))
        /\ CIWriteApplies /\ StoreCI(Created(Wanted))
        /\ Goto("syncCD", IF target # 0 THEN Discovered(my, target, file) ELSE my)
        /\ UNCHANGED <<target, file, queued>>
     \/ /\ \/ ciCache.life = "deleting"
           \/ ~ (ciCache.life = "live" /\ Has(ciCache, Wanted)) /\ ~ CIWriteApplies
        /\ CIFails /\ UNCHANGED <<ci, ciFresh>>
  /\ UNCHANGED <<api, cache, ciCache, cdVars, cmVars, outside, cooling>>

\* syncCD patches the CD without a lock: only what differs in the cache is
\* sent, and a CD that is gone is ignored.  Then the phase is derived.
syncCD ==
  /\ pc = "syncCD"
  /\ cd' = IF cdCache.on /\ cdCache.conf # my.gen /\ cd.on THEN [cd EXCEPT !.conf = my.gen] ELSE cd
  /\ Goto("patchStatus", setPipelinePhase(my)) /\ UNCHANGED <<target, file>>
  /\ UNCHANGED <<api, cache, ciVars, cdCache, ran, cmVars, outside, cooling, queued>>

\* The optimistic lock, and the pause that a failure of its own starts.
patchStatus ==
  /\ pc = "patchStatus"
  /\ \/ /\ mine
        /\ IF my = svc THEN UNCHANGED api ELSE Store(my)
        /\ cooling' = (cooling \/ my.reason \in OwnReasons)
        /\ Return(my.reason # "InvalidSource")
     \/ ~ mine /\ Return(TRUE) /\ UNCHANGED <<api, cooling>>
  /\ UNCHANGED <<cache, ciVars, cdVars, cmVars, outside>>

ControllerStep ==
  \/ Reconcile \/ UpdateFinalizer \/ ResolveRevision \/ Discover \/ ensureDockerfile
  \/ pruneDockerfiles \/ ensureCI \/ syncCD \/ patchStatus

\* failedRetryInterval passes.
PauseEnds ==
  /\ cooling /\ cooling' = FALSE /\ queued' = TRUE
  /\ UNCHANGED <<api, cache, ciVars, cdVars, cmVars, outside, local>>

-----------------------------------------------------------------------------
(* Informer caches; CI and CD enqueue the Service, ConfigMaps do not.      *)

CacheSync ==
  /\ watch # <<>> /\ cache' = Head(watch) /\ watch' = Tail(watch) /\ queued' = TRUE
  /\ UNCHANGED <<svc, ciVars, cdVars, cmVars, outside, cooling, local>>

CICacheSync ==
  /\ ~ ciFresh /\ ciCache' = ci /\ ciFresh' = TRUE /\ queued' = TRUE
  /\ UNCHANGED <<api, cache, ci, cdVars, cmVars, outside, cooling, local>>

CDCacheSync ==
  /\ cdCache # cd /\ cdCache' = cd /\ queued' = TRUE
  /\ UNCHANGED <<api, cache, ciVars, cd, ran, cmVars, outside, cooling, local>>

CMCacheSync ==
  /\ cmCache # cms /\ cmCache' = cms
  /\ UNCHANGED <<api, cache, ciVars, cdVars, cms, outside, cooling, queued, local>>

-----------------------------------------------------------------------------
(* The CI and CD controllers, as the Service sees them.                    *)

Fault(kind) ==
  kind \in plan.faults /\ plan.left > 0 /\ plan' = [plan EXCEPT !.left = plan.left - 1]

CIStarts ==
  /\ ci.life = "live" /\ ci.new
  /\ StoreCI([ci EXCEPT !.phase = "Building", !.new = FALSE])
  /\ UNCHANGED <<api, cache, ciCache, cdVars, cmVars, outside, cooling, queued, local>>

\* Success also makes the CD, with the settings of the cached Service.
CISucceeds ==
  /\ ci.life = "live" /\ ~ ci.new /\ ci.phase = "Building"
  /\ StoreCI([ci EXCEPT !.phase = "Succeeded", !.built = ci.rev])
  /\ cd' = [cd EXCEPT !.on = TRUE, !.conf = cache.gen]
  /\ UNCHANGED <<api, cache, ciCache, cdCache, ran, cmVars, outside, cooling, queued, local>>

CIBuildFails ==
  /\ Fault("build") /\ ci.life = "live" /\ ~ ci.new /\ ci.phase = "Building"
  /\ StoreCI([ci EXCEPT !.phase = "Failed"])
  /\ UNCHANGED <<api, cache, ciCache, cdVars, cmVars, git, ready, cooling, queued, local>>

CDRuns ==
  /\ cd.on /\ ci.built # 0 /\ (cd.rev # ci.built \/ cd.phase = "unset")
  /\ cd' = [cd EXCEPT !.phase = "Running", !.rev = ci.built]
  /\ ran' = ran \cup {ci.built}
  /\ UNCHANGED <<api, cache, ciVars, cdCache, cmVars, outside, cooling, queued, local>>

CDFails ==
  /\ Fault("rollout") /\ cd.on /\ ci.built # 0 /\ (cd.rev # ci.built \/ cd.phase = "unset")
  /\ cd' = [cd EXCEPT !.phase = "Failed", !.rev = ci.built]
  /\ UNCHANGED <<api, cache, ciVars, cdCache, ran, cmVars, git, ready, cooling, queued, local>>

\* The finalizer of a CI being deleted goes, and its CD is collected.
CIGoes ==
  /\ ci.life = "deleting" /\ StoreCI(NoCI) /\ cd' = NoCD
  /\ UNCHANGED <<api, cache, ciCache, cdCache, ran, cmVars, outside, cooling, queued, local>>

\* Kubernetes removes what a deleted Service owns.
GarbageCollect ==
  /\ svc.life = "gone" /\ (ci.life = "live" \/ cms # {})
  /\ IF ci.life = "live" THEN StoreCI([ci EXCEPT !.life = "deleting"]) ELSE UNCHANGED <<ci, ciFresh>>
  /\ cms' = {}
  /\ UNCHANGED <<api, cache, ciCache, cdVars, cmCache, outside, cooling, queued, local>>

-----------------------------------------------------------------------------
(* The world around.                                                       *)

Push ==
  /\ newest < plan.commits /\ newest' = newest + 1 /\ head' = newest'
  /\ UNCHANGED <<api, cache, ciVars, cdVars, cmVars, ready, plan, cooling, queued, local>>

ForcePush ==
  /\ Fault("force") /\ \E n \in 1 .. newest : n # head /\ head' = n
  /\ UNCHANGED <<newest, api, cache, ciVars, cdVars, cmVars, ready, cooling, queued, local>>

EditSpec ==
  /\ svc.life \in {"new", "live"} /\ svc.gen < plan.gens
  /\ \E valid \in {TRUE} \cup {"invalid" \notin plan.faults} :
       OthersStore([svc EXCEPT !.gen = svc.gen + 1, !.valid = valid])
  /\ UNCHANGED <<cache, ciVars, cdVars, cmVars, outside, cooling, queued>>

Refresh ==
  /\ Fault("refresh") /\ svc.life = "live" /\ OthersStore(svc)
  /\ UNCHANGED <<cache, ciVars, cdVars, cmVars, git, ready, cooling, queued>>

DeleteService ==
  /\ Fault("delete") /\ svc.life = "live" /\ OthersStore([svc EXCEPT !.life = "deleting"])
  /\ UNCHANGED <<cache, ciVars, cdVars, cmVars, git, ready, cooling, queued>>

DeleteCI ==
  /\ Fault("deleteCI") /\ ci.life = "live"
  /\ StoreCI([ci EXCEPT !.life = "deleting"])
  /\ UNCHANGED <<api, cache, ciCache, cdVars, cmVars, git, ready, cooling, queued, local>>

Break(need) ==
  /\ need \in ready /\ Fault(need) /\ ready' = ready \ {need}
  /\ UNCHANGED <<api, cache, ciVars, cdVars, cmVars, git, cooling, queued, local>>

Repair(need) ==
  /\ need \notin ready /\ ready' = ready \cup {need}
  /\ UNCHANGED <<api, cache, ciVars, cdVars, cmVars, git, plan, cooling, queued, local>>

\* An API call fails: storing the Dockerfile or the CI fails the Service,
\* after any other call the key is just retried.
ApiError ==
  /\ pc \notin {"idle", "resolve", "clone"} /\ Fault("api")
  /\ \/ /\ pc \in {"ensureDockerfile", "pruneDockerfiles"}
        /\ Fail(my, "DockerfileFailed") /\ UNCHANGED queued
     \/ pc = "ensureCI" /\ target # 0 /\ Fail(my, "CIInitFailed") /\ UNCHANGED queued
     \/ pc = "ensureCI" /\ target = 0 /\ Return(TRUE)
     \/ pc \in {"finalizer", "syncCD", "patchStatus"} /\ Return(TRUE)
  /\ UNCHANGED <<api, cache, ciVars, cdVars, cmVars, git, ready, cooling>>

Crash ==
  /\ Fault("crash")
  /\ cache' = svc /\ watch' = <<>> /\ ciCache' = ci /\ ciFresh' = TRUE /\ cdCache' = cd /\ cmCache' = cms
  /\ pc' = "idle" /\ my' = NoVersion /\ mine' = FALSE /\ target' = 0 /\ file' = 0
  /\ queued' = TRUE
  /\ UNCHANGED <<svc, ci, cd, ran, cms, git, ready, cooling>>

Next ==
  \/ ControllerStep \/ PauseEnds
  \/ CacheSync \/ CICacheSync \/ CDCacheSync \/ CMCacheSync
  \/ CIStarts \/ CISucceeds \/ CIBuildFails \/ CDRuns \/ CDFails \/ CIGoes \/ GarbageCollect
  \/ Push \/ ForcePush \/ EditSpec \/ Refresh \/ DeleteService \/ DeleteCI \/ ApiError \/ Crash
  \/ \E need \in Needs : Break(need) \/ Repair(need)

Spec == Init /\ [][Next]_vars

\* The work queue, timers and informers come round; a build whose Dockerfile
\* is there ends, and so does a rollout.
Fairness ==
  /\ WF_vars(ControllerStep) /\ WF_vars(PauseEnds)
  /\ WF_vars(CacheSync \/ CICacheSync \/ CDCacheSync \/ CMCacheSync)
  /\ WF_vars(\/ CIStarts \/ ((CISucceeds \/ CIBuildFails) /\ ci.cm \in cms)
             \/ CDRuns \/ CDFails \/ CIGoes \/ GarbageCollect)

FairSpec == Spec /\ Fairness

-----------------------------------------------------------------------------
(* Properties.                                                             *)

\* Types of all variables.
TypeOK ==
  /\ {head, newest} \subseteq Commits /\ {svc, cache, my} \subseteq Version /\ watch \in Seq(Version)
  /\ {ci, ciCache} \subseteq CI /\ {cd, cdCache} \subseteq CD
  /\ cms \subseteq Nat /\ cmCache \subseteq Nat /\ ran \subseteq Nat
  /\ ready \subseteq Needs /\ plan \in Plan
  /\ {cooling, queued, mine, ciFresh} \subseteq BOOLEAN
  /\ pc \in {"idle", "finalizer", "resolve", "clone", "ensureDockerfile", "pruneDockerfiles",
             "ensureCI", "syncCD", "patchStatus"}
  /\ target \in Nat /\ file \in Nat

\* A Service says Ready only for a commit that a CD has reported Running:
\* neither a stale CI nor a CD still on the old commit makes it Ready.
ReadyMeansRan == svc.phase = "Ready" => svc.latest \in ran

\* service_controller.go: "Invalid input never fixes itself: fail once and wait
\* for a spec change", "a failed Service retries transient errors after a pause".
\* Any other Service is polled for ever: when the cache shows it as it is, no
\* reconcile runs and none is queued, it is gone, or has failed for this spec,
\* because that is invalid, or for a reason of its own and its pause will end.
PollingGoesOn ==
  pc = "idle" /\ ~ queued /\ watch = <<>>
  => \/ svc.life = "gone"
     \/ /\ svc.life = "live" /\ svc.phase = "Failed" /\ ~ specChanged(svc)
        /\ IF svc.valid THEN cooling /\ svc.reason \in OwnReasons \ {"InvalidSource"}
           ELSE svc.reason = "InvalidSource"

\* The pipeline is where it should be: the CI builds the head of the branch
\* with its Dockerfile, CI and CD have the settings of the spec, and the
\* phase tells how it went.
InPlace ==
  /\ svc.latest = head /\ svc.observed = svc.gen
  /\ ci.life = "live" /\ ci.rev = head /\ ci.conf = svc.gen
  /\ ci.cm = DockerfileOf[head] /\ ci.cm \in cms
  /\ cd.on => cd.conf = svc.gen
  /\ svc.phase = IF ci.phase = "Failed" \/ cd.phase = "Failed" THEN "Failed" ELSE "Ready"

Undisturbed == svc.life = "live" /\ svc.valid /\ ready = Needs /\ head = newest

\* Once branch, spec and cluster come to rest the pipeline gets in place and
\* stays, whatever failed, crashed, conflicted or was deleted on the way.  (If
\* the branch was forced back to the commit of the status while the other one
\* was being cloned, no poll finds it moved, and the CI may stay with the
\* Dockerfile of the other commit, or with one that was deleted.)
PipelineConverges == <>[]Undisturbed => <>[]InPlace

\* A deleted Service goes and leaves no CI, CD or ConfigMap, also when a
\* reconcile of its stale copy creates the CI once more.
ServiceDeletionCompletes ==
  <>[](svc.life \in {"deleting", "gone"}) =>
    <>[](svc.life = "gone" /\ ci.life = "none" /\ ~ cd.on /\ cms = {})

\* The comment on cloneAt: it checks out exactly the revision.  The CI then
\* builds each commit with the Dockerfile of that commit.
CIHasItsDockerfile == ci.life = "live" => ci.cm = DockerfileOf[ci.rev]

=============================================================================
