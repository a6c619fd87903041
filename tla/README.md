# Koptan: a TLA+ verification project

Koptan is a Kubernetes operator (Go, controller-runtime) with a Backstage UI and a
coding agent.  A user applies a **Service**; the operator finds out how to build it,
makes a **CI** that builds every new commit in a Pod, and a **CD** that rolls the image
out.  This directory holds TLA+ models of the operator's core, the TLC configurations
that check them on small instances, and TLAPS proofs of the safety properties of all its
controllers and of the coding agent's session.

All paths below are relative to the repository root.

## 1. The system

| Component | Code | State it keeps | Operations | Made correct by |
|---|---|---|---|---|
| Service reconciler | `internal/controller/service_*.go` | Service status (phase, latestRevision, ciRef, cdRef, dockerfileConfigMap, observedGeneration, Ready condition), ConfigMaps with Dockerfiles | finalizer, validate, pause, token, plugins, ls-remote, clone and discover, store and prune ConfigMaps, write the CI, patch the CD, derive the phase, patch the status | the CI ends up at the head of the branch with that commit's Dockerfile; Ready is only said of a commit that runs; deletion leaves nothing |
| CI reconciler | `internal/controller/ci_controller.go`, `ci_build.go`, `ci_plugins.go` | CI status (phase, image, buildPod, buildingRevision, observedGeneration, conditions), build Pods | finalizer, check needs, delete old Pods, create the Pod, follow it, record the outcome, make the CD | a recorded image was pushed by a build of that spec; one active build; outcomes are final and always come |
| CD reconciler | `internal/controller/cd_controller.go` | CD status (phase, image, condition), Deployment, Kubernetes Service | finalizer, read the CI's image, check Secrets, create or update both children, derive and patch the status | rollouts go forward; status and children converge |
| Secret policy | `internal/controller/credentials.go` | none | check label, visit every Secret of a Pod spec | no unlabelled Secret is used |
| Git | `internal/utils/git.go`, `internal/service/clone.go` | none | resolve branch, tag or SHA; clone | what is checked out is what was resolved |
| Discovery | `internal/service/` | none | choose a Dockerfile or a template | the order of its sources |
| Plugins | `internal/plugins/`, `ciplugin_controller.go` | CIPlugin status | attach to Services, render build steps | order, no duplicates, nothing skipped |
| Alerting | `alert_controller.go`, `alert_targets.go`, `internal/alerting/`, `internal/notify/` | Alert status (initialized, lastNotified per kind and channel, deliveries, conditions) | read what Service, CI and CD show; plan; send; record | nothing counts as sent that was not; every event arrives; a new Alert reports nothing old; sending ends |
| SelfService | `selfservice_*.go`, `internal/gitprovider/` | SelfService status, repository, agent Secret, Deployment and Service, koptan Service | look up or create the repository, make the parts one by one, patch the status | everything agrees on one repository in the end, after any partial failure; nothing foreign is touched; deletion leaves nothing |
| Coding agent | `agent/src/` | session: busy flag, runs, working copy | run a prompt: sync, edit, commit, push; seed an empty repository | runs do not mix; what is reported is on the branch; failed work stays off it; nobody's commits are lost; the session is free again |
| Backstage backend | `web/plugins/koptan-backend/` | none of its own | list, create (with Secrets), delete, pass prompts to an agent and refresh the Service | the Service is refreshed for commits that are there |
| Backstage front-end, CRDs, `cmd/main.go` | | | | not modelled |

**Interaction.**  The reconcilers share no memory.  They meet in Kubernetes
objects: the Service reconciler writes the spec of the CI and CD; the CI reconciler
writes the CI status and the CD spec; the CD reconciler reads the CI status and writes
the CD status; the Service reconciler reads both statuses, the Alert reconciler all
three.  CIPlugins are read by the Service reconciler, which pins them in the CI, and
again by the CI reconciler, which renders them.  The SelfService reconciler makes the
Service and the agent, which pushes to the branch the Service follows.  Each reconciler
is woken by watches (`SetupWithManager`) and reads from informer caches that trail the
API server.

**What is hard about it.**  A reconcile makes several API calls with arbitrary steps of
everybody else in between.  It starts from a cached copy that may be older than its own
last write.  CI and Service guard their status with an optimistic lock, CD, Alert,
CIPlugin and SelfService do not.  Deleting a Pod is graceful; a notification, a created
repository and a push cannot be taken back.  The operator and the agent may stop between
any two calls.  Some failures are retried, some are recorded as final, and Secrets are
not watched.  `PROJECT.json`
lists these hazards one by one with the line where they bite and the properties that
would catch them.

## 2. Modules

| Module | Models | Used by |
|---|---|---|
| `CIController` | the CI reconciler, its build Pods and its CD | `MCCIController` (TLC), `CIControllerProofs` (TLAPS) |
| `CDController` | the CD reconciler, Deployment and Kubernetes Service | `MCCDController`, `CDControllerProofs` |
| `Delivery` | what the CD reconciler promises; abstract | instantiated by `CDController` |
| `ServiceController` | the Service reconciler, with git, ConfigMaps, and CI and CD as it sees them | `MCServiceController`, `ServiceControllerProofs` |
| `PluginController` | the CIPlugin reconciler, and what the Service and CI reconcilers make of plugins | `MCPluginController`, `PluginControllerProofs` |
| `AlertController` | the Alert reconciler with planning and delivery, and the pipeline as it sees it | `MCAlertController`, `AlertControllerProofs` |
| `SelfServiceController` | the SelfService reconciler with the git host, and the parts it makes | `MCSelfService`, `SelfServiceProofs` |
| `AgentSession` | the coding agent's session, its server and the backend's route to it | `MCAgentSession`, `AgentSessionProofs` |

The controller modules are laid out alike.  The empty string of the code, a status field
that was never written, is written `"unset"`.

* **Objects.**  `ci`, `cd`, `svc`, `deploy`... are the objects at the API server, each a
  record of the metadata, spec and status fields that steer a controller.  `life` stands
  for finalizer and deletionTimestamp: `new` has no finalizer yet, `deleting` has a
  deletion timestamp, `gone` no longer exists.
* **Caches.**  `cache` is the informer's copy of the reconciled object and `watch` the
  versions under way to it, delivered in order.  Caches of other objects jump from any
  older state to the present one.  Every delivery enqueues the key (`queued`), except for
  ConfigMaps, which are not watched.
* **Resource versions.**  `CIController` counts them.  `CDController` and
  `ServiceController` only keep whether a copy has the current one (`mine`,
  `deployFresh`, `exposeFresh`, `ciFresh`), which is all that a conflict depends on and
  keeps the state space finite although every reconcile may write.
* **The reconcile.**  `pc` names the next API call of the running reconcile, `my` its copy
  of the object.  One action is the code from one API call to the next.  Reads from
  caches happen together with the step that follows.  Conditions and early returns are
  the guards; `Return(requeue)` is the end of Reconcile.
* **Writes.**  An Update, and a patch with `MergeFromWithOptimisticLock`, applies only if
  the copy was read at the current version.  `MergePatch` of CD, Alert, CIPlugin and
  SelfService is computed field by field against the cached copy, as `client.MergeFrom`
  does: a map entry by entry, a list as a whole.  `CreateOrUpdate` decides on
  the cache to create or update, and either may be refused (AlreadyExists, NotFound,
  Conflict).  A patch that changes nothing makes no version.
* **The world.**  Users and other controllers edit specs.  What may happen outside is
  bounded by a plan: which kinds of fault, how many of them in one behaviour, how many
  spec generations and commits.  `Plans` is the set of plans of an instance and the
  variable `plan` holds what is left of the one chosen at the start, so that one run covers
  several mixes of faults without multiplying them (in `CDController` and
  `AlertController` the constants `Faults`, `MaxFaults` and `MaxChanges`).  `Break(need)`
  and `Repair(need)` take away and give back what a reconciler needs from outside;
  `ApiError` fails the pending call; `Crash` restarts the operator, which lists its
  caches afresh and queues every key.

### CIController

| Action | Code |
|---|---|
| `Reconcile` / `ReadAndDecide` | `ci_controller.go` 71-142: deletion, finalizer, Service, revision, validation, `current`, follow or start a build, credentials and plugins |
| `UpdateFinalizer` | 79-92 |
| `deleteBuildPods` | 143, 271-275: `DeleteAllOf` |
| `CreatePod` | 146-175: `checkPod`, `Create`, both ways to fail, the status of a new build |
| `followBuild`, `GetPodFromAPI`, `LostPod` | 178-224 with the three reads of `buildPodOf`, 323-344 |
| `patchStatus` | 346-351 |
| `ensureCD` | 286-315 |
| `PodPushes`, `PodSucceeds`, `PodFails` | the build script of the Pod, `ci_build.go` 34-79 |
| `CacheSync`, `PodCacheSync`, `CDCacheSync` | `SetupWithManager`, 381-389 |

A Pod remembers the image and spec generation it was made for.  `pushed` is a history
variable.  `PodRemoved`, `GarbageCollect` and `Evict` are Kubernetes.  The transient
phase `Resolving` is never written on its own and is left out; plugin results and
messages do not steer anything and are left out.

### CDController

`ReadAndDecide` is `cd_controller.go` 52-99, `reconcileDeployment` and `reconcileService`
the two `CreateOrUpdate` calls with their error paths (100-119, 205-254), `StatusOf`,
`RolledOut` and `deployFailed` the derivation of the status (121-156), `patchStatus` the
unlocked patch.  Images are numbered in the order they are built, so that "older" has a
meaning; a configuration number stands for replicas, env, port, resources and pull
Secret.  The Pod spec sent lacks what the API server fills in, so a cached Deployment
never compares equal and each reconcile sends an update, which may conflict; the
Kubernetes Service is only written if it differs.  `Observe`, `Complete`, `Stall` and
`Unavailable` are the Deployment controller of Kubernetes.

`Delivery` states the promise in four variables: images are built one after the other,
a built image is rolled out, never one older than an image rolled out before, and only
what was rolled out is reported.  `CDController` maps `image`, the history variable
`rolled`, `deploy.image` and `cd.image` to them (`Promise`), and `DeliversInOrder` says
that it implements `Delivery`.

### ServiceController

A Service that follows a branch.  The steps are `ReadAndDecide` (`service_controller.go`
80-136), `ResolveRevision` (138-149, `pollForCommit`), `Discover` (clone and discovery,
`service_discovery.go` 27-45), `ensureDockerfile` and `pruneDockerfiles` (113-152),
`ensureCI` (162-203, also as `ensureOwnCI`), `syncCD` with `setPipelinePhase`
(`service_sync.go`, `service_pipeline.go` 58-109) and `patchStatus`.  Commits are
numbers, and `DockerfileOf` gives the Dockerfile discovery finds in each; `head` moves
with `Push` and `ForcePush`.  The pause of one minute is the flag `cooling`, which
`PauseEnds` clears.  CI and CD are reduced to what the Service reads of them: `CIStarts`,
`CISucceeds`, `CIBuildFails`, `CDRuns`, `CDFails`, `CIGoes`.

### AlertController

| Action | Code |
|---|---|
| `Reconcile` | `alert_controller.go` 46-85: targets, notifiers, snapshot, `Prune`, `Plan`, the entries to record without sending |
| `deliver` (`Sent`, `SendFails`) | 100-125, one round of the loop per step; a post that answers with an error may have been received (`notifier.go` 74-119) |
| `patchStatus` | 58-61 and 87-98, the unlocked patch and the retry timer |
| `CacheSync`, `PipeSync`, `TimerFires` | `SetupWithManager` 194-207, `alertsForObject` 173-192, `RequeueAfter` |
| `EditSpec` | a user changes channels, kinds, suspension or selection |

One Alert that selects one Service or another one.  The statuses of Service, CI and CD
are `pipe`, the informers' copies of them `seen`; `Push`, `CIStarts`, `CIEnds`, `CIFails`,
`CIWaits`, `CDDeploys` and `CDEnds` are what the other reconcilers write there.
`status.lastNotified` is the set of its entries.  `handled` is a history variable: the
deliveries a channel received or that were deliberately recorded without being sent.
`status.deliveries` matters only because adding to it makes a new version of the Alert
(`tried`), which wakes the Alert again.  A deleted Alert has no finalizer and leaves
nothing to do.

### PluginController

| Action | Code |
|---|---|
| `ReconcilePlugin`, `PatchPlugin` | `ciplugin_controller.go` 30-58: verdict and attached Services, the unlocked patch |
| `ResolvePlugins`, `EnsureCI` | `service_controller.go` 132-136, `service_plugins.go` and `plugins/resolve.go`; the pins in `service_discovery.go` 181-203 |
| `StartBuild` (`pluginSteps`, `checkPodSpec`) | `ci_controller.go` 127-175, `ci_plugins.go` 17-47, `credentials.go` 27-105 |
| `PluginSync`, `ServiceSync`, `CISync` | the watches of the three controllers |

A finite set of plugins (two in the run), one Service and its CI.  The name of a plugin is
a number, because names break ties when plugins are sorted.  `Resolve` is the sorted list
of `plugins.Resolve`, and `Refs` the pins.  A plugin has a generation, which starts
again when it is deleted and made again, and a history number `ver`, which does not; `steps` are the plugins the last
build was given.

### SelfServiceController

| Action | Code |
|---|---|
| `Reconcile`, `UpdateFinalizer`, `provision` | `selfservice_controller.go` 48-112, `selfservice_resources.go` 50-67 |
| `EnsureRepoGet`, `EnsureRepoPost` | `selfservice_resources.go` 70-80 and `gitprovider`: a lookup and a create, each of which may fail; the answer of the create may be lost, or someone else be faster |
| `ensureAgentSecret`, `ensureAgent`, `ensureAgentService`, `ensureService` | the four `CreateOrUpdate` calls with their owner check |
| `patchStatus` | the unlocked patch |
| `AgentStarts`, `AgentStops`, `AgentDies`, `Collect` | Kubernetes |
| `OtherComes`, `OtherLeaves`, `RemovePart`, `RaceForRepo` | other users |

A part is who owns the object in its place, which repository it names and whether it
runs.  `done` is a history variable: the last generation whose parts were all written.
The cached copy of a part (`seen`) jumps to the present state when its events arrive, and
`ours` remembers of which parts an event on its way shows an object that the SelfService
owns: those wake the reconciler (`Owns`, `selfservice_controller.go`), even if the
object has come and gone in between.

### AgentSession

| Action | Code |
|---|---|
| `Clone`, `RemoteHasBranch`, `Fetch` (`Prepare`) | `agent/src/git.js` 57-84 |
| `Seed`, `Listen` | `git.js` 88-92, `cli.js` 51-62 |
| `RunTool`, `Answer` (`RunAgent`) | `session.js` 50-69, `agent/loop.js` 21-73 |
| `Commit`, `Push`, `RevParse` (`CommitAndPush`) | `git.js` 95-102 |
| `StartRun`, `Finish`, `Throw` | `server.js` 42-70, `session.js` 29-46 and 71-85 |
| `ClientLeaves`, `watchDone` | `koptan-backend/src/service/routes/selfservice.ts` 103-137, `selfservice/agent.ts` 73-95 |
| `Crash`, `Evict`, `OthersPush` | the process dies and its emptyDir stays; the Pod is replaced; someone else pushes |

`pc` has an entry for each request and for `serve`; one action is the code between two
awaits, except that `Fetch` is fetch, checkout, reset and clean together.  It fails with the
network, or with a `Clash`: `checkout -B` comes first and without `-f`, and refuses if
an uncommitted edit is in a file in which HEAD and the branch differ.  Which changes have
a file in common is the constant `Overlap`; in the runs it holds of one prompt and what
others push, of the README and what they push, and of two prompts.  A commit is the set of changes it makes, a branch the sequence of its commits;
each request makes one change of its own.  `excused` is a history variable: the runs that
began while the host had no branch, and those whose push was carried out although it
failed.

## 3. What TLC checks

Sizes are distinct states.  All runs say `CHECK_DEADLOCK FALSE`, because a controller
whose objects are at rest really has nothing to do.

| Run | Question | States |
|---|---|---|
| `ci_safety` | Two revisions, two generations, failing builds, a crash, an unreadable Service, an invalid spec or a refused Secret: is what the CI says of its build true (`SucceededMeansPushed`, `BuildingFollowsItsPod`), is there one active build, are outcomes final (`OutcomeIsFinal`)?  Also checks the invariant of the proofs, `IInv`. | 5.0 M |
| `ci_live` | A spec edit with one fault (failing build, crash, eviction, missing credentials or plugins), or two faults among missing quota, failing calls, and deletions of CI and CD: does a spec at rest always get a lasting outcome (`BuildSettles`), a build that lacked quota another try (`QuotaIsRetried`), a successful one its CD (`SuccessReachesCD`), and a deleted CI its end (`DeletionCompletes`), and is no wake-up lost (`OutcomeAtRest`)? | 1.8 M |
| `cd_changes` | Two images, or an image and an edit, with any one of eight faults (stalled rollout, dying replica, crash, refused Secret, unreadable CI, failing call, children removed by hand, deletion): `RolloutsGoForward`, `DeletionRemovesChildren`, `StatusConverges` in spite of unlocked patches, no lost wake-up (`RolloutAtRest`), and the refinement `DeliversInOrder`. | 0.55 M |
| `svc_safety` | Two commits, a force push, failing builds and rollouts: `ReadyMeansRan`. | 7.0 M |
| `svc_live` | Two commits and a crash; specs that are or become invalid, with a crash or a failing build or rollout; or two faults among a missing token, plugin, git server or stack, failing calls, refreshes, a CI deleted by hand and deletion: `PollingGoesOn`, `PipelineConverges`, `ServiceDeletionCompletes`. | 1.6 M |
| `plugin_attach` | Two changes of a plugin and the Service, or one and a crash or failing write, with a Secret that is missing, unlabelled or fit (two plugins to begin with only without a Secret): does a build have every pinned plugin and none older than its pin (`NeverOlderThanPinned`), do pins, steps and status end up as plugins and Service say (`PluginsConverge`, `AttachmentReported`), and is no wake-up of the reconcilers lost (`BuildsAtRest`, `StatusAtRest`)? | 0.39 M |
| `alert_events` | Two changes among pushes, builds and edits of the Alert, with one failing send, unreadable Secret, pipeline failure, failing patch or crash: `RecordedMeansHandled`, `NothingBeforeBaseline`, `HandledAtRest`, `EventsArrive`, `SendingStops`. | 0.82 M |
| `self_parts` | A spec edit with a crash or a fault around the repository, or any one of ten faults: `ProvisionedAtRest`, `ReadyMeansProvisioned`, `NoDanglingRepo`, `NoTakeover`, `SelfServiceConverges`, `SelfServiceDeletionCompletes`. | 1.2 M |
| `agent_runs` | Three prompts, an empty repository, one without the branch or one with it, a push by someone else, and two faults among failing and lost git calls, a failing model, a crash, an eviction and a client that leaves: `OneRunPerCommit`, `ReportsAreTrue`, `FailedLeavesNothing`, `BranchOnlyGrows`, `SessionRecovers` (every client gets an answer and the session is free; the server comes back, or its clone is `Blocked`, see below). | 0.83 M |

The properties called `...AtRest`, and `PollingGoesOn`, say that no wake-up is lost: when no
reconcile runs, none is queued or timed and the informers have delivered everything, then
nothing is left to do.  They are the safety part of the liveness properties beside them:
a liveness property may fail because a reconciler never comes to rest, or because it rests
in a wrong state; these exclude the second, and need no fairness.

The type invariants are not checked again by the runs: they are proved (section 4), and in
`ci_safety` they are part of `IInv`.

`QuotaIsRetried` says that, once quota is back, a CI does not stay in `PodCreateFailed`
for a revision or generation it has not observed.  The other case, in which both had
been observed by an earlier build, is among the behaviours listed below.

Three more runs show, each by a counterexample, where the code does not do what a
comment, a test or a document says.

| Run | What happens |
|---|---|
| `ci_lost` | A second reconcile that still reads the CI without its build deletes the Pod just created (`deleteBuildPods` runs before the locked patch can conflict); the next one reports BuildPodLost, without any fault. |
| `svc_clone` | A push between ls-remote and clone pairs the older commit with the newer Dockerfile (`svc_live` shows that the next poll corrects it, unless the branch is forced back: see below). |
| `self_repo` | The spec changes to another repository while the git host does not answer: the failed reconcile marks the generation observed, and the next one takes the repository of the old spec for the new one and reports Ready. |

Other behaviours met while modelling.  They are in the models, and the properties are
stated so as to allow them; no run is kept for them.

* A build refused for its registry Secret is recorded as failed for this revision and
  generation; creating the Secret changes nothing (`ci_controller.go` 131; compare
  `docs/resources/service.md` 206, `docs/reference/troubleshooting.md` 49).
* `PodCreateFailed` is only retried if revision and generation had not been observed.
  They had, if the Service was unreadable for a while after an earlier build
  (`ci_controller.go` 161; compare the comment at 158).
* `deployFailed` does not compare observedGeneration: a new image may be Failed for a
  moment because of the old one (`cd_controller.go` 148).
* A merge patch from a copy that still says Deploying sends a new image and condition but
  not the phase: for a moment the CD shows Running beside an image that has not been
  rolled out (`cd_controller.go` 257; compare `docs/resources/cd.md` 57).  `cd_changes`
  shows that the status is put right.
* A create decided on a stale cache ends in AlreadyExists, which is reported as Failed
  until the next reconcile (`cd_controller.go` 107).
* A CD refused for an unlabelled Secret is not woken by the label (`cd_controller.go` 98;
  compare `docs/reference/troubleshooting.md` 44).
* A restart between the removal of the old ConfigMap and the status patch, and a branch
  moved back: the CI waits for a ConfigMap that is gone until the next discovery
  (`service_discovery.go` 146).
* The refresh annotation does not shorten the pause of a Service that failed on its own
  (`service_controller.go` 121; compare `docs/reference/troubleshooting.md` 29).
* A restart, a failing patch or a reconcile of a stale copy between `Send` and the status
  patch sends the notification again (`alert_controller.go` 112; compare
  `docs/resources/alert.md` 71).  The receiver can tell by the delivery ID.
* A build that lacked quota keeps the revision and Pod of the previous build: the first
  failure gives no CIFailed event, a later one has the key of the previous build
  (`alerting/events.go` 54-59).
* An event that appears while a stale copy says uninitialized or suspended is recorded
  as known and never sent (`alert_controller.go` 135).
* One channel whose Secret cannot be read holds back all channels of its Alert
  (`alert_controller.go` 57-61).
* A failed delivery is listed in `status.deliveries`; the patch makes a new version of
  the Alert, whose watch has no predicate; the Alert is reconciled and the delivery tried
  again at once, while the 30-second timer is still pending (`alert_controller.go` 201;
  compare the comment at 22, "alertRetryInterval paces retries of failed deliveries", and
  `docs/resources/alert.md` 73).
* A branch forced back to the older commit during a clone leaves that commit with the
  Dockerfile of the other one, since the revision no longer changes (`clone.go` 24).
  `PipelineConverges` therefore speaks of branches whose head is their newest commit.
* `pluginSteps` reads each plugin as it is now, not at the generation pinned
  (`ci_plugins.go` 26; compare the comment at `api/v1/ci_types.go` 92).  A plugin deleted
  and made again starts at generation 1: if the pins compare equal, nothing is rebuilt,
  and a CI that failed for want of the plugin stays Failed (compare
  `docs/resources/ciplugin.md` 52).  A plugin under deletion still counts as attached.
* A SelfService may show phase Ready while a reconcile of a newer generation failed, or
  while the Pod of the old template still runs: the status is patched without a lock, and
  one available replica is enough (`selfservice_controller.go` 73).
* A Secret, Deployment or Kubernetes Service `<name>-agent` that has no owner is adopted;
  only for the koptan Service is that an error (`selfservice_resources.go` 239).
* A host whose clone URL is http has the repository created and the SelfService never
  Ready (`selfservice_resources.go` 79).
* While the host has no branch, the commit of a failed push stays in the agent's working
  copy and goes out with the next run's (`git.js` 76-82), or, if that changes nothing, is
  not pushed at all; likewise a README whose push failed.  Compare the test "a failed run
  leaves nothing behind and the next run starts clean" (`agent/test/session.test.js` 72),
  which seeds the branch first.
* A push whose answer is lost is a failed run whose work is on the branch; the Service is
  not refreshed for it, nor for a run whose client left.
* A run that fails, or a process that dies, may leave edits in the working copy.  If
  someone else then pushes a change of the same file, `checkout -B` of the next sync (`git.js`
  74) refuses, before `reset --hard` and `clean` could discard the edits.  Nothing else
  discards them: every later run fails in the same way, and a `serve` that is started again
  in the same Pod ends there each time (`cli.js` 54), until the Pod is replaced or the branch
  changes again.  The test named above expects the next run to start clean, but nobody else
  pushes in it.  `SessionRecovers` allows this one case (`Blocked`) for the server, and
  says that a push by someone else is always part of it.
* The emptyDir outlives a restart of the container: a restarted agent uses the clone it
  finds (`git.js` 65; compare `docs/resources/selfservice.md` 130).

**Bounds.**  Two revisions or images or commits are what it takes for "old" and "new" to
differ; a third would repeat the second.  Two Pod names let an old Pod linger beside a
new one, and `Fresh` lets a name be used again once nobody mentions it.  `MaxLag` 2 lets
the cache trail by more than one write, which the stale-copy cases need; the liveness
runs of larger models use 1, where the next write waits for the delivery of the first,
and another client's write may still come before a patch.  One fault (`MaxFaults`,
`plan.left`) is placed at every possible moment; the plans about a second fault during the
recovery from the first (in `ci_live`, `svc_live`, `agent_runs`) have 2.  Two generations
(`plan.gens`) are one spec edit.  Three requests and `KeepRuns` 2 let a run fall out of
the kept ones, and let a failed run be followed by one that could push its remains and one
that is refused meanwhile.  `MaxChanges` counts images and spec edits of the CD together,
and pushes, builds and edits of the Alert: 2 is an old and a new image, or an image and an edit under it; a build and
its repetition, a push or an edit, or two edits of the Alert.  Two channels are what it
takes for one to be new while the other is known.

**Fairness.**  Weak fairness of `ControllerStep` and of the cache deliveries: the work
queue hands out every key and a reconcile returns, informers deliver.  Retries with a
delay (`RequeueAfter`, back-off) become an immediate `queued`, which adds behaviours and
takes none away.  Build Pods end and deleted Pods go (`PodProgress`); Kubernetes
observes, rolls out and collects garbage.  A stalled rollout need not recover, so
`Complete` is only fair while progressing.  Builds in `ServiceController` only have to
end while their ConfigMap exists, as a Pod whose ConfigMap volume is missing does not
start.  Several kinds of steps of one party share one condition: the caches of a process,
the builds and rollouts of the cluster, the start, stop and clean-up of the agent.  In
`AlertController` one condition suffices: the operator does not rest for ever while a step
of the reconciler, a cache delivery or a timer is possible.  In `AgentSession` calls of git
and of the model end, well or not: the model calls have a time limit, the git calls have
none, so that a connection that hangs for ever is left out.  Nothing is
assumed of `Repair`, `SecretReadable`, of users or of faults;
`EventsArrive` speaks of the states in which the Secrets can be read.

## 4. What is proved

Every invariant and every `[][A]_vars` property that a passing run checks is proved for
all values of the constants, from the named `ASSUME`s of the module alone, which TLC
evaluates in the runs.  So is the refinement of `Delivery`.  The theorems are the
specification's own (`Spec => ...`), without fairness.

| Module | Inductive invariant | Properties |
|---|---|---|
| `CIControllerProofs` | `Inductive`, `RestInvariant`, `TypeCorrect` | `ImageTheorem` (`SucceededMeansPushed`), `OneBuildTheorem` (`OneActiveBuild`), `FollowTheorem` (`BuildingFollowsItsPod`), `OutcomeTheorem` (`OutcomeIsFinal`), `OutcomeAtRestTheorem` (`OutcomeAtRest`) |
| `CDControllerProofs` | `CDInvariant`, `CDRestInvariant`, `CDTypeCorrect` | `CDGoesForward` (`RolloutsGoForward`), `CDImplementsDelivery` (`DeliversInOrder`), `RolloutAtRestTheorem` (`RolloutAtRest`) |
| `ServiceControllerProofs` | `ServiceInvariant`, `ServiceRestInvariant`, `ServiceTypeCorrect` | `RanTheorem` (`ReadyMeansRan`), `PollingTheorem` (`PollingGoesOn`) |
| `AlertControllerProofs` | `Inductive`, `RestInvariant`, `AlertTypeCorrect` | `HandledTheorem` (`RecordedMeansHandled`), `BaselineTheorem` (`NothingBeforeBaseline`), `HandledAtRestTheorem` (`HandledAtRest`); `PlanKeepsAll` about the plan |
| `PluginControllerProofs` | `PluginInvariant`, `RestInvariant`, `PluginTypeCorrect` | `PinnedTheorem` (`NeverOlderThanPinned`), `BuildsAtRestTheorem` (`BuildsAtRest`), `StatusAtRestTheorem` (`StatusAtRest`); `ResolveSorted` about the list of plugins |
| `SelfServiceProofs` | `SelfInvariant`, `SelfRestInvariant`, `SelfTypeCorrect` | `ProvisionedTheorem` (`ReadyMeansProvisioned`), `RepoTheorem` (`NoDanglingRepo`), `TakeoverTheorem` (`NoTakeover`), `AtRestTheorem` (`ProvisionedAtRest`) |
| `AgentSessionProofs` | `AgentInvariant`, `AgentTypeCorrect` | `RunsDoNotMix` (`OneRunPerCommit`), `ReportsTheorem` (`ReportsAreTrue`), `FailureTheorem` (`FailedLeavesNothing`), `BranchTheorem` (`BranchOnlyGrows`) |

The controllers share one difficulty.  A property speaks of the object at the API server,
but what is written there was computed from a copy: the cache's, one that the watch has
still to deliver, or the one a reconcile holds.  None of the properties is therefore
inductive.  Each invariant says of *every such copy* what the property says of the object,
and orders the copies as far as the property needs it.  The proofs have one lemma per kind
of write (an update that carries a resource version, an unlocked merge patch), one per
group of variables that a step leaves alone, one per action, and a last one that goes
through the disjuncts of `Next`.

### CI

`SucceededMeansPushed` is not inductive: the CI becomes Succeeded by a patch computed
from a cached copy, from the phase of a cached Pod, and the image recorded is computed
from the copy's spec.  `IInv` speaks of the API server's copy, the cache's, those under
way, and the reconcile's own.  Each is no newer than the API server (`Dated`); copies of
one generation have one spec (`Agree`); what each says about its build is true (`Sound`),
also if the Pod it names is only remembered by the Pod cache; each Pod builds the image of
its generation and pushes before it succeeds (`PodSound`); and `Progress` records what the
reconcile knows at each call, in particular that all Pods are on their way out when the
next one is created.  The proof has a lemma per kind of step: `LocalStep` (no API write),
`StoreStep` (a write of the CI), `PodCacheStep`, `PodStep`, and for each action the part of
the invariant that it can disturb.

`OutcomeIsFinal` compares two states, so an invariant has to say what the next write may
be.  `Final` adds two facts.  `Same`: a copy with the resource version of the CI *is* the
CI, so a reconcile that starts from it sees the outcome.  `Harmless`: a reconcile whose
copy has the version of a CI with a final outcome is about to write its status, and what it
writes keeps the outcome or is one of the two exceptions of the property; any other
reconcile works on an older version, and the optimistic lock refuses its write.
Every call of a reconcile keeps `Final` (`CallsFinal`, `WritersFinal`), and the theorem
shows the property for each action that writes the CI.

### CD

The image to roll out comes from a cache and the image reported from an unlocked patch.
`IInv` orders what is reported, rolled out, cached and built (`Ordered`), says that the
Deployment runs what was rolled out last (`RunsLatest`), and what a reconcile holds at each
call (`InHand`): an image that is not older than the one rolled out, and a patch that names
a new image only if that image was rolled out.  `CDImplementsDelivery` shows that initial
states map to initial states of `Delivery` and every step to a step of it or to a stutter.

### Service

`ReadyMeansRan` needs that no copy of the Service claims more than was true when it was
made, and that what was true then is still true: `ran` only grows.  `Stored` says it of the
Service and of all copies under way, `InHand` of the one a reconcile works on, `Pipeline`
that a CD, also as the cache shows it, calls only Running what ran.  `StatusSound` and
`PhaseSound` treat the functions that compute the status; `SyncStep` is the step at which a
cached CD makes a Service Ready.

### Alert

`IInv` says of every copy that may be read (`Stored`) and of the two copies a running
reconcile patches from (`Working`) that each records only what was handled (`Backed`) and
is initialized only if the Alert is (`Read`).  `PatchStep` shows that a merge of such
copies is such a copy; `NewSendsNothing` that planning for an uninitialized copy sends
nothing, since each delivery is for a channel of the spec (`PairChannel`); `DeliverStep`
that an entry is recorded only after it was handled.

Type correctness has an invariant of its own (`Types`): the loop of `deliver` always has
something to send.  It rests on `EventsType`, `PairsType` (the indices of the two nested
loops are in range) and `InOrderType`.  `PlanKeepsAll` says that the list handed to
`deliver` has every delivery to be sent exactly once, in the order of the loops: the rank
of a delivery among those to be sent is its place in the list (`RankedPlaces`).

### Plugins

`ResolveSorted`: for any finite set of plugins, `Resolve` lists exactly the attached ones,
each once, by order and name.  The order is a strict total one (`BeforeIsTotal`), and a
finite set can be sorted (`Sortable`): the number of plugins before a plugin is a bijection
to the places, by the theorems on cardinalities.  `NeverOlderThanPinned` relates the pins,
taken from the plugin cache when the Service was reconciled, with the plugins the build
gets, read from the same cache later.  It needs that a cached plugin is no newer than the
plugin (`Known`) and that nothing was pinned that the cache does not show by now (`Built`);
hence the cache may only move forward (`SyncStep`), also over a restart.

### SelfService

`Stored` says that every copy of the SelfService is truthful (`Sound`): it claims Ready of
a generation only if that one, or a later one, was provisioned, and names only a repository
that exists.  It also orders the generations of the copies, because an unlocked patch
computed from an old one must not count for the new generation.  `InHand` says the same
of the copy a reconcile works on; `Parts` that the parts name existing repositories and
that a part that differs from its cached copy is known to be stale; `Around` that a
repository that is not to be created is there.  `NoTakeover` is shown along with the
invariant: each action has one lemma for both (`Safe`), and `CreateOrUpdateStep` is the
place where a stale cache hides an object of someone else and the write is refused.

### Session of the agent

`Alone` says that only one handler is ever under way, and what the flag and the open port
tell about it; `Pure` that after the sync the edits are those of this handler; `Reported`
that what is to be reported is on the branch; `Traced` follows the change of each request:
before the first commit it is nowhere, and once the run failed it is either nowhere
(`Untouched`) or where the next sync that gets through discards it (`Discarded`).  `EndStep` and `MoveStep`
do the part that all ends and all moves of a handler share; each action then has a lemma.

### Rest

The invariants called `RInv` say why a reconciler that stops may stop.  All follow one
pattern: whatever is not as it should be is queued, or in the hand of the running
reconcile, or something an informer has still to show, which will queue it.  Each rests on
two facts: the watch ends with the object (what it delivers last *is* the object, so a
cache that has nothing to come is right), and a step that writes without queueing makes a new
version, which is delivered.

* CI: `WatchEnds`, `CDTrails` (the cached CD is the CD or an older one), `Working` (what a
  reconcile that nobody will repeat holds) and `Covered` (without another reconcile to
  come, the CI is finished for its spec, after a success with its CD).  That a stale copy was
  at work is harmless, since the optimistic lock refuses it and requeues; that this is so is
  `Same` of `Final` once more.
* CD: `Current` (what the caches say of CD, Deployment and Kubernetes Service is so, or
  known to be stale) and `Covered`.  The patch has no lock, so a reconcile of an old
  copy may write over a newer status; `Covered` says that this makes a version that
  differs, and is therefore delivered and put right.  `AsideCovered` treats all
  steps beside the reconciler.
* Service: `WatchEnds`, `AllJudged` (a copy that has failed for its generation says
  InvalidSource just if its spec is invalid) and `Working` (a refusal about to be written
  changes the Service).  The last is needed because this patch alone is followed by
  no requeue: if it could write what is there already, nothing would be delivered.
* Alert: `WatchEnds`, `PassCovers` (what the caches want sent is handled, in the list or
  failed) and `AllCovered` (with neither pass nor timer, all of it is handled).  A pass that
  patches with something failed sets the timer.
* Plugins: `Versions`, `PinsFit` and `Tried` say that pins, build and refusals agree with
  the plugins as far as the version numbers tell; `ServiceRests`, `CIRests` and
  `PluginsRest` are the pattern for each of the three reconcilers.
* SelfService: `WatchEnds`, `Told` (a cached part of ours is the object, or an event of it
  is under way), `Working` (a pass works for the spec it has read) and `Covered`: if no
  other pass is to come, the running one works on the SelfService as it is, and each part it
  has made so far is there or has an event of ours under way.  Its patch has no lock:
  if it changes nothing, the status it was to write is there already (`PatchRests`); if it
  changes anything, the watch brings it back.

### Left to TLC

The liveness properties: fairness and ENABLED are out of reach of the prover.  They are
`BuildSettles`, `QuotaIsRetried`, `DeletionCompletes`, `SuccessReachesCD`,
`StatusConverges`, `DeletionRemovesChildren`, `PipelineConverges`,
`ServiceDeletionCompletes`, `EventsArrive`, `SendingStops`, `SelfServiceConverges`,
`SelfServiceDeletionCompletes`, `PluginsConverge`, `AttachmentReported` and
`SessionRecovers`.  What fairness adds to the theorems about rest is that a reconciler
comes to rest at all.

The agent has no property of this kind: it has no queue to be left in, and what it does next
is another request.

Two lists are written without the operator one would think of first, because the prover
has no facts about it: `InOrder` takes members of a list by their rank and not by
`SelectSeq`, and `Resolve` is a sorted function on `1 .. Cardinality(...)` and not
`SetToSortSeq`.  The modules use no recursion.

## 5. Not modelled

* One object per reconciler: several Services that share a CI or CD by name, and CIs
  applied by hand, are left out.
* Several Services behind one Alert, and an Alert whose selector is invalid.
* Tags and SHAs as revision, and `Detected` facts, in `ServiceController`: pure functions
  of the answer of ls-remote and of the files checked out.
* A build Pod or a git call of the agent that hangs: neither has a deadline in the code,
  and nothing could be promised.
* Rebuilds of one commit give the same image name; `CDController` numbers images by
  build.  CI and CD are not composed in one module; `CDController` takes a CI that only
  moves forward as its environment.
* An `ensureCD` of the CI reconciler that, with a Service read before, undoes what a newer
  `syncCD` has written (`ci_controller.go` 300): in `ServiceController` a CI that succeeds
  writes its CD in one step.
* A process killed in the middle of a git command, which may leave a partial clone or a
  lock file in the agent's working copy, or between checkout and clean, which leaves the
  edits of before on a newer HEAD; and the orderly stop on SIGTERM, which waits for
  the run.
* An operator started without an agent key, with which no SelfService gets anywhere.
* `createWithSecrets` of the backend (`ownedSecrets.ts`): it makes its calls one after the
  other and cleans up by best effort.  A failing `deleteSecret` is ignored and a restart
  in between leaves the Secrets, so that nothing can be stated that the text does not say.
* The containers and scripts that each plugin type renders and the results read back;
  languages and templates; messages of the notifiers; the REST calls of the git providers;
  URL, path and revision validation; the agent's tools and model providers; the front-end
  and generated code: text processing and I/O without state of their own.

## 6. Plan

1. CI and CD composed through the objects they share, with the image name as a function
   of the commit.
2. Pure modules checked against reference definitions over bounded inputs: the order of
   Dockerfile sources, `ResolveRevision`.
