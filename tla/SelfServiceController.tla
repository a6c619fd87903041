----------------------- MODULE SelfServiceController -----------------------
(***************************************************************************)
(* The SelfService reconciler (internal/controller/selfservice_*.go) and   *)
(* the git hosts (internal/gitprovider) working on ONE SelfService: make   *)
(* sure that the repository exists, run the coding agent on it, and create *)
(* the koptan Service that builds and deploys it.                          *)
(*                                                                         *)
(* Everything is created in one reconcile, part after part, each of which  *)
(* may fail or exist already; the status is patched WITHOUT a lock.  A     *)
(* reconcile is split at every call of the API server or the git host.     *)
(***************************************************************************)
EXTENDS Naturals, Sequences, FiniteSets

CONSTANTS
  Specs,      \* the specs: [create: BOOLEAN, repo: a repository, suspend: BOOLEAN]
  NoRepo,     \* no repository
  Refused,    \* the repositories whose URL validateHTTPSRepo refuses
  Plans,      \* bound: what the outside world may do, see Plan
  MaxLag      \* bound: versions of the SelfService the informer may trail by

Repos == {s.repo : s \in Specs}
Needs == {"secrets", "host"}   \* the Secrets are allowed; the git host answers
Kids  == {"secret", "agent", "expose", "service"}   \* Secret, Deployment and
         \* Service of the agent, and the koptan Service

ASSUME SpecsAssumption ==
  /\ Specs \subseteq [create: BOOLEAN, repo: Repos, suspend: BOOLEAN]
  /\ NoRepo \notin Repos /\ Refused \subseteq Repos
FaultKinds == Needs \cup {"lost", "race", "other", "remove", "dies", "api", "crash", "delete"}

\* Which faults may happen, how many of them together, and how many
\* generations the spec may have.
Plan == [faults: SUBSET FaultKinds, left: Nat, gens: Nat]

ASSUME PlansAssumption == Plans \subseteq Plan
ASSUME BoundsAssumption == MaxLag \in Nat

VARIABLES
  ss,         \* the SelfService at the API server
  watch,      \* versions of it the informer has not delivered yet
  cache,      \* the SelfService in the informer cache
  repos,      \* the repositories that exist
  child,      \* the objects in the place of each part
  seen,       \* the same in the informer caches
  stale,      \* the parts whose cached copy has an old resourceVersion
  ours,       \* those of which an undelivered event shows an object of ours
  pod,        \* the repository the running agent works on
  done,       \* history: the last generation provisioned to its end
  ready,      \* the needs that are met at the moment
  plan,       \* what may still happen outside
  queued,     \* the work queue holds the SelfService
  pc,         \* the next call of the running reconcile
  orig, my,   \* the SelfService as it was read, and with its new status
  mine,       \* orig has the resourceVersion of ss
  avail       \* the Deployment that ensureAgent returned has an available replica

ssVars     == <<ss, watch, cache>>
childVars  == <<child, seen, stale, ours>>
outside    == <<ready, plan>>
reconciler == <<pc, orig, my, mine, avail>>
vars == <<ssVars, repos, childVars, pod, done, outside, queued, reconciler>>

Failures == {"SecretNotAllowed", "RepoUnavailable"} \cup Kids
Messages == Failures \cup {"unset", "Suspended", "Ready", "Starting"}

\* The Ready condition: its message and its observedGeneration.
Condition == [message: Messages, gen: Nat]

Version == [life: {"new", "live", "deleting", "gone"}, gen: Nat, spec: Specs,
            phase: {"unset", "Provisioning", "Ready", "Failed"}, repo: Repos \cup {NoRepo},
            observed: Nat, cond: Condition]

\* What stands in the place of a part: nothing, ours, or someone else's.
Object == [by: {"nobody", "us", "other"}, repo: Repos \cup {NoRepo}, run: BOOLEAN]
Nothing == [by |-> "nobody", repo |-> NoRepo, run |-> FALSE]
Foreign == [Nothing EXCEPT !.by = "other"]

Blank(s) == [life |-> "new", gen |-> 1, spec |-> s, phase |-> "unset", repo |-> NoRepo,
             observed |-> 0, cond |-> [message |-> "unset", gen |-> 0]]
NoVersion == [Blank(CHOOSE s \in Specs : TRUE) EXCEPT !.life = "gone", !.gen = 0]

Init ==
  /\ \E s \in Specs : ss = Blank(s)
  /\ watch = <<>> /\ cache = ss
  /\ repos = {s.repo : s \in {t \in Specs : ~ t.create}}
  /\ child = [k \in Kids |-> Nothing] /\ seen = child /\ stale = {} /\ ours = {}
  /\ pod = NoRepo /\ done = 0
  /\ ready = Needs /\ plan \in Plans /\ queued = TRUE
  /\ pc = "idle" /\ orig = NoVersion /\ my = NoVersion /\ mine = FALSE /\ avail = FALSE

-----------------------------------------------------------------------------
(* The status.                                                             *)

PhaseOf(message) ==
  IF message \in Failures THEN "Failed"
  ELSE IF message = "Starting" THEN "Provisioning" ELSE "Ready"

\* The phase and the Ready condition.
setSelfServicePhase(v, message) ==
  [v EXCEPT !.phase = PhaseOf(message), !.cond = [message |-> message, gen |-> v.gen]]

\* Mutant: the patch marks whatever generation it meets as observed.
MergePatch_current(server, old, new) ==
  [server EXCEPT
     !.phase    = IF new.phase    = old.phase    THEN @ ELSE new.phase,
     !.repo     = IF new.repo     = old.repo     THEN @ ELSE new.repo,
     !.observed = server.gen,
     !.cond     = [new.cond EXCEPT !.gen = server.gen]]

\* client.MergeFrom: only the fields in which new differs from old are sent; the
\* conditions are one list, in which RepoReady names the repository.
MergePatch(server, old, new) ==
  [server EXCEPT
     !.phase    = IF new.phase    = old.phase    THEN @ ELSE new.phase,
     !.repo     = IF new.repo     = old.repo     THEN @ ELSE new.repo,
     !.observed = IF new.observed = old.observed THEN @ ELSE new.observed,
     !.cond     = IF new.cond = old.cond /\ new.repo = old.repo THEN @ ELSE new.cond]

-----------------------------------------------------------------------------
(* The steps of Reconcile.                                                 *)

\* A write of the SelfService, which the watch will deliver.
Store(v) == Len(watch) < MaxLag /\ ss' = v /\ watch' = Append(watch, v)

Return(requeue) ==
  /\ pc' = "idle" /\ orig' = NoVersion /\ my' = NoVersion /\ mine' = FALSE /\ avail' = FALSE
  /\ queued' = (queued \/ requeue)

Goto(label, v) == pc' = label /\ my' = v /\ UNCHANGED <<orig, mine, queued>>

\* Mutant: a failure is final until something changes.
Fail_final(message) ==
  /\ Goto("patch", [setSelfServicePhase(my, message) EXCEPT !.observed = my.gen])
  /\ UNCHANGED avail

\* markSelfServiceFailed, whatever the error; the key comes back after an interval.
Fail(message) ==
  /\ Goto("patchAgain", [setSelfServicePhase(my, message) EXCEPT !.observed = my.gen])
  /\ UNCHANGED avail

\* The part of provision that follows the repository.
Provision(url) == Goto("secret", [my EXCEPT !.repo = url]) /\ UNCHANGED avail

Reconcile ==
  /\ pc = "idle" /\ queued /\ queued' = FALSE
  /\ \/ cache.life = "gone" /\ UNCHANGED reconciler
     \/ /\ cache.life # "gone"
        /\ orig' = cache /\ my' = cache /\ mine' = (watch = <<>>) /\ avail' = FALSE
        /\ pc' = IF cache.life = "live" THEN "provision" ELSE "finalizer"
  /\ UNCHANGED <<ssVars, repos, childVars, pod, done, outside>>

\* Mutant: the finalizer is removed from the cached copy only.
UpdateFinalizer_kept ==
  /\ pc = "finalizer"
  /\ \/ /\ mine /\ my.life = "new"
        /\ Store([ss EXCEPT !.life = "live"]) /\ Return(TRUE)
     \/ my.life # "new" /\ Return(FALSE) /\ UNCHANGED <<ss, watch>>
     \/ my.life = "new" /\ ~ mine /\ Return(TRUE) /\ UNCHANGED <<ss, watch>>
  /\ UNCHANGED <<cache, repos, childVars, pod, done, outside>>

\* Update that adds the finalizer, or removes it from one being deleted.
UpdateFinalizer ==
  /\ pc = "finalizer"
  /\ \/ /\ mine
        /\ Store([ss EXCEPT !.life = IF my.life = "new" THEN "live" ELSE "gone"])
        /\ Return(my.life = "new")
     \/ ~ mine /\ Return(TRUE) /\ UNCHANGED <<ss, watch>>
  /\ UNCHANGED <<cache, repos, childVars, pod, done, outside>>

\* checkSecrets, and ensureRepo up to the first call of the git host.  A
\* repository that is reported for this generation is taken as it is.
provision ==
  /\ pc = "provision"
  /\ LET spec == my.spec  known == my.repo # NoRepo /\ my.observed = my.gen
     IN  \/ "secrets" \notin ready /\ Fail("SecretNotAllowed")
         \/ /\ "secrets" \in ready /\ ~ spec.create
            /\ IF spec.repo \in Refused THEN Fail("RepoUnavailable") ELSE Provision(spec.repo)
         \/ "secrets" \in ready /\ spec.create /\ known /\ Provision(my.repo)
         \/ /\ "secrets" \in ready /\ spec.create /\ ~ known
            /\ Goto("lookup", my) /\ UNCHANGED avail
  /\ UNCHANGED <<ssVars, repos, childVars, pod, done, outside>>

\* EnsureRepo answers with the clone URL, which has to be https.
Cloned(repo) == IF repo \in Refused THEN Fail("RepoUnavailable") ELSE Provision(repo)

\* What a GET makes of the host's answer: 404 is told from every other error.
Answer(repo) ==
  IF "host" \notin ready THEN "error" ELSE IF repo \in repos THEN "found" ELSE "not found"

\* EnsureRepo: GET the user, then the repository, which is returned as it is.
EnsureRepoGet ==
  /\ pc = "lookup"
  /\ \/ Answer(my.spec.repo) = "error" /\ Fail("RepoUnavailable")
     \/ Answer(my.spec.repo) = "found" /\ Cloned(my.spec.repo)
     \/ Answer(my.spec.repo) = "not found" /\ Goto("create", my) /\ UNCHANGED avail
  /\ UNCHANGED <<ssVars, repos, childVars, pod, done, outside>>

Fault(kind) ==
  kind \in plan.faults /\ plan.left > 0 /\ plan' = [plan EXCEPT !.left = plan.left - 1]

\* Mutant: whatever the host answers, the URL is taken for granted.
EnsureRepoPost_trusting ==
  /\ pc = "create"
  /\ \/ "host" \in ready /\ repos' = repos \cup {my.spec.repo}
     \/ "host" \notin ready /\ UNCHANGED repos
  /\ Cloned(my.spec.repo)
  /\ UNCHANGED <<ssVars, childVars, pod, done, outside>>

\* EnsureRepo: POST the repository (GitLab looks its namespace up first).  The
\* host refuses one that exists by now; the answer of a request that was carried
\* out may be lost.
EnsureRepoPost ==
  /\ pc = "create"
  /\ \/ /\ "host" \notin ready \/ my.spec.repo \in repos
        /\ Fail("RepoUnavailable") /\ UNCHANGED <<repos, outside>>
     \/ /\ "host" \in ready /\ my.spec.repo \notin repos
        /\ repos' = repos \cup {my.spec.repo}
        /\ \/ Cloned(my.spec.repo) /\ UNCHANGED outside
           \/ Fault("lost") /\ Fail("RepoUnavailable") /\ UNCHANGED ready
  /\ UNCHANGED <<ssVars, childVars, pod, done>>

\* What CreateOrUpdate makes of a part.
PartOf(v, part) ==
  [by |-> "us", repo |-> IF part \in {"agent", "service"} THEN v.repo ELSE NoRepo,
   run |-> part = "agent" /\ ~ v.spec.suspend]
Wanted(part) == PartOf(my, part)

\* Mutant: a part that exists is updated, whoever it belongs to.
CreateOrUpdate_any(part, fails) ==
  LET equal    == part \in {"secret", "service"} /\ seen[part] = Wanted(part)
      rejected == (seen[part].by = "nobody") # (child[part].by = "nobody")
      refused  == ~ equal /\ rejected
  IN  /\ fails = refused
      /\ child' = IF equal \/ refused THEN child ELSE [child EXCEPT ![part] = Wanted(part)]
      /\ stale' = IF child' = child THEN stale ELSE stale \cup {part}
      /\ ours'  = IF child' = child THEN ours ELSE ours \cup {part}
      /\ UNCHANGED seen

\* CreateOrUpdate of a part.  It fails when the cached object is controlled by
\* someone else, and when the write is rejected: a create because there is an
\* object already, an update because there is none or a newer one.  Secret and
\* koptan Service are only written when the cached object differs; the others
\* lack what the API server fills in and are always written.
CreateOrUpdate(part, fails) ==
  LET equal    == part \in {"secret", "service"} /\ seen[part] = Wanted(part)
      rejected == \/ (seen[part].by = "nobody") # (child[part].by = "nobody")
                  \/ child[part].by # "nobody" /\ part \in stale
      refused  == seen[part].by = "other" \/ (~ equal /\ rejected)
  IN  /\ fails = refused
      /\ child' = IF equal \/ refused THEN child ELSE [child EXCEPT ![part] = Wanted(part)]
      /\ stale' = IF child' = child THEN stale ELSE stale \cup {part}
      /\ ours'  = IF child' = child THEN ours ELSE ours \cup {part}
      /\ UNCHANGED seen

ensureAgentSecret ==
  /\ pc = "secret"
  /\ \/ CreateOrUpdate("secret", TRUE) /\ Fail("secret")
     \/ CreateOrUpdate("secret", FALSE) /\ Goto("agent", my) /\ UNCHANGED avail
  /\ UNCHANGED <<ssVars, repos, pod, done, outside>>

\* The Deployment it returns tells whether a replica is available.
ensureAgent ==
  /\ pc = "agent"
  /\ \/ CreateOrUpdate("agent", TRUE) /\ Fail("agent")
     \/ /\ CreateOrUpdate("agent", FALSE) /\ Goto("expose", my)
        /\ avail' = (pod # NoRepo)
  /\ UNCHANGED <<ssVars, repos, pod, done, outside>>

ensureAgentService ==
  /\ pc = "expose"
  /\ \/ CreateOrUpdate("expose", TRUE) /\ Fail("expose")
     \/ CreateOrUpdate("expose", FALSE) /\ Goto("service", my) /\ UNCHANGED avail
  /\ UNCHANGED <<ssVars, repos, pod, done, outside>>

\* How far the session is.
Outcome(v, available) ==
  IF v.spec.suspend THEN "Suspended" ELSE IF available THEN "Ready" ELSE "Starting"

\* ensureService, and the end of provision.
ensureService ==
  /\ pc = "service"
  /\ \/ CreateOrUpdate("service", TRUE) /\ Fail("service") /\ UNCHANGED done
     \/ /\ CreateOrUpdate("service", FALSE) /\ done' = my.gen /\ UNCHANGED avail
        /\ LET outcome == Outcome(my, avail)
           IN  Goto(IF outcome = "Starting" THEN "patchAgain" ELSE "patch",
                    [setSelfServicePhase(my, outcome) EXCEPT !.observed = my.gen])
  /\ UNCHANGED <<ssVars, repos, pod, outside>>

\* The status, without a lock; a SelfService that is gone gives an error.
patchStatus ==
  /\ pc \in {"patch", "patchAgain"}
  /\ LET w == MergePatch(ss, orig, my)
     IN  \/ ss.life # "gone" /\ w # ss /\ Store(w)
         \/ (ss.life = "gone" \/ w = ss) /\ UNCHANGED <<ss, watch>>
  /\ Return(pc = "patchAgain" \/ ss.life = "gone")
  /\ UNCHANGED <<cache, repos, childVars, pod, done, outside>>

ControllerStep ==
  \/ Reconcile \/ UpdateFinalizer \/ provision \/ EnsureRepoGet \/ EnsureRepoPost
  \/ ensureAgentSecret \/ ensureAgent \/ ensureAgentService \/ ensureService
  \/ patchStatus

-----------------------------------------------------------------------------
(* Informer caches: an event of the SelfService, or of a part it controls, *)
(* enqueues it (SetupWithManager).                                         *)

CacheSync ==
  /\ watch # <<>> /\ cache' = Head(watch) /\ watch' = Tail(watch) /\ queued' = TRUE
  /\ UNCHANGED <<ss, repos, childVars, pod, done, outside, reconciler>>

ChildSync(part) ==
  /\ part \in stale /\ stale' = stale \ {part} /\ ours' = ours \ {part}
  /\ seen' = [seen EXCEPT ![part] = child[part]]
  /\ queued' = (queued \/ part \in ours)
  /\ UNCHANGED <<ssVars, repos, child, pod, done, outside, reconciler>>

-----------------------------------------------------------------------------
(* Deployment controller and garbage collector of Kubernetes.              *)

\* The agent the Deployment asks for; a Deployment of someone else runs none of ours.
Runs(d) == IF d.run THEN d.repo ELSE NoRepo

AgentTurns(repo) ==
  /\ pod' = repo
  /\ LET told == IF child["agent"].by = "us" THEN {"agent"} ELSE {}
     IN  stale' = stale \cup told /\ ours' = ours \cup told
  /\ UNCHANGED <<ssVars, repos, child, seen, done, queued, reconciler>>

\* Strategy Recreate: the old pod is gone before the new one starts.
AgentStops ==
  pod # NoRepo /\ Runs(child["agent"]) # pod /\ AgentTurns(NoRepo) /\ UNCHANGED outside

AgentStarts ==
  /\ pod = NoRepo /\ Runs(child["agent"]) # NoRepo
  /\ AgentTurns(child["agent"].repo) /\ UNCHANGED outside

AgentDies == Fault("dies") /\ pod # NoRepo /\ AgentTurns(NoRepo) /\ UNCHANGED ready

\* An object appears in the place of a part, or goes from it.
Replace(part, object) ==
  /\ child' = [child EXCEPT ![part] = object] /\ stale' = stale \cup {part}
  /\ ours' = IF "us" \in {child[part].by, object.by} THEN ours \cup {part} ELSE ours
  /\ UNCHANGED <<ssVars, repos, seen, pod, done, ready, queued, reconciler>>

\* Parts without their owner are collected.
Collect ==
  /\ ss.life = "gone" /\ UNCHANGED plan
  /\ \E part \in Kids : child[part].by = "us" /\ Replace(part, Nothing)

-----------------------------------------------------------------------------
(* Users, and what may go wrong.                                           *)

\* A write by someone else, so no copy read before it is the current one.
OthersStore(v) == Store(v) /\ mine' = FALSE /\ UNCHANGED <<pc, orig, my, avail>>

EditSpec ==
  /\ ss.life \in {"new", "live"} /\ ss.gen < plan.gens
  /\ \E s \in Specs \ {ss.spec} : OthersStore([ss EXCEPT !.gen = ss.gen + 1, !.spec = s])
  /\ UNCHANGED <<cache, repos, childVars, pod, done, outside, queued>>

DeleteSS ==   \* without the finalizer it is gone at once
  /\ Fault("delete") /\ ss.life \in {"new", "live"}
  /\ OthersStore([ss EXCEPT !.life = IF ss.life = "new" THEN "gone" ELSE "deleting"])
  /\ UNCHANGED <<cache, repos, childVars, pod, done, ready, queued>>

\* Someone else creates a repository of that name.
RaceForRepo ==
  /\ Fault("race") /\ ss.spec.repo \notin repos /\ repos' = repos \cup {ss.spec.repo}
  /\ UNCHANGED <<ssVars, childVars, pod, done, ready, queued, reconciler>>

RemovePart ==
  /\ Fault("remove") /\ \E part \in Kids : child[part].by = "us" /\ Replace(part, Nothing)

\* An object of someone else takes the name of a part, and leaves it again.
OtherComes ==
  /\ Fault("other") /\ \E part \in Kids : child[part].by = "nobody" /\ Replace(part, Foreign)
OtherLeaves ==
  /\ \E part \in Kids : child[part].by = "other" /\ Replace(part, Nothing)
  /\ UNCHANGED plan

Break(need) ==
  /\ need \in ready /\ Fault(need) /\ ready' = ready \ {need}
  /\ UNCHANGED <<ssVars, repos, childVars, pod, done, queued, reconciler>>

Repair(need) ==
  /\ need \notin ready /\ ready' = ready \cup {need}
  /\ UNCHANGED <<ssVars, repos, childVars, pod, done, plan, queued, reconciler>>

\* The pending API call fails: in provision that is a failure like any other.
ApiError ==
  /\ Fault("api")
  /\ \/ pc \in Kids /\ Fail(pc)
     \/ pc \in {"finalizer", "patch", "patchAgain"} /\ Return(TRUE)
  /\ UNCHANGED <<ssVars, repos, childVars, pod, done, ready>>

Crash ==
  /\ Fault("crash")
  /\ cache' = ss /\ watch' = <<>> /\ seen' = child /\ stale' = {} /\ ours' = {}
  /\ pc' = "idle" /\ orig' = NoVersion /\ my' = NoVersion /\ mine' = FALSE /\ avail' = FALSE
  /\ queued' = TRUE
  /\ UNCHANGED <<ss, repos, child, pod, done, ready>>

Next ==
  \/ ControllerStep
  \/ CacheSync \/ \E part \in Kids : ChildSync(part)
  \/ AgentStops \/ AgentStarts \/ AgentDies \/ Collect
  \/ EditSpec \/ DeleteSS \/ RaceForRepo \/ RemovePart \/ OtherComes \/ OtherLeaves
  \/ ApiError \/ Crash
  \/ \E need \in Needs : Break(need) \/ Repair(need)

Spec == Init /\ [][Next]_vars

\* The manager works its queue, the watches deliver, Kubernetes acts on the
\* objects it is given.  Nothing makes users act or the needs come true.
Fairness ==
  /\ WF_vars(ControllerStep)
  /\ WF_vars(CacheSync \/ \E part \in Kids : ChildSync(part))
  /\ WF_vars(AgentStops \/ AgentStarts \/ Collect)

FairSpec == Spec /\ Fairness

-----------------------------------------------------------------------------
(* Properties.                                                             *)

\* Types of all variables.
TypeOK ==
  /\ {ss, cache, orig, my} \subseteq Version /\ watch \in Seq(Version)
  /\ repos \subseteq Repos /\ pod \in Repos \cup {NoRepo} /\ done \in Nat
  /\ {child, seen} \subseteq [Kids -> Object] /\ stale \subseteq Kids /\ ours \subseteq stale
  /\ ready \subseteq Needs /\ plan \in Plan /\ {queued, mine, avail} \subseteq BOOLEAN
  /\ pc \in {"idle", "finalizer", "provision", "lookup", "create", "patch", "patchAgain"}
            \cup Kids

\* Ready for the current generation is only said after every part was written
\* for that generation, although the spec may change under a reconcile and the
\* status is patched without a lock.
ReadyMeansProvisioned ==
  ss.cond.message \in {"Ready", "Suspended"} /\ ss.cond.gen = ss.gen => done = ss.gen

\* Status, agent and Service never name a repository that does not exist,
\* whatever the host answered to the request that should create it.
NoDanglingRepo ==
  {ss.repo, pod, child["agent"].repo, child["service"].repo} \subseteq repos \cup {NoRepo}

\* What belongs to someone else is never written, also when the caches still
\* show our own object, or none, in its place.
NoTakeover ==
  [][\A part \in Kids : child[part].by = "other" =>
       child'[part].by \in {"other", "nobody"} ]_vars

\* No wake-up of the SelfService is lost: when the caches show everything and no
\* reconcile runs or is queued, it is gone, or every part is what the spec asks
\* for, with an agent running, and the status says so of this generation.
ProvisionedAtRest ==
  pc = "idle" /\ ~ queued /\ watch = <<>> /\ stale = {}
  => \/ ss.life = "gone"
     \/ /\ ss.life = "live" /\ \A part \in Kids : child[part] = PartOf(ss, part)
        /\ ss.spec.create \/ ss.repo = ss.spec.repo
        /\ ss.spec.suspend \/ pod # NoRepo
        /\ ss.phase = "Ready" /\ ss.observed = ss.gen
        /\ ss.cond = [message |-> IF ss.spec.suspend THEN "Suspended" ELSE "Ready", gen |-> ss.gen]

\* Ready to work: nothing outside keeps the controller from its goal.
Unhindered ==
  /\ ss.life = "live" /\ ready = Needs
  /\ \A part \in Kids : child[part].by # "other"

\* Everything is in place for one repository, and the status says so.
InPlace ==
  /\ \A part \in Kids : child[part].by = "us"
  /\ child["agent"].repo = ss.repo /\ child["service"].repo = ss.repo
  /\ pod = (IF ss.spec.suspend THEN NoRepo ELSE ss.repo)
  /\ ss.phase = "Ready" /\ ss.cond.gen = ss.gen
  /\ ss.cond.message = IF ss.spec.suspend THEN "Suspended" ELSE "Ready"

\* The URL is refused on every retry.
Hopeless ==
  /\ ss.spec.repo \in Refused /\ (~ ss.spec.create \/ ss.repo = NoRepo)
  /\ ss.phase = "Failed" /\ ss.cond.message = "RepoUnavailable"

\* Whatever conflicts, name clashes, lost answers and stale patches there were:
\* once spec and surroundings come to rest, Secret, agent, Service and status
\* agree on one repository, the named one if it is an existing one.
SelfServiceConverges ==
  []<> ~ Unhindered \/
  <>[](/\ ss.observed = ss.gen
       /\ Hopeless \/ (InPlace /\ (~ ss.spec.create => ss.repo = ss.spec.repo)))

\* A deleted SelfService is released, and session and Service go with it.
SelfServiceDeletionCompletes ==
  <>[](ss.life \in {"deleting", "gone"}) =>
    <>[](ss.life = "gone" /\ pod = NoRepo /\ \A part \in Kids : child[part].by # "us")

\* ensureRepo "returns the clone URL, creating the repository when asked": what
\* is reported Ready for a generation is the repository that generation names.
RepoIsTheOneAsked ==
  ss.phase = "Ready" /\ ss.observed = ss.gen => ss.repo = ss.spec.repo

=============================================================================
