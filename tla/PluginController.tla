-------------------------- MODULE PluginController --------------------------
(***************************************************************************)
(* How CIPlugins get into builds (internal/plugins, ciplugin_controller.go,*)
(* service_plugins.go, ci_plugins.go, credentials.go): three reconcilers   *)
(* share the plugins of a namespace.  The CIPlugin reconciler reports which*)
(* Services run a plugin, the Service reconciler pins the plugins of its   *)
(* CI, the CI reconciler renders the pinned ones as steps of the build Pod.*)
(* Each reads its own mixture of cached objects; here they meet around ONE *)
(* Service and its CI.                                                     *)
(***************************************************************************)
EXTENDS Naturals, Sequences, FiniteSets

CONSTANTS
  Plugins,    \* the names of CIPlugins, numbered in alphabetical order
  Specs,      \* the specs of CIPlugins
  Plans       \* bound: what the outside world may do, see Plan

\* order; targetRefs names the Service; selector; spec.<type> is complete;
\* failurePolicy is Ignore; there is an explicit command; how it refers to the
\* Secret of the namespace.
SpecType == [order: 0 .. 1000, ref: BOOLEAN, selector: {"none", "empty", "label"},
             complete: BOOLEAN, ignore: BOOLEAN, command: BOOLEAN,
             secret: {"none", "required", "optional"}]

\* A namespace has finitely many plugins.
ASSUME PluginsAssumption ==
  Plugins \subseteq Nat \ {0} /\ IsFiniteSet(Plugins) /\ Specs \subseteq SpecType /\ Specs # {}

\* Which plugins may change, how many changes of them and of the Service there
\* are, which faults may happen, and how many of them together.
Plan == [plugins: SUBSET Plugins, changes: Nat, faults: SUBSET {"crash", "api"}, left: Nat]

ASSUME PlansAssumption == Plans \subseteq Plan

VARIABLES
  plugin, pluginSeen,    \* the CIPlugin of each name, and its cached copy
  service, serviceSeen,  \* the Service: the plugins it lists, its label
  ci, ciSeen,            \* the CI
  pinned,     \* history: the version of each plugin when the CI pinned it
  steps,      \* the plugin steps of the latest build Pod: name and version
  secret,     \* the Secret is missing, unlabelled or labelled
  failed,     \* the Service says PluginUnavailable
  pluginQueue, serviceQueue, ciQueue,   \* the work queues
  report,     \* the status patch that the CIPlugin reconciler is about to send
  pins,       \* the pins that the Service reconciler is about to write
  plan        \* what may still happen outside

pluginVars  == <<plugin, pluginSeen>>
serviceVars == <<service, serviceSeen>>
ciVars      == <<ci, ciSeen, pinned, steps>>
queues      == <<pluginQueue, serviceQueue, ciQueue>>
pending     == <<report, pins>>
outside     == <<secret, plan>>
vars == <<pluginVars, serviceVars, ciVars, queues, pending, failed, outside>>

\* The verdict of the condition Accepted, and the generation it is about.
Accepted == [verdict: {"unset", "Valid", "Invalid"}, gen: Nat]

\* ver numbers every content this name has had; a plugin that is made again
\* starts with generation 1.
Plugin == [there: BOOLEAN, ver: Nat, gen: Nat, spec: Specs, attached: BOOLEAN,
           accepted: Accepted, observed: Nat]
Service == [listed: SUBSET Plugins, labelled: BOOLEAN]
Pin == [name: Plugins, gen: Nat]
CI == [gen: Nat, pins: Seq(Pin), built: Nat, outcome: {"unset", "Building", "Failed"}]

Fresh(ver, spec) ==
  [there |-> TRUE, ver |-> ver, gen |-> 1, spec |-> spec, attached |-> FALSE,
   accepted |-> [verdict |-> "unset", gen |-> 0], observed |-> 0]
Absent(ver) == [Fresh(ver, CHOOSE s \in Specs : TRUE) EXCEPT !.there = FALSE, !.gen = 0]
NoReport == [name |-> 0, orig |-> Absent(0), new |-> Absent(0)]
NoPins == <<[name |-> 0, gen |-> 0]>>
NoSteps == <<[name |-> 0, ver |-> 0]>>

Init ==
  /\ plan \in Plans
  /\ plugin \in [Plugins -> {Absent(0)} \cup {Fresh(1, s) : s \in Specs}]
  /\ pluginSeen = plugin
  /\ service \in [listed: {{}} \cup {{p} : p \in Plugins}, labelled: {FALSE}]
  /\ serviceSeen = service
  /\ ci = [gen |-> 0, pins |-> <<>>, built |-> 0, outcome |-> "unset"] /\ ciSeen = ci
  /\ pinned = [p \in Plugins |-> 0] /\ steps = <<>>
  /\ secret \in {"missing", "plain", "labelled"} /\ failed = FALSE
  /\ pluginQueue = {p \in Plugins : plugin[p].there} /\ serviceQueue = TRUE /\ ciQueue = FALSE
  /\ report = NoReport /\ pins = NoPins

-----------------------------------------------------------------------------
(* Which plugins a Service runs.                                           *)

\* targetRefs, or a selector with at least one term.
Targets(p, s) == p.spec.ref \/ (p.spec.selector = "label" /\ s.labelled)

\* What the CIPlugin reconciler takes for attached.
AttachedTo(all, name, s) == name \in s.listed \/ Targets(all[name], s)

\* Resolve: the plugins the Service lists and those that target it ...
Attached(all, s) ==
  {p \in Plugins : all[p].there /\ (p \in s.listed \/ Targets(all[p], s))}

\* ... in whatever order the map of names yields them, sorted by order and name,
Before(all, p, q) ==
  \/ all[p].spec.order < all[q].spec.order
  \/ all[p].spec.order = all[q].spec.order /\ p < q
Resolve(all, s) ==
  CHOOSE names \in [1 .. Cardinality(Attached(all, s)) -> Attached(all, s)] :
    \A i, j \in DOMAIN names : i < j => Before(all, names[i], names[j])

\* ... and the listed names that do not exist.
Missing(all, s) == {p \in s.listed : ~ all[p].there}

Validate(spec) == spec.complete /\ (spec.ignore => spec.command)

Refs(all, names) == [i \in DOMAIN names |-> [name |-> names[i], gen |-> all[names[i]].gen]]

\* resolvePlugins fails rather than skip a plugin.
Refusal(all, s) ==
  Missing(all, s) # {} \/ \E p \in Attached(all, s) : ~ Validate(all[p].spec)

\* checkPodSpec for a Pod with the steps of these plugins: the Secret may only be
\* missing if every reference to it is optional.
checkPodSpec(all, names) ==
  LET refs == {all[names[i]].spec.secret : i \in DOMAIN names} \ {"none"}
  IN  \/ refs = {} \/ secret = "labelled"
      \/ secret = "missing" /\ refs = {"optional"}

-----------------------------------------------------------------------------
(* The CIPlugin reconciler.                                                *)

Status(p) ==
  LET own == pluginSeen[p]
  IN  [own EXCEPT
         !.accepted = [verdict |-> IF Validate(own.spec) THEN "Valid" ELSE "Invalid",
                       gen |-> own.gen],
         !.attached = AttachedTo(pluginSeen, p, serviceSeen), !.observed = own.gen]

\* Mutant: for an invalid plugin it returns early.
ReconcilePlugin_valid(p) ==
  /\ report = NoReport /\ p \in pluginQueue /\ pluginQueue' = pluginQueue \ {p}
  /\ report' = IF pluginSeen[p].there /\ Validate(pluginSeen[p].spec)
               THEN [name |-> p, orig |-> pluginSeen[p], new |-> Status(p)] ELSE NoReport
  /\ UNCHANGED <<pluginVars, serviceVars, ciVars, serviceQueue, ciQueue, pins, failed, outside>>

ReconcilePlugin(p) ==
  /\ report = NoReport /\ p \in pluginQueue /\ pluginQueue' = pluginQueue \ {p}
  /\ report' = IF pluginSeen[p].there
               THEN [name |-> p, orig |-> pluginSeen[p], new |-> Status(p)] ELSE NoReport
  /\ UNCHANGED <<pluginVars, serviceVars, ciVars, serviceQueue, ciQueue, pins, failed, outside>>

\* The merge patch, without a lock: it meets whatever has this name now.
MergePatch(server, old, new) ==
  [server EXCEPT
     !.accepted = IF new.accepted = old.accepted THEN @ ELSE new.accepted,
     !.attached = IF new.attached = old.attached THEN @ ELSE new.attached,
     !.observed = IF new.observed = old.observed THEN @ ELSE new.observed]

PatchPlugin ==
  /\ report # NoReport /\ report' = NoReport
  /\ LET p == report.name
     IN  \/ /\ plugin[p].there
            /\ plugin' = [plugin EXCEPT ![p] = MergePatch(@, report.orig, report.new)]
            /\ UNCHANGED pluginQueue
         \/ /\ ~ plugin[p].there /\ pluginQueue' = pluginQueue \cup {p}   \* NotFound: again
            /\ UNCHANGED plugin
  /\ UNCHANGED <<pluginSeen, serviceVars, ciVars, serviceQueue, ciQueue, pins, failed, outside>>

-----------------------------------------------------------------------------
(* The Service and the CI reconciler, as far as plugins go.                *)

\* Mutant: a refusal is tried again, but not reported.
ResolvePlugins_silent ==
  /\ pins = NoPins /\ serviceQueue
  /\ serviceQueue' = Refusal(pluginSeen, serviceSeen)
  /\ pins' = IF serviceQueue' THEN NoPins ELSE Refs(pluginSeen, Resolve(pluginSeen, serviceSeen))
  /\ UNCHANGED <<pluginVars, serviceVars, ciVars, pluginQueue, ciQueue, report, failed, outside>>

\* resolvePlugins; a failed Service tries again after a pause.
ResolvePlugins ==
  /\ pins = NoPins /\ serviceQueue
  /\ failed' = Refusal(pluginSeen, serviceSeen) /\ serviceQueue' = failed'
  /\ pins' = IF failed' THEN NoPins ELSE Refs(pluginSeen, Resolve(pluginSeen, serviceSeen))
  /\ UNCHANGED <<pluginVars, serviceVars, ciVars, pluginQueue, ciQueue, report, outside>>

\* Mutant: the generations are left out of the comparison.
SamePins_names(a, b) ==
  Len(a) = Len(b) /\ \A i \in DOMAIN a : a[i].name = b[i].name

SamePins(a, b) == a = b

\* CreateOrUpdate of the CI: nothing is sent when the cached one has these pins,
\* and a write decided on an old copy is refused and tried again.
EnsureCI ==
  /\ pins # NoPins /\ pins' = NoPins
  /\ \/ /\ ciSeen.gen > 0 /\ SamePins(ciSeen.pins, pins)
        /\ UNCHANGED <<ci, pinned, serviceQueue>>
     \/ /\ ciSeen.gen = 0 \/ ~ SamePins(ciSeen.pins, pins)
        /\ ciSeen = ci
        /\ ci' = [ci EXCEPT !.gen = ci.gen + 1, !.pins = pins]
        /\ pinned' = [p \in Plugins |-> IF \E i \in DOMAIN pins : pins[i].name = p
                                        THEN pluginSeen[p].ver ELSE 0]
        /\ UNCHANGED serviceQueue
     \/ /\ ciSeen.gen = 0 \/ ~ SamePins(ciSeen.pins, pins)
        /\ ciSeen # ci /\ serviceQueue' = TRUE /\ UNCHANGED <<ci, pinned>>
  /\ UNCHANGED <<pluginVars, serviceVars, ciSeen, steps, pluginQueue, ciQueue, report, failed, outside>>

Usable(p) == pluginSeen[p].there /\ Validate(pluginSeen[p].spec)
StepOf(p) == [name |-> p, ver |-> pluginSeen[p].ver]

\* Mutant: a plugin that cannot be rendered is left out.
pluginSteps_lenient(names) ==
  LET usable == SelectSeq(names, Usable) IN [i \in DOMAIN usable |-> StepOf(usable[i])]

\* A step for each pinned plugin, as it is now; or an error, and no build.
pluginSteps(names) ==
  IF \A i \in DOMAIN names : Usable(names[i])
  THEN [i \in DOMAIN names |-> StepOf(names[i])] ELSE NoSteps

\* The CI reconciler starts the build of a new CI or a new generation, or
\* records that it cannot.  Its patch is locked, so that nothing is recorded
\* from an old copy; what such an attempt does to the Pods is in CIController.
StartBuild ==
  /\ ciQueue /\ ciQueue' = FALSE
  /\ \/ /\ (ciSeen # ci \/ ci.built = ci.gen) /\ UNCHANGED <<ci, steps>>
     \/ /\ ciSeen = ci /\ ci.built # ci.gen
        /\ LET names == [i \in DOMAIN ci.pins |-> ci.pins[i].name]
               rendered == pluginSteps(names)
               starts == rendered # NoSteps /\ checkPodSpec(pluginSeen, names)
           IN  /\ ci' = [ci EXCEPT !.built = ci.gen,
                                   !.outcome = IF starts THEN "Building" ELSE "Failed"]
               /\ steps' = IF starts THEN rendered ELSE steps
  /\ UNCHANGED <<pluginVars, serviceVars, ciSeen, pinned, pluginQueue, serviceQueue, pending, failed, outside>>

-----------------------------------------------------------------------------
(* Informer caches, shared by the reconcilers, and what they wake.         *)

\* An event of a CIPlugin wakes its reconciler and every Service (servicesForPlugin).
PluginSync(p) ==
  /\ pluginSeen[p] # plugin[p] /\ pluginSeen' = [pluginSeen EXCEPT ![p] = plugin[p]]
  /\ pluginQueue' = pluginQueue \cup {p} /\ serviceQueue' = TRUE
  /\ UNCHANGED <<plugin, serviceVars, ciVars, ciQueue, pending, failed, outside>>

\* Mutant: only the plugins that the Service lists.
pluginsForService_listed(s) == {p \in s.listed : pluginSeen[p].there}

\* pluginsForService: every plugin, since any of them may be attached or detached.
pluginsForService(s) == {p \in Plugins : pluginSeen[p].there}

ServiceSync ==
  /\ serviceSeen # service /\ serviceSeen' = service
  /\ serviceQueue' = TRUE /\ pluginQueue' = pluginQueue \cup pluginsForService(service)
  /\ UNCHANGED <<pluginVars, service, ciVars, ciQueue, pending, failed, outside>>

CISync ==
  /\ ciSeen # ci /\ ciSeen' = ci /\ ciQueue' = TRUE /\ serviceQueue' = TRUE
  /\ UNCHANGED <<pluginVars, serviceVars, ci, pinned, steps, pluginQueue, pending, failed, outside>>

-----------------------------------------------------------------------------
(* Users, and what may go wrong.                                           *)

Change ==
  plan.changes > 0 /\ plan' = [plan EXCEPT !.changes = plan.changes - 1] /\ UNCHANGED secret

ChangePlugin(p, object) ==
  /\ Change /\ p \in plan.plugins /\ plugin' = [plugin EXCEPT ![p] = object]
  /\ UNCHANGED <<pluginSeen, serviceVars, ciVars, queues, pending, failed>>

CreatePlugin ==
  \E p \in Plugins, s \in Specs :
     ~ plugin[p].there /\ ChangePlugin(p, Fresh(plugin[p].ver + 1, s))

EditPlugin ==
  \E p \in Plugins : \E s \in Specs \ {plugin[p].spec} :
     /\ plugin[p].there
     /\ ChangePlugin(p, [plugin[p] EXCEPT !.spec = s, !.ver = @ + 1, !.gen = @ + 1])

DeletePlugin ==
  \E p \in Plugins : plugin[p].there /\ ChangePlugin(p, Absent(plugin[p].ver))

EditService ==
  /\ Change
  /\ \/ service' = [service EXCEPT !.labelled = ~ @]
     \/ \E p \in Plugins :
          service' = [service EXCEPT !.listed = IF p \in @ THEN @ \ {p} ELSE @ \cup {p}]
  /\ UNCHANGED <<pluginVars, serviceSeen, ciVars, queues, pending, failed>>

Fault(kind) ==
  /\ kind \in plan.faults /\ plan.left > 0
  /\ plan' = [plan EXCEPT !.left = plan.left - 1] /\ UNCHANGED secret

ApiError ==   \* a pending write fails and the key is retried
  /\ Fault("api")
  /\ \/ /\ report # NoReport /\ report' = NoReport
        /\ pluginQueue' = pluginQueue \cup {report.name} /\ UNCHANGED <<pins, serviceQueue>>
     \/ /\ pins # NoPins /\ pins' = NoPins /\ serviceQueue' = TRUE
        /\ UNCHANGED <<report, pluginQueue>>
  /\ UNCHANGED <<pluginVars, serviceVars, ciVars, ciQueue, failed>>

Crash ==
  /\ Fault("crash")
  /\ pluginSeen' = plugin /\ serviceSeen' = service /\ ciSeen' = ci
  /\ report' = NoReport /\ pins' = NoPins
  /\ pluginQueue' = {p \in Plugins : plugin[p].there} /\ serviceQueue' = TRUE
  /\ ciQueue' = (ci.gen > 0)
  /\ UNCHANGED <<plugin, service, ci, pinned, steps, failed>>

PluginReconciler  == PatchPlugin \/ \E p \in Plugins : ReconcilePlugin(p)
ServiceReconciler == ResolvePlugins \/ EnsureCI
CacheSync         == ServiceSync \/ CISync \/ \E p \in Plugins : PluginSync(p)

Next ==
  \/ PluginReconciler \/ ServiceReconciler \/ StartBuild \/ CacheSync
  \/ CreatePlugin \/ EditPlugin \/ DeletePlugin \/ EditService
  \/ ApiError \/ Crash

Spec == Init /\ [][Next]_vars

\* Each controller works its queue, and the watches deliver.
Fairness ==
  /\ WF_vars(PluginReconciler) /\ WF_vars(ServiceReconciler)
  /\ WF_vars(StartBuild) /\ WF_vars(CacheSync)

FairSpec == Spec /\ Fairness

-----------------------------------------------------------------------------
(* Properties.                                                             *)

\* Types of all variables.
TypeOK ==
  /\ {plugin, pluginSeen} \subseteq [Plugins -> Plugin]
  /\ {service, serviceSeen} \subseteq Service /\ {ci, ciSeen} \subseteq CI
  /\ pinned \in [Plugins -> Nat] /\ steps \in Seq([name: Plugins, ver: Nat])
  /\ secret \in {"missing", "plain", "labelled"} /\ plan \in Plan
  /\ pluginQueue \subseteq Plugins /\ {serviceQueue, ciQueue, failed} \subseteq BOOLEAN
  /\ report = NoReport \/ report \in [name: Plugins, orig: Plugin, new: Plugin]
  /\ pins = NoPins \/ pins \in Seq(Pin)

\* A build that runs for the present pins has every pinned plugin as a step, none
\* of them older than when it was pinned: the CI reconciler reads the plugins
\* again, after the Service reconciler did, and from a cache.
NeverOlderThanPinned ==
  ci.built = ci.gen /\ ci.outcome = "Building" =>
    /\ Len(steps) = Len(ci.pins)
    /\ \A i \in DOMAIN steps :
         steps[i].name = ci.pins[i].name /\ steps[i].ver >= pinned[steps[i].name]

\* The build of the pins is the one of the plugins as they are, or is refused for a
\* Secret that one of them needs.  A plugin deleted and made again has the
\* generation it had before, so that the CI may rest on the build before.
BuiltAsPinned ==
  /\ ci.pins = Refs(plugin, Resolve(plugin, service)) /\ ci.built = ci.gen
  /\ \/ \E p \in Attached(plugin, service) : plugin[p].ver # plugin[p].gen
     \/ /\ ci.outcome = "Building"
        /\ \A i \in DOMAIN steps : steps[i].ver = plugin[steps[i].name].ver
        /\ checkPodSpec(plugin, Resolve(plugin, service))
     \/ /\ ci.outcome = "Failed" /\ secret # "labelled"
        /\ \E p \in Attached(plugin, service) :
             plugin[p].spec.secret = "required"
             \/ (plugin[p].spec.secret = "optional" /\ secret = "plain")

\* The status of a plugin is true: whether it is valid, and that it is attached
\* just when the Service's builds run it.
StatusTrue(p) ==
  /\ plugin[p].observed = plugin[p].gen
  /\ plugin[p].accepted = [verdict |-> IF Validate(plugin[p].spec) THEN "Valid" ELSE "Invalid",
                           gen |-> plugin[p].gen]
  /\ plugin[p].attached = (p \in Attached(plugin, service))

\* No wake-up of the builds is lost: when the caches show everything and neither
\* the Service reconciler nor the CI reconciler has anything left to do, no plugin
\* is to be refused, and the CI pins exactly the attached ones as they are and has
\* their build or its refusal.
BuildsAtRest ==
  /\ pluginSeen = plugin /\ serviceSeen = service /\ ciSeen = ci
  /\ ~ serviceQueue /\ pins = NoPins /\ ~ ciQueue
  => ~ Refusal(plugin, service) /\ ~ failed /\ BuiltAsPinned

\* No wake-up of the CIPlugin reconciler is lost: a plugin that the caches show
\* with its Service as they are, and that is neither queued nor about to be
\* patched, has a true status.
StatusAtRest ==
  \A p \in Plugins :
    /\ plugin[p].there /\ pluginSeen[p] = plugin[p] /\ serviceSeen = service
    /\ p \notin pluginQueue /\ report.name # p
    => StatusTrue(p)

\* Once plugins and Service rest, a listed plugin that is missing or an attached
\* one that is invalid fails the Service, and else the CI comes to have the build
\* of exactly the attached ones as they are now.
PluginsConverge ==
  <>[](IF Refusal(plugin, service) THEN failed ELSE ~ failed /\ BuiltAsPinned)

\* The status of every plugin ends up true.
AttachmentReported ==
  <>[](\A p \in Plugins : plugin[p].there => StatusTrue(p))
=============================================================================
