----------------------- MODULE PluginControllerProofs -----------------------
(***************************************************************************)
(* Proofs about the plugins of a build: what Resolve lists, that a build   *)
(* runs no plugin older than the one its CI pinned, and that no wake-up is *)
(* lost: what rests is right.  They hold for any finite set of plugins, all*)
(* specs, changes and faults.                                              *)
(***************************************************************************)
EXTENDS PluginController, FiniteSetTheorems, TLAPS

-----------------------------------------------------------------------------
(* The list of plugins.                                                    *)

\* Plugins are sorted by numbers: their orders and, for the same order, names.
LEMMA Numbered ==
  ASSUME NEW all \in [Plugins -> Plugin]
  PROVE  \A p \in Plugins : p \in Nat /\ all[p].spec.order \in Nat
<1>1. ASSUME NEW spec \in SpecType PROVE spec.order \in Nat
  <2>1. spec.order \in 0 .. 1000
    BY DEF SpecType
  <2> QED
    BY <2>1
<1>2. \A object \in Plugin : object.spec \in SpecType
  BY PluginsAssumption DEF Plugin
<1> QED
  BY <1>1, <1>2, PluginsAssumption

\* The order of sort.Slice in Resolve is a strict total order.
LEMMA BeforeIsTotal ==
  ASSUME NEW all \in [Plugins -> Plugin]
  PROVE  /\ \A p \in Plugins : ~ Before(all, p, p)
         /\ \A p, q \in Plugins : p = q \/ Before(all, p, q) \/ Before(all, q, p)
         /\ \A p, q, r \in Plugins : Before(all, p, q) /\ Before(all, q, r) => Before(all, p, r)
<1>1. \A p \in Plugins : ~ Before(all, p, p)
  BY Numbered DEF Before
<1>2. \A p, q \in Plugins : p = q \/ Before(all, p, q) \/ Before(all, q, p)
  BY Numbered DEF Before
<1>3. \A p, q, r \in Plugins : Before(all, p, q) /\ Before(all, q, r) => Before(all, p, r)
  BY Numbered DEF Before
<1> QED
  BY <1>1, <1>2, <1>3

\* The attached plugins are finitely many plugins that exist.
LEMMA AttachedFinite ==
  ASSUME NEW all, NEW s
  PROVE  /\ Attached(all, s) \subseteq Plugins /\ IsFiniteSet(Attached(all, s))
         /\ Cardinality(Attached(all, s)) \in Nat
<1>1. Attached(all, s) \in SUBSET Plugins
  BY DEF Attached
<1>2. IsFiniteSet(Attached(all, s))
  BY <1>1, FS_Subset, PluginsAssumption
<1> QED
  BY <1>1, <1>2, FS_CardinalityType

\* Any finite set of plugins can be sorted: each goes where the number of those
\* before it says.
LEMMA Sortable ==
  ASSUME NEW all \in [Plugins -> Plugin], NEW A \in SUBSET Plugins
  PROVE  \E names \in [1 .. Cardinality(A) -> A] :
           \A i, j \in DOMAIN names : i < j => Before(all, names[i], names[j])
<1> DEFINE n == Cardinality(A)
           lower(p) == {q \in A : Before(all, q, p)}
           rank == [p \in A |-> Cardinality(lower(p)) + 1]
           names == [i \in 1 .. n |-> CHOOSE p \in A : rank[p] = i]
<1>1. IsFiniteSet(A) /\ n \in Nat
  BY FS_Subset, FS_CardinalityType, PluginsAssumption
<1>2. ASSUME NEW p \in A
      PROVE  /\ lower(p) \in SUBSET A /\ IsFiniteSet(lower(p)) /\ p \notin lower(p)
             /\ Cardinality(lower(p)) \in Nat /\ Cardinality(lower(p)) + 1 <= n
  <2>1. lower(p) \in SUBSET A /\ p \notin lower(p)
    BY BeforeIsTotal
  <2>2. IsFiniteSet(lower(p)) /\ Cardinality(lower(p)) \in Nat
    BY <1>1, <2>1, FS_Subset, FS_CardinalityType
  <2>3. lower(p) \cup {p} \in SUBSET A
    BY <2>1
  <2>4. Cardinality(lower(p) \cup {p}) = Cardinality(lower(p)) + 1
    BY <2>1, <2>2, FS_AddElement
  <2>5. Cardinality(lower(p) \cup {p}) <= n
    BY <1>1, <2>3, FS_Subset
  <2> QED
    BY <2>1, <2>2, <2>4, <2>5
<1>3. ASSUME NEW p \in A, NEW q \in A, Before(all, p, q)
      PROVE  Cardinality(lower(p)) < Cardinality(lower(q))
  <2>1. lower(p) \cup {p} \in SUBSET lower(q)
    BY <1>3, BeforeIsTotal
  <2>2. Cardinality(lower(p) \cup {p}) = Cardinality(lower(p)) + 1
    BY <1>2, FS_AddElement
  <2>3. Cardinality(lower(p) \cup {p}) <= Cardinality(lower(q))
    BY <1>2, <2>1, FS_Subset
  <2>4. Cardinality(lower(p)) \in Nat /\ Cardinality(lower(q)) \in Nat
    BY <1>2
  <2> HIDE DEF lower
  <2> QED
    BY <2>2, <2>3, <2>4
<1>4. /\ \A p \in A : rank[p] \in 1 .. n
      /\ \A p, q \in A : Before(all, p, q) => rank[p] < rank[q]
  <2>1. \A p \in A : rank[p] = Cardinality(lower(p)) + 1
    OBVIOUS
  <2> HIDE DEF lower, rank
  <2> QED
    BY <1>1, <1>2, <1>3, <2>1
<1> HIDE DEF lower, rank
<1>5. rank \in Injection(A, 1 .. n)
  <2>1. rank \in [A -> 1 .. n]
    BY <1>4 DEF rank
  <2>2. \A p, q \in A : rank[p] = rank[q] => p = q
    BY <1>4, BeforeIsTotal
  <2> QED
    BY <2>1, <2>2 DEF Injection, IsInjective
<1>6. rank \in Surjection(A, 1 .. n)
  <2>1. IsFiniteSet(1 .. n) /\ Cardinality(1 .. n) = n
    BY <1>1, FS_Interval
  <2> QED
    BY <1>5, <2>1, FS_Injection
<1>7. \A i \in 1 .. n : names[i] \in A /\ rank[names[i]] = i
  BY <1>6 DEF Surjection
<1> HIDE DEF names
<1>8. names \in [1 .. n -> A]
  BY <1>7 DEF names
<1>9. ASSUME NEW i \in 1 .. n, NEW j \in 1 .. n, i < j
      PROVE  Before(all, names[i], names[j])
  <2>1. ~ Before(all, names[j], names[i]) /\ names[i] # names[j]
    BY <1>1, <1>4, <1>7, <1>9
  <2> QED
    BY <1>7, <2>1, BeforeIsTotal
<1> QED
  BY <1>8, <1>9

\* Resolve lists the attached plugins, each exactly once, by order and name.
THEOREM ResolveSorted ==
  ASSUME NEW all \in [Plugins -> Plugin], NEW s
  PROVE  LET names == Resolve(all, s)
             A     == Attached(all, s)
         IN  /\ names \in Seq(A) /\ Len(names) = Cardinality(A)
             /\ \A p \in A : \E i \in DOMAIN names : names[i] = p
             /\ \A i, j \in DOMAIN names : i < j => /\ Before(all, names[i], names[j])
                                                    /\ names[i] # names[j]
<1> DEFINE A     == Attached(all, s)
           names == Resolve(all, s)
           n     == Cardinality(A)
<1>1. A \in SUBSET Plugins /\ IsFiniteSet(A) /\ n \in Nat
  BY AttachedFinite
<1>2. /\ names \in [1 .. n -> A]
      /\ \A i, j \in DOMAIN names : i < j => Before(all, names[i], names[j])
  BY <1>1, Sortable DEF Resolve
<1> HIDE DEF A, names
<1>3. names \in Seq(A) /\ Len(names) = n /\ DOMAIN names = 1 .. n
  BY <1>1, <1>2
<1>4. \A i, j \in 1 .. n : i < j => names[i] # names[j]
  BY <1>1, <1>2, BeforeIsTotal
<1>5. \A p \in A : \E i \in 1 .. n : names[i] = p
  <2>1. names \in Injection(1 .. n, A)
    BY <1>1, <1>2, <1>4 DEF Injection, IsInjective
  <2>2. IsFiniteSet(1 .. n) /\ Cardinality(1 .. n) = n
    BY <1>1, FS_Interval
  <2>3. names \in Surjection(1 .. n, A)
    BY <1>1, <2>1, <2>2, FS_Injection
  <2> QED
    BY <2>3 DEF Surjection
<1> QED
  BY <1>2, <1>3, <1>4, <1>5 DEF A, names

-----------------------------------------------------------------------------
(* The invariant.                                                          *)

PluginStep == [name: Plugins, ver: Nat]
Report     == [name: Plugins, orig: Plugin, new: Plugin]

\* The plugins, of which the cache shows no future.
Known ==
  /\ plugin \in [Plugins -> Plugin] /\ pluginSeen \in [Plugins -> Plugin]
  /\ \A p \in Plugins : pluginSeen[p].ver <= plugin[p].ver

\* The CI and its build: nothing was pinned that the cache, which a build reads
\* its plugins from, does not show by now, and only a generation that exists was
\* built.
Built ==
  /\ ci \in CI /\ ciSeen \in CI /\ ci.built <= ci.gen
  /\ pinned \in [Plugins -> Nat] /\ \A p \in Plugins : pinned[p] <= pluginSeen[p].ver
  /\ steps \in Seq(PluginStep)
  /\ NeverOlderThanPinned

\* The writes in hand.
Pending ==
  /\ report = NoReport \/ report \in Report
  /\ pins = NoPins \/ pins \in Seq(Pin)

\* The Service, the queues, and what may still happen.
Around ==
  /\ service \in Service /\ serviceSeen \in Service
  /\ secret \in {"missing", "plain", "labelled"} /\ plan \in Plan
  /\ pluginQueue \subseteq Plugins
  /\ serviceQueue \in BOOLEAN /\ ciQueue \in BOOLEAN /\ failed \in BOOLEAN

\* The inductive invariant.
IInv == Known /\ Built /\ Pending /\ Around

-----------------------------------------------------------------------------
(* The pure parts.                                                         *)

\* What users make of a name.
LEMMA ObjectsTyped ==
  ASSUME NEW ver \in Nat
  PROVE  /\ \A s \in Specs : Fresh(ver, s) \in Plugin /\ Fresh(ver, s).ver = ver
         /\ Absent(ver) \in Plugin /\ Absent(ver).ver = ver
<1>1. ASSUME NEW s \in Specs PROVE Fresh(ver, s) \in Plugin /\ Fresh(ver, s).ver = ver
  <2>1. [verdict |-> "unset", gen |-> 0] \in Accepted
    BY DEF Accepted
  <2> QED
    BY <2>1 DEF Fresh, Plugin
<1> DEFINE s == CHOOSE s \in Specs : TRUE
           object == Fresh(ver, s)
<1>2. s \in Specs
  BY PluginsAssumption
<1> HIDE DEF s
<1>3. object \in Plugin /\ object.ver = ver
  BY <1>1, <1>2
<1> HIDE DEF object
<1>4. /\ [object EXCEPT !.there = FALSE, !.gen = 0] \in Plugin
      /\ [object EXCEPT !.there = FALSE, !.gen = 0].ver = ver
  BY <1>3 DEF Plugin
<1>5. Absent(ver) = [object EXCEPT !.there = FALSE, !.gen = 0]
  BY DEF Absent, object, s
<1> QED
  BY <1>1, <1>4, <1>5

\* What the CIPlugin reconciler reports is a status of the plugin.
LEMMA StatusTyped ==
  ASSUME Known, Around, NEW p \in Plugins
  PROVE  Status(p) \in Plugin
<1> DEFINE own      == pluginSeen[p]
           verdict  == IF Validate(own.spec) THEN "Valid" ELSE "Invalid"
           accepted == [verdict |-> verdict, gen |-> own.gen]
           attached == AttachedTo(pluginSeen, p, serviceSeen)
<1>1. own \in Plugin
  BY DEF Known
<1>2. accepted \in Accepted /\ own.gen \in Nat
  <2>1. own.gen \in Nat
    BY <1>1 DEF Plugin
  <2>2. verdict \in {"Valid", "Invalid"}
    OBVIOUS
  <2> QED
    BY <2>1, <2>2 DEF Accepted
<1>3. attached \in BOOLEAN
  BY DEF AttachedTo, Targets
<1>4. Status(p) = [own EXCEPT !.accepted = accepted, !.attached = attached, !.observed = own.gen]
  BY DEF Status
<1> HIDE DEF own, accepted, attached
<1> QED
  BY <1>1, <1>2, <1>3, <1>4 DEF Plugin

\* A merge patch of the status leaves a plugin with the version it had.
LEMMA MergeTyped ==
  ASSUME NEW server \in Plugin, NEW old \in Plugin, NEW new \in Plugin
  PROVE  /\ MergePatch(server, old, new) \in Plugin
         /\ MergePatch(server, old, new).ver = server.ver
<1> DEFINE accepted == IF new.accepted = old.accepted THEN server.accepted ELSE new.accepted
           attached == IF new.attached = old.attached THEN server.attached ELSE new.attached
           observed == IF new.observed = old.observed THEN server.observed ELSE new.observed
           merged == [server EXCEPT !.accepted = accepted, !.attached = attached,
                                    !.observed = observed]
<1>1. accepted \in Accepted /\ observed \in Nat
  BY DEF Plugin
<1>2. attached \in BOOLEAN
  <2>1. server.attached \in BOOLEAN /\ new.attached \in BOOLEAN
    BY DEF Plugin
  <2> QED
    BY <2>1
<1>3. MergePatch(server, old, new) = merged
  BY DEF MergePatch, Plugin
<1> HIDE DEF accepted, attached, observed
<1>4. merged \in Plugin /\ merged.ver = server.ver
  BY <1>1, <1>2 DEF Plugin
<1> QED
  BY <1>3, <1>4

\* The Service pins plugins of this namespace.
LEMMA RefsTyped ==
  ASSUME NEW all \in [Plugins -> Plugin], NEW s
  PROVE  Refs(all, Resolve(all, s)) \in Seq(Pin)
<1> DEFINE names == Resolve(all, s)
<1>1. names \in Seq(Plugins)
  <2>1. names \in Seq(Attached(all, s)) /\ Attached(all, s) \subseteq Plugins
    BY ResolveSorted, AttachedFinite
  <2> QED
    BY <2>1
<1> HIDE DEF names
<1>2. \A p \in Plugins : all[p].gen \in Nat
  BY DEF Plugin
<1>3. \A i \in 1 .. Len(names) : [name |-> names[i], gen |-> all[names[i]].gen] \in Pin
  BY <1>1, <1>2 DEF Pin
<1>4. Refs(all, names) \in Seq(Pin)
  BY <1>1, <1>3 DEF Refs
<1> QED
  BY <1>4 DEF names

\* The steps of a build are the pinned plugins, as the cache shows them.
LEMMA StepsTyped ==
  ASSUME Known, NEW names \in Seq(Plugins), pluginSteps(names) # NoSteps
  PROVE  /\ pluginSteps(names) \in Seq(PluginStep) /\ Len(pluginSteps(names)) = Len(names)
         /\ \A i \in 1 .. Len(names) :
              /\ pluginSteps(names)[i].name = names[i]
              /\ pluginSteps(names)[i].ver = pluginSeen[names[i]].ver
<1>1. pluginSteps(names) = [i \in 1 .. Len(names) |-> StepOf(names[i])]
  BY DEF pluginSteps
<1>2. \A p \in Plugins : StepOf(p) \in PluginStep /\ StepOf(p).name = p
                          /\ StepOf(p).ver = pluginSeen[p].ver
  BY DEF Known, Plugin, StepOf, PluginStep
<1>3. \A i \in 1 .. Len(names) : names[i] \in Plugins
  OBVIOUS
<1> HIDE DEF StepOf
<1> QED
  BY <1>1, <1>2, <1>3

-----------------------------------------------------------------------------
(* Steps of the parts of the state.                                        *)

\* The CI and its build rest while the cache catches up.
LEMMA BuiltKept ==
  ASSUME Built, UNCHANGED <<ci, pinned, steps>>, ciSeen' \in CI,
         pluginSeen \in [Plugins -> Plugin], pluginSeen' \in [Plugins -> Plugin],
         \A p \in Plugins : pluginSeen[p].ver <= pluginSeen'[p].ver
  PROVE  Built'
<1>1. ASSUME NEW p \in Plugins PROVE pinned[p] <= pluginSeen'[p].ver
  <2>1. pluginSeen[p].ver \in Nat /\ pluginSeen'[p].ver \in Nat /\ pinned[p] \in Nat
    BY DEF Built, Plugin
  <2>2. pinned[p] <= pluginSeen[p].ver /\ pluginSeen[p].ver <= pluginSeen'[p].ver
    BY DEF Built
  <2> QED
    BY <2>1, <2>2
<1>2. NeverOlderThanPinned'
  BY DEF Built, NeverOlderThanPinned
<1> QED
  BY <1>1, <1>2 DEF Built

\* So it does when the cache rests too.
LEMMA BuiltRests ==
  ASSUME IInv, UNCHANGED <<ci, ciSeen, pinned, steps, pluginSeen>>
  PROVE  Built'
<1>1. \A p \in Plugins : pluginSeen[p].ver \in Nat
  BY DEF IInv, Known, Plugin
<1> QED
  BY <1>1, BuiltKept DEF IInv, Known, Built

\* A plugin is written with a version not below the one it had.
LEMMA WriteStep ==
  ASSUME Known, NEW p \in Plugins, NEW object \in Plugin, plugin[p].ver <= object.ver,
         plugin' = [plugin EXCEPT ![p] = object], pluginSeen' = pluginSeen
  PROVE  Known'
<1>1. plugin' \in [Plugins -> Plugin]
  BY DEF Known
<1>2. ASSUME NEW q \in Plugins PROVE pluginSeen'[q].ver <= plugin'[q].ver
  <2>1. /\ pluginSeen[q].ver \in Nat /\ plugin[q].ver \in Nat /\ object.ver \in Nat
        /\ pluginSeen[q].ver <= plugin[q].ver
    BY DEF Known, Plugin
  <2>2. plugin'[q] = IF q = p THEN object ELSE plugin[q]
    BY DEF Known
  <2> QED
    BY <2>1, <2>2
<1> QED
  BY <1>1, <1>2 DEF Known

\* A fault or a change is one that the plan allows, and leaves a plan.
LEMMA PlanStep ==
  ASSUME plan \in Plan, Change \/ \E kind \in {"crash", "api"} : Fault(kind)
  PROVE  plan' \in Plan /\ secret' = secret
BY DEF Plan, Change, Fault

-----------------------------------------------------------------------------
(* Every step.                                                             *)

\* The initial state.
LEMMA InitIInv == Init => IInv
<1> SUFFICES ASSUME Init PROVE IInv
  OBVIOUS
<1>1. {Absent(0)} \cup {Fresh(1, s) : s \in Specs} \subseteq Plugin
  BY ObjectsTyped
<1>2. plugin \in [Plugins -> Plugin] /\ pluginSeen = plugin
  BY <1>1 DEF Init
<1>3. \A p \in Plugins : plugin[p].ver \in Nat
  BY <1>2 DEF Plugin
<1>4. Known
  BY <1>2, <1>3 DEF Known
<1>5. Built
  <2>1. ci = [gen |-> 0, pins |-> <<>>, built |-> 0, outcome |-> "unset"] /\ ciSeen = ci
    BY DEF Init
  <2>2. ci \in CI /\ ci.built = 0 /\ ci.gen = 0 /\ ci.outcome = "unset"
    BY <2>1 DEF CI
  <2>3. /\ pinned \in [Plugins -> Nat] /\ \A p \in Plugins : pinned[p] = 0
        /\ steps \in Seq(PluginStep)
    BY DEF Init
  <2> QED
    BY <1>2, <1>3, <2>1, <2>2, <2>3 DEF Built, NeverOlderThanPinned
<1>6. Pending
  BY DEF Init, Pending
<1>7. service \in Service /\ serviceSeen \in Service
  BY DEF Init, Service
<1>8. Around
  BY <1>7, PlansAssumption DEF Init, Around
<1> QED
  BY <1>4, <1>5, <1>6, <1>8 DEF IInv

\* The CIPlugin reconciler reads a plugin, and composes its status.
LEMMA ReconcileStep ==
  ASSUME IInv, NEW p \in Plugins, ReconcilePlugin(p) PROVE IInv'
<1>1. /\ UNCHANGED <<plugin, pluginSeen, service, serviceSeen, ci, ciSeen, pinned, steps,
                      serviceQueue, ciQueue, pins, failed, secret, plan>>
      /\ pluginQueue' = pluginQueue \ {p}
  BY DEF ReconcilePlugin, pluginVars, serviceVars, ciVars, outside
<1>2. report' = NoReport \/ report' \in Report
  <2>1. Status(p) \in Plugin /\ pluginSeen[p] \in Plugin
    BY StatusTyped DEF IInv, Known
  <2>2. [name |-> p, orig |-> pluginSeen[p], new |-> Status(p)] \in Report
    BY <2>1 DEF Report
  <2> QED
    BY <2>2 DEF ReconcilePlugin
<1>3. Known' /\ Built'
  BY <1>1, BuiltRests DEF IInv, Known
<1>4. Pending' /\ Around'
  BY <1>1, <1>2 DEF IInv, Pending, Around
<1> QED
  BY <1>3, <1>4 DEF IInv

\* Its patch meets whatever has the name now.
LEMMA PatchStep == ASSUME IInv, PatchPlugin PROVE IInv'
<1>1. /\ UNCHANGED <<pluginSeen, service, serviceSeen, ci, ciSeen, pinned, steps,
                      serviceQueue, ciQueue, pins, failed, secret, plan>>
      /\ report' = NoReport
  BY DEF PatchPlugin, serviceVars, ciVars, outside
<1> DEFINE p      == report.name
           merged == MergePatch(plugin[p], report.orig, report.new)
<1>2. p \in Plugins /\ report.orig \in Plugin /\ report.new \in Plugin
  BY DEF PatchPlugin, IInv, Pending, Report
<1>3. merged \in Plugin /\ merged.ver = plugin[p].ver /\ plugin[p].ver \in Nat
  <2>1. plugin[p] \in Plugin
    BY <1>2 DEF IInv, Known
  <2>2. plugin[p].ver \in Nat
    BY <2>1 DEF Plugin
  <2> QED
    BY <1>2, <2>1, <2>2, MergeTyped
<1>4. \/ plugin' = [plugin EXCEPT ![p] = merged] /\ pluginQueue' = pluginQueue
      \/ plugin' = plugin /\ pluginQueue' = pluginQueue \cup {p}
  BY DEF PatchPlugin
<1> HIDE DEF p, merged
<1>5. Known'
  <2>1. CASE plugin' = plugin
    BY <1>1, <2>1 DEF IInv, Known
  <2>2. CASE plugin' = [plugin EXCEPT ![p] = merged]
    <3>1. plugin[p].ver <= merged.ver /\ pluginSeen' = pluginSeen /\ Known
      BY <1>1, <1>3 DEF IInv
    <3> QED
      BY <1>2, <1>3, <2>2, <3>1, WriteStep
  <2> QED
    BY <1>4, <2>1, <2>2
<1>6. Built'
  BY <1>1, BuiltRests
<1>7. Pending' /\ Around'
  BY <1>1, <1>2, <1>4 DEF IInv, Pending, Around
<1> QED
  BY <1>5, <1>6, <1>7 DEF IInv

\* The Service reconciler resolves its plugins, or fails.
LEMMA ResolveStep == ASSUME IInv, ResolvePlugins PROVE IInv'
<1>1. UNCHANGED <<plugin, pluginSeen, service, serviceSeen, ci, ciSeen, pinned, steps,
                  pluginQueue, ciQueue, report, secret, plan>>
  BY DEF ResolvePlugins, pluginVars, serviceVars, ciVars, outside
<1>2. failed' \in BOOLEAN /\ serviceQueue' \in BOOLEAN
  <2>1. Refusal(pluginSeen, serviceSeen) \in BOOLEAN
    BY DEF Refusal
  <2>2. failed' = Refusal(pluginSeen, serviceSeen) /\ serviceQueue' = failed'
    BY DEF ResolvePlugins
  <2> QED
    BY <2>1, <2>2
<1>3. pins' = NoPins \/ pins' \in Seq(Pin)
  BY RefsTyped DEF ResolvePlugins, IInv, Known
<1>4. Known' /\ Built'
  BY <1>1, BuiltRests DEF IInv, Known
<1>5. Pending' /\ Around'
  BY <1>1, <1>2, <1>3 DEF IInv, Pending, Around
<1> QED
  BY <1>4, <1>5 DEF IInv

\* It writes the pins, which the cache showed when they were resolved or shows
\* by now, into a generation of the CI that nobody has built.
LEMMA EnsureStep == ASSUME IInv, EnsureCI PROVE IInv'
<1>1. /\ UNCHANGED <<plugin, pluginSeen, service, serviceSeen, ciSeen, steps,
                      pluginQueue, ciQueue, report, failed, secret, plan>>
      /\ pins' = NoPins /\ serviceQueue' \in BOOLEAN
  BY DEF EnsureCI, pluginVars, serviceVars, outside, IInv, Around
<1>2. Built'
  <2>1. CASE UNCHANGED <<ci, pinned>>
    BY <1>1, <2>1, BuiltRests
  <2>2. CASE /\ ci' = [ci EXCEPT !.gen = ci.gen + 1, !.pins = pins]
             /\ pinned' = [p \in Plugins |-> IF \E i \in DOMAIN pins : pins[i].name = p
                                             THEN pluginSeen[p].ver ELSE 0]
    <3>1. pins \in Seq(Pin)
      BY DEF EnsureCI, IInv, Pending
    <3>2. ci \in CI /\ ci.gen \in Nat /\ ci.built \in Nat /\ ci.built <= ci.gen
      BY DEF IInv, Built, CI
    <3>3. ci' \in CI /\ ci'.built = ci.built /\ ci'.gen = ci.gen + 1
      <4>1. ASSUME NEW gen \in Nat
            PROVE  LET c == [ci EXCEPT !.gen = gen, !.pins = pins]
                   IN  c \in CI /\ c.built = ci.built /\ c.gen = gen
        BY <3>1, <3>2 DEF CI
      <4>2. ci.gen + 1 \in Nat
        BY <3>2
      <4> QED
        BY <2>2, <4>1, <4>2
    <3>4. \A p \in Plugins : pluginSeen[p].ver \in Nat
      BY DEF IInv, Known, Plugin
    <3>5. pinned' \in [Plugins -> Nat] /\ \A p \in Plugins : pinned'[p] <= pluginSeen'[p].ver
      BY <1>1, <2>2, <3>4
    <3>6. ci'.built # ci'.gen /\ ci'.built <= ci'.gen
      BY <3>2, <3>3
    <3>7. NeverOlderThanPinned'
      BY <3>6 DEF NeverOlderThanPinned
    <3> QED
      BY <1>1, <3>3, <3>5, <3>6, <3>7 DEF IInv, Built
  <2> QED
    BY <2>1, <2>2 DEF EnsureCI
<1>3. Known' /\ Pending' /\ Around'
  BY <1>1 DEF IInv, Known, Pending, Around
<1> QED
  BY <1>2, <1>3 DEF IInv

\* The CI reconciler builds with the pinned plugins, each read from the cache
\* again, or records that it cannot.
LEMMA BuildStep == ASSUME IInv, StartBuild PROVE IInv'
<1>1. /\ UNCHANGED <<plugin, pluginSeen, service, serviceSeen, ciSeen, pinned,
                      pluginQueue, serviceQueue, report, pins, failed, secret, plan>>
      /\ ciQueue' = FALSE
  BY DEF StartBuild, pluginVars, serviceVars, pending, outside
<1>2. Built'
  <2>1. CASE UNCHANGED <<ci, steps>>
    BY <1>1, <2>1, BuiltRests
  <2>2. CASE ~ UNCHANGED <<ci, steps>>
    <3> DEFINE names    == [i \in DOMAIN ci.pins |-> ci.pins[i].name]
               rendered == pluginSteps(names)
               outcome  == IF rendered # NoSteps /\ checkPodSpec(pluginSeen, names)
                           THEN "Building" ELSE "Failed"
    <3>1. /\ ci' = [ci EXCEPT !.built = ci.gen, !.outcome = outcome]
          /\ steps' = IF rendered # NoSteps /\ checkPodSpec(pluginSeen, names)
                      THEN rendered ELSE steps
      BY <2>2 DEF StartBuild
    <3>2. ci \in CI /\ ci.gen \in Nat /\ ci.pins \in Seq(Pin)
      BY DEF IInv, Built, CI
    <3>3. /\ names \in Seq(Plugins) /\ Len(names) = Len(ci.pins) /\ DOMAIN ci.pins = 1 .. Len(ci.pins)
          /\ \A i \in DOMAIN ci.pins : names[i] = ci.pins[i].name
      <4>1. DOMAIN ci.pins = 1 .. Len(ci.pins) /\ Len(ci.pins) \in Nat
        BY <3>2
      <4>2. \A i \in 1 .. Len(ci.pins) : ci.pins[i] \in Pin
        BY <3>2
      <4>3. \A pin \in Pin : pin.name \in Plugins
        BY DEF Pin
      <4>4. \A i \in 1 .. Len(ci.pins) : ci.pins[i].name \in Plugins
        BY <4>2, <4>3
      <4> QED
        BY <4>1, <4>4
    <3> HIDE DEF names
    <3>4. rendered # NoSteps =>
            /\ rendered \in Seq(PluginStep) /\ Len(rendered) = Len(names)
            /\ \A i \in 1 .. Len(names) :
                 rendered[i].name = names[i] /\ rendered[i].ver = pluginSeen[names[i]].ver
      BY <3>3, StepsTyped DEF IInv
    <3> HIDE DEF rendered, outcome
    <3>5. outcome \in {"Building", "Failed"}
          /\ (outcome = "Building" => rendered # NoSteps /\ steps' = rendered)
          /\ (outcome # "Building" => steps' = steps)
      BY <3>1 DEF outcome
    <3>6. /\ ci' \in CI /\ ci'.gen = ci.gen /\ ci'.built = ci.gen /\ ci'.pins = ci.pins
          /\ ci'.outcome = outcome
      BY <3>1, <3>2, <3>5 DEF CI
    <3>7. steps' \in Seq(PluginStep)
      BY <3>4, <3>5 DEF IInv, Built
    <3>8. ASSUME outcome = "Building"
          PROVE  /\ Len(steps') = Len(ci'.pins)
                 /\ \A i \in DOMAIN steps' : /\ steps'[i].name = ci'.pins[i].name
                                              /\ steps'[i].ver >= pinned'[steps'[i].name]
      <4>1. steps' = rendered /\ Len(steps') = Len(ci.pins) /\ DOMAIN steps' = 1 .. Len(ci.pins)
        BY <3>3, <3>4, <3>5, <3>8
      <4>2. ASSUME NEW i \in 1 .. Len(ci.pins)
            PROVE  /\ steps'[i].name = ci.pins[i].name
                   /\ steps'[i].ver >= pinned[steps'[i].name]
        <5>1. names[i] \in Plugins /\ names[i] = ci.pins[i].name
          BY <3>3
        <5>2. steps'[i].name = names[i] /\ steps'[i].ver = pluginSeen[names[i]].ver
          BY <3>3, <3>4, <3>5, <3>8
        <5>3. pinned[names[i]] <= pluginSeen[names[i]].ver
          BY <5>1 DEF IInv, Built
        <5>4. pinned[names[i]] \in Nat /\ pluginSeen[names[i]].ver \in Nat
          BY <5>1 DEF IInv, Known, Built, Plugin
        <5> QED
          BY <5>1, <5>2, <5>3, <5>4
      <4> QED
        BY <1>1, <3>6, <4>1, <4>2
    <3>9. NeverOlderThanPinned'
      BY <3>6, <3>8 DEF NeverOlderThanPinned
    <3>10. ci'.built <= ci'.gen
      BY <3>2, <3>6
    <3> QED
      BY <1>1, <3>6, <3>7, <3>9, <3>10 DEF IInv, Built
  <2> QED
    BY <2>1, <2>2
<1>3. Known' /\ Pending' /\ Around'
  BY <1>1 DEF IInv, Known, Pending, Around
<1> QED
  BY <1>2, <1>3 DEF IInv

\* An informer delivers: what the cache shows of a plugin only gets newer.
LEMMA SyncStep == ASSUME IInv, CacheSync PROVE IInv'
<1>1. /\ UNCHANGED <<plugin, service, ci, pinned, steps, report, pins, failed, secret, plan>>
      /\ serviceQueue' = TRUE
  BY DEF CacheSync, PluginSync, ServiceSync, CISync, pluginVars, serviceVars, ciVars, pending, outside
<1>2. /\ pluginSeen' \in [Plugins -> Plugin]
      /\ \A p \in Plugins : pluginSeen'[p] \in {pluginSeen[p], plugin[p]}
  <2>1. CASE UNCHANGED pluginSeen
    BY <2>1 DEF IInv, Known
  <2>2. ASSUME NEW p \in Plugins, PluginSync(p) PROVE <1>2!1 /\ <1>2!2
    BY <2>2 DEF IInv, Known, PluginSync
  <2> QED
    BY <2>1, <2>2 DEF CacheSync, ServiceSync, CISync, pluginVars
<1>3. /\ \A p \in Plugins : /\ pluginSeen[p].ver <= pluginSeen'[p].ver
                             /\ pluginSeen'[p].ver <= plugin'[p].ver
  <2>1. \A p \in Plugins : /\ pluginSeen[p].ver \in Nat /\ plugin[p].ver \in Nat
                           /\ pluginSeen[p].ver <= plugin[p].ver
    BY DEF IInv, Known, Plugin
  <2> QED
    BY <1>1, <1>2, <2>1
<1>4. ciSeen' \in CI
  BY DEF CacheSync, PluginSync, ServiceSync, CISync, ciVars, IInv, Built
<1>5. Built'
  BY <1>1, <1>2, <1>3, <1>4, BuiltKept DEF IInv, Known
<1>6. serviceSeen' \in Service /\ ciQueue' \in BOOLEAN
  BY DEF CacheSync, PluginSync, ServiceSync, CISync, serviceVars, IInv, Around
<1>7. pluginQueue' \subseteq Plugins
  BY DEF CacheSync, PluginSync, ServiceSync, CISync, IInv, Around, pluginsForService
<1>8. Known' /\ Pending' /\ Around'
  BY <1>1, <1>2, <1>3, <1>6, <1>7 DEF IInv, Known, Pending, Around
<1> QED
  BY <1>5, <1>8 DEF IInv

\* A user makes, edits or deletes a plugin; the version of the name never falls.
LEMMA UserPluginStep == ASSUME IInv, CreatePlugin \/ EditPlugin \/ DeletePlugin PROVE IInv'
<1>1. /\ UNCHANGED <<pluginSeen, service, serviceSeen, ci, ciSeen, pinned, steps, pluginQueue,
                      serviceQueue, ciQueue, report, pins, failed>>
      /\ Change
  BY DEF CreatePlugin, EditPlugin, DeletePlugin, ChangePlugin, serviceVars, ciVars, queues, pending
<1>2. \A p \in Plugins : plugin[p] \in Plugin /\ plugin[p].ver \in Nat /\ plugin[p].gen \in Nat
  BY DEF IInv, Known, Plugin
<1>3. PICK p \in Plugins, object \in Plugin :
        plugin[p].ver <= object.ver /\ plugin' = [plugin EXCEPT ![p] = object]
  <2>1. CASE CreatePlugin
    <3>1. PICK p \in Plugins, s \in Specs : ChangePlugin(p, Fresh(plugin[p].ver + 1, s))
      BY <2>1 DEF CreatePlugin
    <3> DEFINE ver    == plugin[p].ver
               object == Fresh(ver + 1, s)
    <3>2. ver \in Nat /\ ver + 1 \in Nat
      BY <1>2
    <3>3. object \in Plugin /\ object.ver = ver + 1
      BY <3>2, ObjectsTyped
    <3>4. plugin' = [plugin EXCEPT ![p] = object]
      BY <3>1 DEF ChangePlugin
    <3> HIDE DEF object
    <3>5. plugin[p].ver <= object.ver
      BY <3>2, <3>3
    <3> QED
      BY <3>3, <3>4, <3>5
  <2>2. CASE EditPlugin
    <3>1. PICK p \in Plugins, s \in Specs :
            ChangePlugin(p, [plugin[p] EXCEPT !.spec = s, !.ver = @ + 1, !.gen = @ + 1])
      BY <2>2 DEF EditPlugin
    <3> DEFINE old    == plugin[p]
               object == [old EXCEPT !.spec = s, !.ver = old.ver + 1, !.gen = old.gen + 1]
    <3>2. old \in Plugin /\ old.ver + 1 \in Nat /\ old.gen + 1 \in Nat /\ old.ver <= old.ver + 1
      BY <1>2
    <3>3. plugin' = [plugin EXCEPT ![p] = object]
      BY <3>1 DEF ChangePlugin
    <3>4. object \in Plugin /\ object.ver = old.ver + 1
      <4> HIDE DEF old
      <4> QED
        BY <3>2 DEF Plugin
    <3> HIDE DEF object
    <3> QED
      BY <3>2, <3>3, <3>4
  <2>3. CASE DeletePlugin
    <3>1. PICK p \in Plugins : ChangePlugin(p, Absent(plugin[p].ver))
      BY <2>3 DEF DeletePlugin
    <3> DEFINE object == Absent(plugin[p].ver)
    <3>2. object \in Plugin /\ plugin[p].ver <= object.ver
      BY <1>2, ObjectsTyped
    <3>3. plugin' = [plugin EXCEPT ![p] = object]
      BY <3>1 DEF ChangePlugin
    <3> HIDE DEF object
    <3> QED
      BY <3>2, <3>3
  <2> QED
    BY <2>1, <2>2, <2>3
<1>4. Known'
  BY <1>1, <1>3, WriteStep DEF IInv
<1>5. Built'
  BY <1>1, BuiltRests
<1>6. Pending' /\ Around'
  BY <1>1, PlanStep DEF IInv, Pending, Around
<1> QED
  BY <1>4, <1>5, <1>6 DEF IInv

\* A user edits the Service.
LEMMA UserServiceStep == ASSUME IInv, EditService PROVE IInv'
<1>1. /\ UNCHANGED <<plugin, pluginSeen, serviceSeen, ci, ciSeen, pinned, steps, pluginQueue,
                      serviceQueue, ciQueue, report, pins, failed>>
      /\ Change
  BY DEF EditService, pluginVars, ciVars, queues, pending
<1>2. service' \in Service
  <2>1. service \in Service /\ service.listed \subseteq Plugins
    BY DEF IInv, Around, Service
  <2>2. CASE service' = [service EXCEPT !.labelled = ~ @]
    <3>1. (~ service.labelled) \in BOOLEAN
      OBVIOUS
    <3> QED
      BY <2>1, <2>2, <3>1 DEF Service
  <2>3. CASE \E p \in Plugins : service' = [service EXCEPT !.listed =
                                             IF p \in @ THEN @ \ {p} ELSE @ \cup {p}]
    <3>1. PICK names \in SUBSET Plugins : service' = [service EXCEPT !.listed = names]
      BY <2>1, <2>3
    <3> QED
      BY <2>1, <3>1 DEF Service
  <2> QED
    BY <2>2, <2>3 DEF EditService
<1>3. Known' /\ Built'
  BY <1>1, BuiltRests DEF IInv, Known
<1>4. Pending' /\ Around'
  BY <1>1, <1>2, PlanStep DEF IInv, Pending, Around
<1> QED
  BY <1>3, <1>4 DEF IInv

\* A write fails: the key is queued again.
LEMMA ApiErrorStep == ASSUME IInv, ApiError PROVE IInv'
<1>1. /\ UNCHANGED <<plugin, pluginSeen, service, serviceSeen, ci, ciSeen, pinned, steps, ciQueue,
                      failed>>
      /\ plan' \in Plan /\ secret' = secret
  BY PlanStep DEF ApiError, pluginVars, serviceVars, ciVars, IInv, Around
<1>2. Pending'
  BY DEF ApiError, IInv, Pending
<1>3. serviceQueue' \in BOOLEAN /\ pluginQueue' \subseteq Plugins
  <2>1. report # NoReport => report.name \in Plugins
    BY DEF IInv, Pending, Report
  <2> QED
    BY <2>1 DEF ApiError, IInv, Around
<1>4. Known' /\ Built'
  BY <1>1, BuiltRests DEF IInv, Known
<1>5. Around'
  BY <1>1, <1>3 DEF IInv, Around
<1> QED
  BY <1>2, <1>4, <1>5 DEF IInv

\* The operator crashes: the caches are read anew, and what was in hand is lost.
LEMMA CrashStep == ASSUME IInv, Crash PROVE IInv'
<1>1. /\ UNCHANGED <<plugin, service, ci, pinned, steps, failed>>
      /\ pluginSeen' = plugin /\ serviceSeen' = service /\ ciSeen' = ci
      /\ report' = NoReport /\ pins' = NoPins
      /\ pluginQueue' = {p \in Plugins : plugin[p].there} /\ serviceQueue' = TRUE
  BY DEF Crash
<1>2. plan' \in Plan /\ secret' = secret
  BY PlanStep DEF Crash, IInv, Around
<1>3. ciQueue' \in BOOLEAN
  <2>1. (ci.gen > 0) \in BOOLEAN
    OBVIOUS
  <2> QED
    BY <2>1 DEF Crash
<1>4. \A p \in Plugins : plugin[p].ver \in Nat /\ pluginSeen[p].ver <= plugin[p].ver
  BY DEF IInv, Known, Plugin
<1>5. Known'
  BY <1>1, <1>4 DEF IInv, Known
<1>6. Built'
  BY <1>1, <1>4, BuiltKept DEF IInv, Known, Built
<1>7. Pending' /\ Around'
  BY <1>1, <1>2, <1>3 DEF IInv, Pending, Around
<1> QED
  BY <1>5, <1>6, <1>7 DEF IInv

\* Every step keeps the invariant.
LEMMA NextIInv == ASSUME IInv, [Next]_vars PROVE IInv'
<1>1. CASE PluginReconciler
  BY <1>1, PatchStep, ReconcileStep DEF PluginReconciler
<1>2. CASE ServiceReconciler \/ StartBuild
  BY <1>2, ResolveStep, EnsureStep, BuildStep DEF ServiceReconciler
<1>3. CASE CacheSync
  BY <1>3, SyncStep
<1>4. CASE CreatePlugin \/ EditPlugin \/ DeletePlugin
  BY <1>4, UserPluginStep
<1>5. CASE EditService \/ ApiError \/ Crash
  BY <1>5, UserServiceStep, ApiErrorStep, CrashStep
<1>6. CASE UNCHANGED vars
  <2>1. UNCHANGED <<plugin, pluginSeen, service, serviceSeen, ci, ciSeen, pinned, steps, pluginQueue,
                    serviceQueue, ciQueue, report, pins, failed, secret, plan>>
    BY <1>6 DEF vars, pluginVars, serviceVars, ciVars, queues, pending, outside
  <2>2. Known' /\ Built'
    BY <2>1, BuiltRests DEF IInv, Known
  <2>3. Pending' /\ Around'
    BY <2>1 DEF IInv, Pending, Around
  <2> QED
    BY <2>2, <2>3 DEF IInv
<1> QED
  BY <1>1, <1>2, <1>3, <1>4, <1>5, <1>6 DEF Next

-----------------------------------------------------------------------------
(* The theorems.                                                           *)

\* In every reachable state the cache shows no plugin newer than it is and none
\* older than the CI pinned, and no generation of the CI was built that is not
\* there yet.
THEOREM PluginInvariant == Spec => []IInv
BY InitIInv, NextIInv, PTL DEF Spec

\* The variables have their types.
THEOREM PluginTypeCorrect == Spec => []TypeOK
<1>1. IInv => TypeOK
  <2> SUFFICES ASSUME IInv PROVE TypeOK
    OBVIOUS
  <2>1. {plugin, pluginSeen} \subseteq [Plugins -> Plugin]
    BY DEF IInv, Known
  <2>2. /\ {ci, ciSeen} \subseteq CI /\ pinned \in [Plugins -> Nat]
        /\ steps \in Seq([name: Plugins, ver: Nat])
    BY DEF IInv, Built, PluginStep
  <2>3. /\ {service, serviceSeen} \subseteq Service
        /\ secret \in {"missing", "plain", "labelled"} /\ plan \in Plan
        /\ pluginQueue \subseteq Plugins /\ {serviceQueue, ciQueue, failed} \subseteq BOOLEAN
    BY DEF IInv, Around
  <2>4. /\ report = NoReport \/ report \in [name: Plugins, orig: Plugin, new: Plugin]
        /\ pins = NoPins \/ pins \in Seq(Pin)
    BY DEF IInv, Pending, Report
  <2> QED
    BY <2>1, <2>2, <2>3, <2>4 DEF TypeOK
<1> QED
  BY <1>1, PluginInvariant, PTL

\* A build that runs has every pinned plugin as a step, none older than pinned.
THEOREM PinnedTheorem == Spec => []NeverOlderThanPinned
<1>1. IInv => NeverOlderThanPinned
  BY DEF IInv, Built
<1> QED
  BY <1>1, PluginInvariant, PTL

-----------------------------------------------------------------------------
(* The invariant of rest.                                                  *)

\* What a plugin moves to: its content stays, or it goes, or gets a new version.
Moved(old, new) ==
  /\ new.gen <= new.ver
  /\ \/ /\ new.there = old.there /\ new.ver = old.ver /\ new.spec = old.spec
     \/ ~ new.there /\ old.ver <= new.ver
     \/ old.ver < new.ver

\* A version of a name has one content, of which the cache may show more.
Shown(seen, object) ==
  /\ seen.gen <= seen.ver /\ object.gen <= object.ver
  /\ object.there /\ seen.ver = object.ver => seen.there /\ seen.spec = object.spec
Versions == \A p \in Plugins : Shown(pluginSeen[p], plugin[p])

\* The plugin is still the one that the pin was made from, if no plugin of this
\* name was ever deleted.
Current(pin, all) == all[pin.name].there /\ all[pin.name].ver = pin.gen

\* Pins are of plugins that the cache shows, and of valid ones.
Sound(list, all, seen) ==
  \A i \in 1 .. Len(list) :
    /\ list[i].gen <= seen[list[i].name].ver
    /\ Current(list[i], all) => Validate(all[list[i].name].spec)
PinsFit == Sound(ci.pins, plugin, pluginSeen) /\ (pins # NoPins => Sound(pins, plugin, pluginSeen))

\* The latest build of current pins runs them, or was refused for the Secret.
Names(list) == [i \in DOMAIN list |-> list[i].name]
Tried(c, run, all) ==
  /\ c.gen > 0 /\ c.built = c.gen /\ \A i \in 1 .. Len(c.pins) : Current(c.pins[i], all)
  => \/ /\ checkPodSpec(all, Names(c.pins)) /\ c.outcome = "Building"
        /\ \A i \in 1 .. Len(c.pins) : run[i].ver = c.pins[i].gen
     \/ ~ checkPodSpec(all, Names(c.pins)) /\ c.outcome = "Failed"

\* A Service that is not queued has resolved what the cache shows, and the pins
\* are in hand, in the CI, or in conflict with a CI that the cache lacks.
SeenRefs == Refs(pluginSeen, Resolve(pluginSeen, serviceSeen))
ServiceRests ==
  ~ serviceQueue => /\ ~ failed /\ ~ Refusal(pluginSeen, serviceSeen)
                    /\ pins # NoPins => pins = SeenRefs
                    /\ pins = NoPins /\ ciSeen = ci => ci.gen > 0 /\ ci.pins = SeenRefs

\* A CI that is not queued is built, or the cache lacks it.
CIRests == ~ ciQueue /\ ciSeen = ci => ci.built = ci.gen

\* A plugin that is not queued has its status in hand, or has it, or has changed.
PluginRests(p) ==
  IF report.name = p
  THEN pluginSeen[p].there /\ report.orig = pluginSeen[p] /\ report.new = Status(p)
  ELSE plugin[p].there /\ plugin[p] = pluginSeen[p] => Status(p) = pluginSeen[p]
PluginsRest == \A p \in Plugins \ pluginQueue : PluginRests(p)

RInv == /\ Versions /\ PinsFit /\ Tried(ci, steps, plugin)
        /\ ServiceRests /\ CIRests /\ PluginsRest

-----------------------------------------------------------------------------
(* The pure parts of rest.                                                 *)

\* A plugin that a user makes is at its first generation, and one that is gone
\* at none.
LEMMA ObjectsNumbered ==
  ASSUME NEW ver \in Nat
  PROVE  /\ \A s \in Specs : Fresh(ver, s).there /\ Fresh(ver, s).gen = 1 /\ Fresh(ver, s).spec = s
         /\ Absent(ver).gen = 0 /\ ~ Absent(ver).there
<1>1. \A s \in Specs : Fresh(ver, s).there /\ Fresh(ver, s).gen = 1 /\ Fresh(ver, s).spec = s
  BY DEF Fresh
<1> DEFINE s == CHOOSE s \in Specs : TRUE
           object == Fresh(ver, s)
<1>2. object \in Plugin
  BY ObjectsTyped, PluginsAssumption
<1> HIDE DEF object
<1>3. /\ [object EXCEPT !.there = FALSE, !.gen = 0].gen = 0
      /\ ~ [object EXCEPT !.there = FALSE, !.gen = 0].there
  BY <1>2 DEF Plugin
<1>4. Absent(ver) = [object EXCEPT !.there = FALSE, !.gen = 0]
  BY DEF Absent, object
<1> QED
  BY <1>1, <1>3, <1>4

\* Whether the Secret is fit depends on the specs of the plugins only.
LEMMA SameCheck ==
  ASSUME NEW names, NEW all, NEW other,
         \A i \in DOMAIN names : all[names[i]].spec = other[names[i]].spec
  PROVE  checkPodSpec(all, names) = checkPodSpec(other, names)
BY Zenon DEF checkPodSpec

\* A merge patch changes no content, and one that changes nothing had nothing
\* to say: then the status it was sent for is the one the plugin has.
LEMMA MergeKeeps ==
  ASSUME NEW server \in Plugin, NEW old \in Plugin, NEW new \in Plugin
  PROVE  LET merged == MergePatch(server, old, new)
         IN  /\ merged.there = server.there /\ merged.gen = server.gen /\ merged.spec = server.spec
             /\ merged = old => /\ new.accepted = old.accepted /\ new.attached = old.attached
                                /\ new.observed = old.observed
<1> DEFINE accepted == IF new.accepted = old.accepted THEN server.accepted ELSE new.accepted
           attached == IF new.attached = old.attached THEN server.attached ELSE new.attached
           observed == IF new.observed = old.observed THEN server.observed ELSE new.observed
           merged == [server EXCEPT !.accepted = accepted, !.attached = attached,
                                    !.observed = observed]
<1>1. MergePatch(server, old, new) = merged
  BY DEF MergePatch, Plugin
<1>2. /\ accepted = old.accepted => new.accepted = old.accepted
      /\ attached = old.attached => new.attached = old.attached
      /\ observed = old.observed => new.observed = old.observed
  OBVIOUS
<1> HIDE DEF accepted, attached, observed
<1>3. /\ merged.there = server.there /\ merged.gen = server.gen /\ merged.spec = server.spec
      /\ merged.accepted = accepted /\ merged.attached = attached /\ merged.observed = observed
  BY DEF Plugin
<1> HIDE DEF merged
<1> QED
  BY <1>1, <1>2, <1>3

\* The status that a plugin is about to get differs from the plugin in the three
\* fields of the status only.
LEMMA StatusFields ==
  ASSUME Known, NEW p \in Plugins
  PROVE  LET own == pluginSeen[p]
         IN  /\ Status(p).observed = own.gen
             /\ Status(p).accepted =
                  [verdict |-> IF Validate(own.spec) THEN "Valid" ELSE "Invalid", gen |-> own.gen]
             /\ Status(p).attached = AttachedTo(pluginSeen, p, serviceSeen)
             /\ (/\ Status(p).observed = own.observed /\ Status(p).accepted = own.accepted
                 /\ Status(p).attached = own.attached) => Status(p) = own
<1> DEFINE own      == pluginSeen[p]
           accepted == [verdict |-> IF Validate(own.spec) THEN "Valid" ELSE "Invalid", gen |-> own.gen]
           attached == AttachedTo(pluginSeen, p, serviceSeen)
           status   == [own EXCEPT !.accepted = accepted, !.attached = attached, !.observed = own.gen]
<1>1. own \in Plugin
  BY DEF Known
<1>2. Status(p) = status
  BY DEF Status
<1> HIDE DEF own, accepted, attached
<1>3. /\ status.observed = own.gen /\ status.accepted = accepted /\ status.attached = attached
      /\ own.gen = own.observed /\ accepted = own.accepted /\ attached = own.attached => status = own
  BY <1>1 DEF Plugin
<1> HIDE DEF status
<1> QED
  BY <1>2, <1>3 DEF own, accepted, attached

\* The mark of no pins in hand is no list of pins, and that of no steps no list
\* of steps.
LEMMA NoPinsIsNone == NoPins \notin Seq(Pin) /\ NoSteps \notin Seq(PluginStep)
<1>1. 0 \notin Plugins
  BY PluginsAssumption
<1>2. NoPins \notin Seq(Pin)
  <2> SUFFICES ASSUME NoPins \in Seq(Pin) PROVE FALSE
    OBVIOUS
  <2>1. NoPins[1] \in Pin /\ NoPins[1].name = 0
    BY DEF NoPins
  <2> QED
    BY <1>1, <2>1 DEF Pin
<1>3. NoSteps \notin Seq(PluginStep)
  <2> SUFFICES ASSUME NoSteps \in Seq(PluginStep) PROVE FALSE
    OBVIOUS
  <2>1. NoSteps[1] \in PluginStep /\ NoSteps[1].name = 0
    BY DEF NoSteps
  <2> QED
    BY <1>1, <2>1 DEF PluginStep
<1> QED
  BY <1>2, <1>3

\* So is a report about a plugin told from none.
LEMMA NoReportIsNone == \A p \in Plugins : NoReport.name # p
BY PluginsAssumption DEF NoReport

-----------------------------------------------------------------------------
(* Every step, for rest.                                                   *)

\* Users give a name new content under a new version, or none.
Renewed(old, new) ==
  /\ new.gen <= new.ver
  /\ (~ new.there /\ old.ver <= new.ver) \/ old.ver < new.ver

LEMMA UserWrites ==
  ASSUME IInv, Versions, CreatePlugin \/ EditPlugin \/ DeletePlugin
  PROVE  \A p \in Plugins : plugin'[p] = plugin[p] \/ Renewed(plugin[p], plugin'[p])
<1>1. \A p \in Plugins : /\ plugin[p] \in Plugin /\ plugin[p].ver \in Nat /\ plugin[p].gen \in Nat
                         /\ plugin[p].gen <= plugin[p].ver
  BY DEF IInv, Known, Plugin, Versions, Shown
<1>2. ASSUME NEW p \in Plugins, NEW object, Renewed(plugin[p], object),
             plugin' = [plugin EXCEPT ![p] = object]
      PROVE  \A q \in Plugins : plugin'[q] = plugin[q] \/ Renewed(plugin[q], plugin'[q])
  <2>1. \A q \in Plugins : plugin'[q] = IF q = p THEN object ELSE plugin[q]
    BY <1>2 DEF IInv, Known
  <2> QED
    BY <1>2, <2>1
<1>3. CASE CreatePlugin
  <2>1. PICK p \in Plugins, s \in Specs : ChangePlugin(p, Fresh(plugin[p].ver + 1, s))
    BY <1>3 DEF CreatePlugin
  <2> DEFINE ver    == plugin[p].ver
             object == Fresh(ver + 1, s)
  <2>2. ver \in Nat /\ ver + 1 \in Nat
    BY <1>1
  <2>3. object.ver = ver + 1 /\ object.gen = 1
    BY <2>2, ObjectsTyped, ObjectsNumbered
  <2>4. plugin' = [plugin EXCEPT ![p] = object]
    BY <2>1 DEF ChangePlugin
  <2> HIDE DEF object
  <2>5. Renewed(plugin[p], object)
    BY <2>2, <2>3 DEF Renewed
  <2> QED
    BY <1>2, <2>4, <2>5
<1>4. CASE EditPlugin
  <2>1. PICK p \in Plugins, s \in Specs :
          ChangePlugin(p, [plugin[p] EXCEPT !.spec = s, !.ver = @ + 1, !.gen = @ + 1])
    BY <1>4 DEF EditPlugin
  <2> DEFINE old    == plugin[p]
             object == [old EXCEPT !.spec = s, !.ver = old.ver + 1, !.gen = old.gen + 1]
  <2>2. /\ old \in Plugin /\ old.ver \in Nat /\ old.gen \in Nat /\ old.gen <= old.ver
        /\ old.ver + 1 \in Nat /\ old.gen + 1 \in Nat
    BY <1>1
  <2>3. plugin' = [plugin EXCEPT ![p] = object]
    BY <2>1 DEF ChangePlugin
  <2>4. object.ver = old.ver + 1 /\ object.gen = old.gen + 1
    <3> HIDE DEF old
    <3> QED
      BY <2>2 DEF Plugin
  <2> HIDE DEF object
  <2>5. Renewed(plugin[p], object)
    BY <2>2, <2>4 DEF Renewed
  <2> QED
    BY <1>2, <2>3, <2>5
<1>5. CASE DeletePlugin
  <2>1. PICK p \in Plugins : ChangePlugin(p, Absent(plugin[p].ver))
    BY <1>5 DEF DeletePlugin
  <2> DEFINE object == Absent(plugin[p].ver)
  <2>2. plugin[p].ver \in Nat
    BY <1>1
  <2>3. object.ver = plugin[p].ver /\ object.gen = 0 /\ ~ object.there
    BY <2>2, ObjectsTyped, ObjectsNumbered
  <2>4. plugin' = [plugin EXCEPT ![p] = object]
    BY <2>1 DEF ChangePlugin
  <2> HIDE DEF object
  <2>5. Renewed(plugin[p], object)
    BY <2>2, <2>3 DEF Renewed
  <2> QED
    BY <1>2, <2>4, <2>5
<1> QED
  BY <1>3, <1>4, <1>5

\* Nobody but users changes the content of a plugin.
LEMMA PluginsMove ==
  ASSUME IInv, Versions, [Next]_vars
  PROVE  \A p \in Plugins : Moved(plugin[p], plugin'[p])
<1>1. \A p \in Plugins : /\ plugin[p] \in Plugin /\ plugin[p].ver \in Nat /\ plugin[p].gen \in Nat
                         /\ plugin[p].gen <= plugin[p].ver
  BY DEF IInv, Known, Plugin, Versions, Shown
<1>2. CASE UNCHANGED plugin
  BY <1>1, <1>2 DEF Moved
<1>3. ASSUME NEW p \in Plugins, NEW object, Moved(plugin[p], object),
             plugin' = [plugin EXCEPT ![p] = object]
      PROVE  \A q \in Plugins : Moved(plugin[q], plugin'[q])
  <2>1. \A q \in Plugins : plugin'[q] = IF q = p THEN object ELSE plugin[q]
    BY <1>3 DEF IInv, Known
  <2>2. \A q \in Plugins : Moved(plugin[q], plugin[q])
    BY <1>1 DEF Moved
  <2> QED
    BY <1>3, <2>1, <2>2
<1>4. CASE PatchPlugin
  <2> DEFINE p      == report.name
             merged == MergePatch(plugin[p], report.orig, report.new)
  <2>1. p \in Plugins /\ report.orig \in Plugin /\ report.new \in Plugin
    BY <1>4 DEF PatchPlugin, IInv, Pending, Report
  <2>2. /\ merged.ver = plugin[p].ver /\ merged.there = plugin[p].there
        /\ merged.gen = plugin[p].gen /\ merged.spec = plugin[p].spec
    <3>1. plugin[p] \in Plugin
      BY <1>1, <2>1
    <3>2. merged.ver = plugin[p].ver
      BY <2>1, <3>1, MergeTyped
    <3>3. /\ merged.there = plugin[p].there /\ merged.gen = plugin[p].gen
          /\ merged.spec = plugin[p].spec
      BY <2>1, <3>1, MergeKeeps
    <3> QED
      BY <3>2, <3>3
  <2>3. plugin' = [plugin EXCEPT ![p] = merged] \/ UNCHANGED plugin
    BY <1>4 DEF PatchPlugin
  <2> HIDE DEF p, merged
  <2>4. Moved(plugin[p], merged)
    BY <1>1, <2>1, <2>2 DEF Moved
  <2> QED
    BY <1>2, <1>3, <2>1, <2>3, <2>4
<1>5. CASE CreatePlugin \/ EditPlugin \/ DeletePlugin
  <2>1. \A p \in Plugins : plugin'[p] = plugin[p] \/ Renewed(plugin[p], plugin'[p])
    BY <1>5, UserWrites
  <2> QED
    BY <1>1, <2>1 DEF Renewed, Moved
<1>6. \/ PatchPlugin \/ CreatePlugin \/ EditPlugin \/ DeletePlugin \/ UNCHANGED plugin
  BY DEF Next, PluginReconciler, ReconcilePlugin, ServiceReconciler, ResolvePlugins, EnsureCI,
         StartBuild, CacheSync, PluginSync, ServiceSync, CISync, EditService, ApiError, Crash,
         vars, pluginVars
<1> QED
  BY <1>2, <1>4, <1>5, <1>6

\* The cache shows what it showed, or what there is.
LEMMA CacheMoves ==
  ASSUME IInv, [Next]_vars
  PROVE  /\ \A p \in Plugins : \/ pluginSeen'[p] = pluginSeen[p]
                               \/ pluginSeen'[p] = plugin[p] /\ plugin'[p] = plugin[p]
         /\ secret' = secret
<1>1. secret' = secret
  BY DEF Next, PluginReconciler, PatchPlugin, ReconcilePlugin, ServiceReconciler, ResolvePlugins,
         EnsureCI, StartBuild, CacheSync, PluginSync, ServiceSync, CISync, CreatePlugin, EditPlugin,
         DeletePlugin, ChangePlugin, EditService, Change, ApiError, Crash, Fault, vars, outside
<1>2. \/ UNCHANGED pluginSeen
      \/ \E p \in Plugins : PluginSync(p)
      \/ pluginSeen' = plugin /\ plugin' = plugin
  BY DEF Next, PluginReconciler, PatchPlugin, ReconcilePlugin, ServiceReconciler, ResolvePlugins,
         EnsureCI, StartBuild, CacheSync, ServiceSync, CISync, CreatePlugin, EditPlugin,
         DeletePlugin, ChangePlugin, EditService, ApiError, Crash, vars, pluginVars
<1>3. ASSUME NEW p \in Plugins, PluginSync(p)
      PROVE  \A q \in Plugins : pluginSeen'[q] \in {pluginSeen[q], plugin[q]} /\ plugin' = plugin
  BY <1>3 DEF PluginSync, IInv, Known
<1> QED
  BY <1>1, <1>2, <1>3

\* The cache knows the content of a version.
LEMMA VersionsStep == ASSUME IInv, Versions, [Next]_vars PROVE Versions'
<1> SUFFICES ASSUME NEW p \in Plugins PROVE Shown(pluginSeen'[p], plugin'[p])
  BY DEF Versions
<1> DEFINE old == plugin[p]
           new == plugin'[p]
           seen == pluginSeen[p]
<1>1. /\ old.ver \in Nat /\ old.gen \in Nat /\ new.ver \in Nat /\ new.gen \in Nat
      /\ seen.ver \in Nat /\ seen.gen \in Nat /\ seen.ver <= old.ver
  <2>1. Known /\ Known'
    BY NextIInv DEF IInv
  <2>2. old \in Plugin /\ new \in Plugin /\ seen \in Plugin /\ seen.ver <= old.ver
    BY <2>1 DEF Known
  <2> QED
    BY <2>2 DEF Plugin
<1>2. Shown(seen, old) /\ Moved(old, new)
  BY PluginsMove DEF Versions
<1>3. pluginSeen'[p] = seen \/ (pluginSeen'[p] = old /\ new = old)
  BY CacheMoves
<1> HIDE DEF old, new, seen
<1>4. Shown(seen, new)
  BY <1>1, <1>2 DEF Shown, Moved
<1>5. Shown(old, old)
  BY <1>1, <1>2 DEF Shown
<1> QED
  BY <1>3, <1>4, <1>5 DEF new

\* A pin that is current after a step was so before, with the same content.
LEMMA CurrentBack ==
  ASSUME IInv, Versions, [Next]_vars, NEW list \in Seq(Pin), Sound(list, plugin, pluginSeen),
         NEW i \in 1 .. Len(list)
  PROVE  /\ list[i].name \in Plugins /\ list[i].gen <= pluginSeen'[list[i].name].ver
         /\ Current(list[i], plugin') =>
              /\ Current(list[i], plugin)
              /\ plugin'[list[i].name].spec = plugin[list[i].name].spec
<1> DEFINE pin  == list[i]
           n    == pin.name
           old  == plugin[n]
           new  == plugin'[n]
           seen == pluginSeen[n]
           next == pluginSeen'[n]
<1>1. pin \in Pin /\ n \in Plugins /\ pin.gen \in Nat
  <2>1. pin \in Pin
    OBVIOUS
  <2> HIDE DEF pin
  <2> QED
    BY <2>1 DEF Pin
<1>2. pin.gen <= seen.ver
  BY DEF Sound
<1>3. /\ old.ver \in Nat /\ new.ver \in Nat /\ seen.ver \in Nat /\ next.ver \in Nat
      /\ seen.ver <= old.ver
  <2>1. Known /\ Known'
    BY NextIInv DEF IInv
  <2>2. /\ old \in Plugin /\ new \in Plugin /\ seen \in Plugin /\ next \in Plugin
        /\ seen.ver <= old.ver
    BY <1>1, <2>1 DEF Known
  <2> QED
    BY <2>2 DEF Plugin
<1>4. Moved(old, new)
  BY <1>1, PluginsMove
<1>5. next = seen \/ next = old
  BY <1>1, CacheMoves
<1>6. Current(pin, plugin) <=> (old.there /\ old.ver = pin.gen)
  BY DEF Current
<1>7. Current(pin, plugin') <=> (new.there /\ new.ver = pin.gen)
  BY DEF Current
<1> HIDE DEF pin, n, old, new, seen, next
<1>8. n \in Plugins /\ pin.gen <= next.ver
  BY <1>1, <1>2, <1>3, <1>5
<1>9. ASSUME Current(pin, plugin') PROVE Current(pin, plugin) /\ new.spec = old.spec
  <2>1. new.there /\ new.ver = pin.gen /\ new.ver <= old.ver
    BY <1>1, <1>2, <1>3, <1>7, <1>9
  <2>2. ~ (old.ver < new.ver)
    BY <1>3, <2>1
  <2>3. new.there = old.there /\ new.ver = old.ver /\ new.spec = old.spec
    BY <1>4, <2>1, <2>2, Zenon DEF Moved
  <2> QED
    BY <1>6, <2>1, <2>3, Zenon
<1> QED
  BY <1>8, <1>9 DEF pin, n, old, new, next

\* Pins that fit go on to fit.
LEMMA SoundKept ==
  ASSUME IInv, Versions, [Next]_vars, NEW list \in Seq(Pin), Sound(list, plugin, pluginSeen)
  PROVE  Sound(list, plugin', pluginSeen')
<1> SUFFICES ASSUME NEW i \in 1 .. Len(list)
             PROVE  /\ list[i].gen <= pluginSeen'[list[i].name].ver
                    /\ Current(list[i], plugin') => Validate(plugin'[list[i].name].spec)
  BY Zenon DEF Sound
<1>1. Current(list[i], plugin) => Validate(plugin[list[i].name].spec)
  BY DEF Sound
<1> QED
  BY <1>1, CurrentBack

\* The pins that Resolve yields fit, if no plugin was refused.
LEMMA RefsSound ==
  ASSUME IInv, Versions, ~ Refusal(pluginSeen, serviceSeen)
  PROVE  SeenRefs \in Seq(Pin) /\ Sound(SeenRefs, plugin, pluginSeen)
<1> DEFINE names == Resolve(pluginSeen, serviceSeen)
<1>1. names \in Seq(Attached(pluginSeen, serviceSeen))
  BY ResolveSorted DEF IInv, Known
<1>2. \A n \in Attached(pluginSeen, serviceSeen) :
        n \in Plugins /\ pluginSeen[n].there /\ Validate(pluginSeen[n].spec)
  BY DEF Refusal, Attached
<1>3. SeenRefs = [i \in DOMAIN names |-> [name |-> names[i], gen |-> pluginSeen[names[i]].gen]]
  BY DEF SeenRefs, Refs
<1>4. SeenRefs \in Seq(Pin)
  BY RefsTyped DEF SeenRefs, IInv, Known
<1> HIDE DEF names
<1>5. /\ Len(SeenRefs) = Len(names) /\ DOMAIN names = 1 .. Len(names)
      /\ \A i \in 1 .. Len(names) : names[i] \in Attached(pluginSeen, serviceSeen)
  BY <1>1, <1>3
<1>6. ASSUME NEW i \in 1 .. Len(names)
      PROVE  /\ SeenRefs[i].gen <= pluginSeen[SeenRefs[i].name].ver
             /\ Current(SeenRefs[i], plugin) => Validate(plugin[SeenRefs[i].name].spec)
  <2> DEFINE n    == names[i]
             seen == pluginSeen[n]
             here == plugin[n]
  <2>1. SeenRefs[i].name = n /\ SeenRefs[i].gen = seen.gen
    BY <1>3, <1>5
  <2>2. n \in Plugins /\ Validate(seen.spec)
    BY <1>2, <1>5
  <2>3. Shown(seen, here)
    BY <2>2 DEF Versions
  <2>4. seen.ver \in Nat /\ seen.gen \in Nat /\ here.ver \in Nat /\ seen.ver <= here.ver
    <3>1. seen \in Plugin /\ here \in Plugin /\ seen.ver <= here.ver
      BY <2>2 DEF IInv, Known
    <3> QED
      BY <3>1 DEF Plugin
  <2>5. Current(SeenRefs[i], plugin) => here.there /\ here.ver = seen.gen
    BY <2>1 DEF Current
  <2> HIDE DEF n, seen, here
  <2>6. here.there /\ here.ver = seen.gen => here.spec = seen.spec
    BY <2>3, <2>4 DEF Shown
  <2> QED
    BY <2>1, <2>2, <2>3, <2>5, <2>6 DEF Shown, n, seen, here
<1> QED
  BY <1>4, <1>5, <1>6 DEF Sound

\* Whatever is pinned, or about to be, fits.
LEMMA PinsFitStep == ASSUME IInv, Versions, PinsFit, [Next]_vars PROVE PinsFit'
<1>1. ci.pins \in Seq(Pin)
  BY DEF IInv, Built, CI
<1>2. Sound(ci.pins, plugin', pluginSeen')
  BY <1>1, SoundKept DEF PinsFit
<1>3. pins # NoPins => Sound(pins, plugin', pluginSeen')
  BY SoundKept DEF PinsFit, IInv, Pending
<1>4. ci'.pins = ci.pins \/ (pins # NoPins /\ ci'.pins = pins)
  <2>1. CASE EnsureCI
    <3>1. ci \in CI
      BY DEF IInv, Built
    <3> QED
      BY <2>1, <3>1 DEF EnsureCI, CI
  <2>2. CASE StartBuild
    <3>1. ci \in CI
      BY DEF IInv, Built
    <3> QED
      BY <2>2, <3>1 DEF StartBuild, CI
  <2>3. CASE UNCHANGED ci
    BY <2>3
  <2> QED
    BY <2>1, <2>2, <2>3 DEF Next, PluginReconciler, PatchPlugin, ReconcilePlugin, ServiceReconciler,
       ResolvePlugins, CacheSync, PluginSync, ServiceSync, CISync, CreatePlugin, EditPlugin,
       DeletePlugin, ChangePlugin, EditService, ApiError, Crash, vars, ciVars
<1>5. CASE pins' = pins \/ pins' = NoPins
  BY <1>2, <1>3, <1>4, <1>5 DEF PinsFit
<1>6. CASE ResolvePlugins
  <2>1. UNCHANGED <<plugin, pluginSeen, ci>>
    BY <1>6 DEF ResolvePlugins, pluginVars, ciVars
  <2>2. pins' # NoPins => ~ Refusal(pluginSeen, serviceSeen) /\ pins' = SeenRefs
    BY <1>6 DEF ResolvePlugins, SeenRefs
  <2>3. pins' # NoPins => Sound(pins', plugin, pluginSeen)
    BY <2>2, RefsSound
  <2> QED
    BY <1>2, <2>1, <2>3 DEF PinsFit
<1>7. ResolvePlugins \/ pins' = pins \/ pins' = NoPins
  BY DEF Next, PluginReconciler, PatchPlugin, ReconcilePlugin, ServiceReconciler, EnsureCI,
         StartBuild, CacheSync, PluginSync, ServiceSync, CISync, CreatePlugin, EditPlugin,
         DeletePlugin, ChangePlugin, EditService, ApiError, Crash, vars, pending
<1> QED
  BY <1>5, <1>6, <1>7

\* The names of pins.
LEMMA NamesOfPins ==
  ASSUME NEW list \in Seq(Pin)
  PROVE  /\ Names(list) \in Seq(Plugins) /\ Len(Names(list)) = Len(list)
         /\ DOMAIN Names(list) = 1 .. Len(list) /\ DOMAIN list = 1 .. Len(list)
         /\ \A i \in 1 .. Len(list) : Names(list)[i] = list[i].name /\ list[i].name \in Plugins
<1>1. DOMAIN list = 1 .. Len(list) /\ Len(list) \in Nat
  OBVIOUS
<1>2. \A i \in 1 .. Len(list) : list[i] \in Pin
  OBVIOUS
<1>3. \A pin \in Pin : pin.name \in Plugins
  BY DEF Pin
<1>4. \A i \in 1 .. Len(list) : list[i].name \in Plugins
  BY <1>2, <1>3
<1> QED
  BY <1>1, <1>4 DEF Names

\* A build that was tried stays so: its plugins stay, or its pins are not current.
LEMMA TriedKept ==
  ASSUME IInv, Versions, PinsFit, Tried(ci, steps, plugin), [Next]_vars, UNCHANGED <<ci, steps>>
  PROVE  Tried(ci, steps, plugin')
<1> DEFINE list == ci.pins
<1>1. list \in Seq(Pin)
  BY DEF IInv, Built, CI
<1>2. Sound(list, plugin, pluginSeen)
  BY DEF PinsFit
<1> SUFFICES ASSUME ci.gen > 0, ci.built = ci.gen, \A i \in 1 .. Len(list) : Current(list[i], plugin')
             PROVE  \/ /\ checkPodSpec(plugin', Names(list)) /\ ci.outcome = "Building"
                       /\ \A i \in 1 .. Len(list) : steps[i].ver = list[i].gen
                    \/ ~ checkPodSpec(plugin', Names(list)) /\ ci.outcome = "Failed"
  BY Zenon DEF Tried
<1>3. \A i \in 1 .. Len(list) : /\ Current(list[i], plugin)
                                /\ plugin'[list[i].name].spec = plugin[list[i].name].spec
  <2> HIDE DEF list
  <2> QED
    BY <1>1, <1>2, CurrentBack
<1>4. checkPodSpec(plugin', Names(list)) = checkPodSpec(plugin, Names(list))
  <2>1. \A i \in DOMAIN Names(list) : plugin'[Names(list)[i]].spec = plugin[Names(list)[i]].spec
    BY <1>1, <1>3, NamesOfPins
  <2> QED
    BY <2>1, SameCheck
<1>5. \/ /\ checkPodSpec(plugin, Names(list)) /\ ci.outcome = "Building"
         /\ \A i \in 1 .. Len(list) : steps[i].ver = list[i].gen
      \/ ~ checkPodSpec(plugin, Names(list)) /\ ci.outcome = "Failed"
  BY <1>3, Zenon DEF Tried
<1> QED
  BY <1>4, <1>5, Zenon

\* Current pins are all usable, so that only the Secret can stop their build.
LEMMA BuildTried ==
  ASSUME IInv, Versions, PinsFit, StartBuild, ~ UNCHANGED <<ci, steps>>
  PROVE  Tried(ci', steps', plugin)
<1> DEFINE list     == ci.pins
           names    == Names(list)
           rendered == pluginSteps(names)
           starts   == rendered # NoSteps /\ checkPodSpec(pluginSeen, names)
           outcome  == IF starts THEN "Building" ELSE "Failed"
<1>1. /\ ci' = [ci EXCEPT !.built = ci.gen, !.outcome = outcome]
      /\ steps' = IF starts THEN rendered ELSE steps
  BY DEF StartBuild, Names
<1>2. list \in Seq(Pin) /\ ci \in CI
  BY DEF IInv, Built, CI
<1>3. ci'.pins = list /\ ci'.outcome = outcome
  <2> HIDE DEF outcome
  <2> QED
    BY <1>1, <1>2 DEF CI
<1> HIDE DEF list
<1> SUFFICES ASSUME \A i \in 1 .. Len(list) : Current(list[i], plugin)
             PROVE  \/ /\ checkPodSpec(plugin, names) /\ outcome = "Building"
                       /\ \A i \in 1 .. Len(list) : steps'[i].ver = list[i].gen
                    \/ ~ checkPodSpec(plugin, names) /\ outcome = "Failed"
  BY <1>3, Zenon DEF Tried
<1>4. ASSUME NEW i \in 1 .. Len(list)
      PROVE  /\ Usable(names[i]) /\ pluginSeen[names[i]].ver = list[i].gen
             /\ pluginSeen[names[i]].spec = plugin[names[i]].spec
  <2> DEFINE n    == names[i]
             seen == pluginSeen[n]
             here == plugin[n]
             gen  == list[i].gen
  <2>1. n = list[i].name /\ n \in Plugins
    BY <1>2, NamesOfPins
  <2>2. gen <= seen.ver /\ here.there /\ here.ver = gen /\ Validate(here.spec)
    BY <2>1 DEF PinsFit, Sound, Current, list
  <2>3. seen.ver \in Nat /\ here.ver \in Nat /\ seen.ver <= here.ver
    <3>1. seen \in Plugin /\ here \in Plugin /\ seen.ver <= here.ver
      BY <2>1 DEF IInv, Known
    <3> QED
      BY <3>1 DEF Plugin
  <2>4. Shown(seen, here)
    BY <2>1 DEF Versions
  <2>5. Usable(n) <=> (seen.there /\ Validate(seen.spec))
    BY DEF Usable
  <2> HIDE DEF n, seen, here, gen
  <2>6. seen.ver = here.ver
    BY <2>2, <2>3
  <2>7. seen.there /\ seen.spec = here.spec
    BY <2>2, <2>4, <2>6 DEF Shown
  <2> QED
    BY <2>2, <2>5, <2>6, <2>7 DEF n, seen, here, gen
<1>5. checkPodSpec(pluginSeen, names) = checkPodSpec(plugin, names)
  <2>1. \A i \in DOMAIN names : pluginSeen[names[i]].spec = plugin[names[i]].spec
    BY <1>2, <1>4, NamesOfPins
  <2> HIDE DEF names
  <2> QED
    BY <2>1, SameCheck
<1>6. names \in Seq(Plugins) /\ DOMAIN names = 1 .. Len(list) /\ Len(names) = Len(list)
  BY <1>2, NamesOfPins
<1> HIDE DEF names
<1>7. rendered = [i \in DOMAIN names |-> StepOf(names[i])]
  BY <1>4, <1>6 DEF pluginSteps
<1>8. rendered # NoSteps
  <2>1. \A i \in 1 .. Len(list) : names[i] \in Plugins
    BY <1>6
  <2>2. \A p \in Plugins : StepOf(p) \in PluginStep
    BY DEF StepOf, PluginStep, IInv, Known, Plugin
  <2>3. \A i \in DOMAIN names : StepOf(names[i]) \in PluginStep
    BY <1>6, <2>1, <2>2
  <2> HIDE DEF StepOf
  <2>4. rendered \in Seq(PluginStep)
    BY <1>6, <1>7, <2>3
  <2> QED
    BY <2>4, NoPinsIsNone
<1>9. \A i \in 1 .. Len(list) : rendered[i].ver = pluginSeen[names[i]].ver
  BY <1>6, <1>8, StepsTyped DEF IInv
<1> HIDE DEF rendered
<1>10. CASE checkPodSpec(plugin, names)
  <2>1. outcome = "Building" /\ steps' = rendered
    BY <1>1, <1>5, <1>8, <1>10
  <2> HIDE DEF outcome
  <2> QED
    BY <1>4, <1>9, <1>10, <2>1
<1>11. CASE ~ checkPodSpec(plugin, names)
  BY <1>5, <1>11
<1> QED
  BY <1>10, <1>11

\* The latest build of current pins is the right one.
LEMMA TriedStep ==
  ASSUME IInv, Versions, PinsFit, Tried(ci, steps, plugin), [Next]_vars
  PROVE  Tried(ci, steps, plugin)'
<1>1. secret' = secret
  BY CacheMoves
<1>2. SUFFICES Tried(ci', steps', plugin')
  <2>1. checkPodSpec(plugin, Names(ci.pins))' = checkPodSpec(plugin', Names(ci'.pins))
    BY <1>1 DEF checkPodSpec, Names
  <2> QED
    BY <2>1 DEF Tried, Current
<1>3. CASE UNCHANGED <<ci, steps>>
  BY <1>3, TriedKept
<1>4. CASE StartBuild /\ ~ UNCHANGED <<ci, steps>>
  <2>1. plugin' = plugin
    BY <1>4 DEF StartBuild, pluginVars
  <2> QED
    BY <1>4, <2>1, BuildTried
<1>5. CASE EnsureCI /\ ~ UNCHANGED <<ci, steps>>
  <2> DEFINE gen == ci.gen + 1
  <2>1. ci \in CI /\ ci.gen \in Nat /\ gen \in Nat /\ ci.built \in Nat /\ ci.built < gen
    BY DEF IInv, Built, CI
  <2>2. ci' = [ci EXCEPT !.gen = gen, !.pins = pins]
    BY <1>5 DEF EnsureCI
  <2> HIDE DEF gen
  <2>3. ci'.gen = gen /\ ci'.built = ci.built
    BY <2>1, <2>2 DEF CI
  <2>4. ci'.built # ci'.gen
    BY <2>1, <2>3
  <2> QED
    BY <2>4 DEF Tried
<1>6. UNCHANGED <<ci, steps>> \/ StartBuild \/ EnsureCI
  BY DEF Next, PluginReconciler, PatchPlugin, ReconcilePlugin, ServiceReconciler,
     ResolvePlugins, CacheSync, PluginSync, ServiceSync, CISync, CreatePlugin, EditPlugin,
     DeletePlugin, ChangePlugin, EditService, ApiError, Crash, vars, ciVars
<1> QED
  BY <1>3, <1>4, <1>5, <1>6

\* A CI that was just written is one that the cache lacks.
LEMMA CIWritten ==
  ASSUME IInv, [Next]_vars, ci' # ci
  PROVE  ciSeen' # ci'
<1>1. ci \in CI /\ ci.gen \in Nat /\ ci.gen + 1 \in Nat
  BY DEF IInv, Built, CI
<1>2. CASE EnsureCI
  <2> DEFINE gen == ci.gen + 1
  <2>1. ci' = [ci EXCEPT !.gen = gen, !.pins = pins] /\ ciSeen' = ciSeen /\ ciSeen = ci
    BY <1>2 DEF EnsureCI
  <2>2. gen # ci.gen
    BY <1>1
  <2> HIDE DEF gen
  <2>3. ci'.gen = gen
    BY <1>1, <2>1 DEF CI
  <2> QED
    BY <2>1, <2>2, <2>3
<1>3. CASE StartBuild
  <2>1. PICK outcome : ci' = [ci EXCEPT !.built = ci.gen, !.outcome = outcome]
    BY <1>3 DEF StartBuild
  <2>2. ci.built # ci.gen /\ ciSeen' = ciSeen /\ ciSeen = ci
    BY <1>3 DEF StartBuild
  <2>3. ci'.built = ci.gen
    BY <1>1, <2>1 DEF CI
  <2> QED
    BY <2>2, <2>3
<1> QED
  BY <1>2, <1>3 DEF Next, PluginReconciler, PatchPlugin, ReconcilePlugin, ServiceReconciler,
     ResolvePlugins, CacheSync, PluginSync, ServiceSync, CISync, CreatePlugin, EditPlugin,
     DeletePlugin, ChangePlugin, EditService, ApiError, Crash, vars, ciVars

\* Whatever a resolution depends on wakes the Service, and so does whatever
\* becomes of the pins, unless they are in the CI.
LEMMA ServiceRestsStep == ASSUME IInv, ServiceRests, [Next]_vars PROVE ServiceRests'
<1> SUFFICES ASSUME ~ serviceQueue'
             PROVE  /\ ~ failed' /\ ~ Refusal(pluginSeen', serviceSeen')
                    /\ pins' # NoPins => pins' = SeenRefs'
                    /\ pins' = NoPins /\ ciSeen' = ci' => ci'.gen > 0 /\ ci'.pins = SeenRefs'
  BY Zenon DEF ServiceRests, Refusal, Missing, Attached, Targets, Validate
<1>1. UNCHANGED <<pluginSeen, serviceSeen>>
  BY DEF Next, PluginReconciler, PatchPlugin, ReconcilePlugin, ServiceReconciler, ResolvePlugins,
     EnsureCI, StartBuild, CacheSync, PluginSync, ServiceSync, CISync, CreatePlugin, EditPlugin,
     DeletePlugin, ChangePlugin, EditService, ApiError, Crash, vars, pluginVars, serviceVars
<1>2. SeenRefs' = SeenRefs
  BY <1>1 DEF SeenRefs, Refs, Resolve, Attached, Targets, Before
<1>3. CASE ResolvePlugins
  <2>1. ~ failed' /\ ~ Refusal(pluginSeen, serviceSeen) /\ pins' = SeenRefs
    BY <1>3 DEF ResolvePlugins, SeenRefs
  <2>2. pins' # NoPins
    BY <2>1, RefsTyped, NoPinsIsNone DEF SeenRefs, IInv, Known
  <2> QED
    BY <1>1, <1>2, <2>1, <2>2
<1>4. ASSUME ~ serviceQueue, UNCHANGED <<failed, ciSeen>>, pins' = pins
      PROVE  /\ ~ failed' /\ ~ Refusal(pluginSeen', serviceSeen')
             /\ pins' # NoPins => pins' = SeenRefs'
             /\ pins' = NoPins /\ ciSeen' = ci' => ci'.gen > 0 /\ ci'.pins = SeenRefs'
  <2>1. /\ ~ failed /\ ~ Refusal(pluginSeen, serviceSeen)
        /\ pins # NoPins => pins = SeenRefs
        /\ pins = NoPins /\ ciSeen = ci => ci.gen > 0 /\ ci.pins = SeenRefs
    BY <1>4 DEF ServiceRests
  <2>2. ciSeen' = ci' => ci' = ci
    BY CIWritten
  <2> QED
    BY <1>1, <1>2, <1>4, <2>1, <2>2
<1>5. CASE EnsureCI
  <2>1. ~ serviceQueue /\ failed' = failed /\ pins # NoPins /\ pins' = NoPins /\ ciSeen' = ciSeen
    BY <1>5 DEF EnsureCI
  <2>2. ~ failed /\ ~ Refusal(pluginSeen, serviceSeen) /\ pins = SeenRefs
    BY <2>1 DEF ServiceRests
  <2>3. ciSeen' = ci' => ci' = ci
    BY CIWritten
  <2>4. ASSUME ciSeen = ci, ci' = ci PROVE ci.gen > 0 /\ ci.pins = pins
    <3>1. ciSeen.gen > 0 /\ SamePins(ciSeen.pins, pins)
      <4>1. CASE ciSeen.gen > 0 /\ SamePins(ciSeen.pins, pins)
        BY <4>1
      <4>2. CASE ci' = [ci EXCEPT !.gen = ci.gen + 1, !.pins = pins]
        <5> DEFINE gen == ci.gen + 1
        <5>1. ci \in CI /\ gen # ci.gen
          BY DEF IInv, Built, CI
        <5>2. ci' = [ci EXCEPT !.gen = gen, !.pins = pins]
          BY <4>2
        <5> HIDE DEF gen
        <5>3. ci'.gen = gen
          BY <5>1, <5>2 DEF CI
        <5> QED
          BY <2>4, <5>1, <5>3
      <4> QED
        BY <1>5, <2>4, <4>1, <4>2 DEF EnsureCI
    <3> QED
      BY <2>4, <3>1 DEF SamePins
  <2> QED
    BY <1>1, <1>2, <2>1, <2>2, <2>3, <2>4
<1>6. ResolvePlugins \/ EnsureCI
      \/ (~ serviceQueue /\ UNCHANGED <<failed, ciSeen>> /\ pins' = pins)
  BY DEF Next, PluginReconciler, PatchPlugin, ReconcilePlugin, ServiceReconciler,
     StartBuild, CacheSync, PluginSync, ServiceSync, CISync, CreatePlugin, EditPlugin,
     DeletePlugin, ChangePlugin, EditService, ApiError, Crash, vars, ciVars, pending, queues
<1> QED
  BY <1>3, <1>4, <1>5, <1>6

\* Every event of the CI wakes its reconciler.
LEMMA CIRestsStep == ASSUME IInv, CIRests, [Next]_vars PROVE CIRests'
<1> SUFFICES ASSUME ~ ciQueue', ciSeen' = ci' PROVE ci'.built = ci'.gen
  BY DEF CIRests
<1>1. ci' = ci
  BY CIWritten
<1>2. CASE ~ ciQueue /\ ciSeen' = ciSeen
  BY <1>1, <1>2 DEF CIRests
<1>3. CASE StartBuild
  <2>1. CASE ci.built = ci.gen
    BY <1>1, <2>1
  <2>2. CASE ciSeen # ci
    BY <1>1, <1>3, <2>2 DEF StartBuild
  <2>3. CASE ci.built # ci.gen /\ ciSeen = ci
    <3>1. ci \in CI
      BY DEF IInv, Built
    <3>2. PICK outcome : ci' = [ci EXCEPT !.built = ci.gen, !.outcome = outcome]
      BY <1>3, <2>3 DEF StartBuild
    <3>3. ci'.built = ci.gen
      BY <3>1, <3>2 DEF CI
    <3> QED
      BY <1>1, <3>3
  <2> QED
    BY <2>1, <2>2, <2>3
<1>4. CASE Crash
  <2>1. ~ (ci.gen > 0)
    BY <1>4 DEF Crash
  <2>2. ci.gen \in Nat /\ ci.built \in Nat /\ ci.built <= ci.gen
    BY DEF IInv, Built, CI
  <2> QED
    BY <1>1, <2>1, <2>2
<1>5. StartBuild \/ Crash \/ (~ ciQueue /\ ciSeen' = ciSeen)
  BY DEF Next, PluginReconciler, PatchPlugin, ReconcilePlugin, ServiceReconciler, ResolvePlugins,
     EnsureCI, CacheSync, PluginSync, ServiceSync, CISync, CreatePlugin, EditPlugin,
     DeletePlugin, ChangePlugin, EditService, ApiError, vars, ciVars, queues
<1> QED
  BY <1>2, <1>3, <1>4, <1>5

\* What the CIPlugin reconciler is to report of a plugin depends on what the
\* cache shows of it and of the Service.
LEMMA StatusKept ==
  ASSUME NEW p \in Plugins, pluginSeen'[p] = pluginSeen[p], serviceSeen' = serviceSeen
  PROVE  Status(p)' = Status(p)
BY DEF Status, AttachedTo, Targets

\* The patch of a status that changes nothing was one that had nothing to say.
LEMMA PatchRests ==
  ASSUME IInv, PluginsRest, PatchPlugin, NEW p \in Plugins \ pluginQueue',
         plugin'[p].there, plugin'[p] = pluginSeen[p]
  PROVE  Status(p) = pluginSeen[p]
<1>1. p \notin pluginQueue /\ PluginRests(p)
  BY DEF PatchPlugin, PluginsRest
<1>2. report.name \in Plugins /\ plugin \in [Plugins -> Plugin]
  BY DEF PatchPlugin, IInv, Known, Pending, Report
<1>3. CASE report.name # p
  <2>1. plugin'[p] = plugin[p]
    BY <1>2, <1>3 DEF PatchPlugin
  <2> QED
    BY <1>1, <1>3, <2>1 DEF PluginRests
<1>4. CASE report.name = p
  <2>1. report.orig = pluginSeen[p] /\ report.new = Status(p)
    BY <1>1, <1>4 DEF PluginRests
  <2>2. plugin' = [plugin EXCEPT ![p] = MergePatch(plugin[p], report.orig, report.new)]
    BY <1>4 DEF PatchPlugin
  <2>3. plugin'[p] = MergePatch(plugin[p], pluginSeen[p], Status(p))
    BY <1>2, <2>1, <2>2
  <2>4. plugin[p] \in Plugin /\ pluginSeen[p] \in Plugin /\ Status(p) \in Plugin
    BY StatusTyped DEF IInv, Known
  <2>5. /\ Status(p).accepted = pluginSeen[p].accepted /\ Status(p).attached = pluginSeen[p].attached
        /\ Status(p).observed = pluginSeen[p].observed
    BY <2>3, <2>4, MergeKeeps
  <2>6. pluginSeen[p].observed = pluginSeen[p].observed
    OBVIOUS
  <2> QED
    BY <2>5, StatusFields DEF IInv
<1> QED
  BY <1>3, <1>4

\* Whatever the status of a plugin depends on wakes its reconciler.
LEMMA PluginsRestStep == ASSUME IInv, Versions, PluginsRest, [Next]_vars PROVE PluginsRest'
<1> SUFFICES ASSUME NEW p \in Plugins, p \notin pluginQueue' PROVE PluginRests(p)'
  BY DEF PluginsRest
<1>1. ASSUME report'.name # p, ~ plugin'[p].there \/ plugin'[p] # pluginSeen'[p]
      PROVE  PluginRests(p)'
  BY <1>1 DEF PluginRests
<1>2. ASSUME p \notin pluginQueue, pluginSeen'[p] = pluginSeen[p], serviceSeen' = serviceSeen,
             plugin'[p] = plugin[p], report'.name = report.name, report' = report
      PROVE  PluginRests(p)'
  <2>1. PluginRests(p)
    BY <1>2 DEF PluginsRest
  <2> QED
    BY <1>2, <2>1, StatusKept DEF PluginRests
<1>3. ASSUME p \notin pluginQueue, pluginSeen'[p] = pluginSeen[p], serviceSeen' = serviceSeen,
             plugin'[p] = plugin[p], report.name # p, report'.name # p
      PROVE  PluginRests(p)'
  <2>1. PluginRests(p)
    BY <1>3 DEF PluginsRest
  <2> QED
    BY <1>3, <2>1, StatusKept DEF PluginRests
<1>4. ASSUME NEW q \in Plugins, ReconcilePlugin(q) PROVE PluginRests(p)'
  <2>1. /\ UNCHANGED <<plugin, pluginSeen, serviceSeen>> /\ report = NoReport
        /\ pluginQueue' = pluginQueue \ {q}
        /\ report' = IF pluginSeen[q].there
                     THEN [name |-> q, orig |-> pluginSeen[q], new |-> Status(q)] ELSE NoReport
    BY <1>4 DEF ReconcilePlugin, pluginVars, serviceVars
  <2>2. CASE q # p
    BY <1>3, <2>1, <2>2, NoReportIsNone
  <2>3. CASE q = p /\ pluginSeen[p].there
    <3>1. report' = [name |-> p, orig |-> pluginSeen[p], new |-> Status(p)]
      BY <2>1, <2>3
    <3>2. report'.name = p /\ report'.orig = pluginSeen[p] /\ report'.new = Status(p)
      BY <3>1
    <3> QED
      BY <2>1, <2>3, <3>2, StatusKept DEF PluginRests
  <2>4. CASE q = p /\ ~ pluginSeen[p].there
    BY <1>1, <2>1, <2>4, NoReportIsNone
  <2> QED
    BY <2>2, <2>3, <2>4
<1>5. CASE PatchPlugin
  <2>1. UNCHANGED <<pluginSeen, serviceSeen>> /\ report' = NoReport
    BY <1>5 DEF PatchPlugin, serviceVars
  <2>2. plugin'[p].there /\ plugin'[p] = pluginSeen[p] => Status(p) = pluginSeen[p]
    BY <1>5, PatchRests
  <2> QED
    BY <2>1, <2>2, StatusKept, NoReportIsNone DEF PluginRests
<1>6. ASSUME NEW q \in Plugins, PluginSync(q) PROVE PluginRests(p)'
  <2>1. /\ plugin' = plugin /\ serviceSeen' = serviceSeen /\ report' = report
        /\ pluginQueue' = pluginQueue \cup {q}
        /\ pluginSeen' = [pluginSeen EXCEPT ![q] = plugin[q]]
    BY <1>6 DEF PluginSync, serviceVars, pending
  <2>2. p # q /\ p \notin pluginQueue
    BY <2>1
  <2>3. pluginSeen'[p] = pluginSeen[p]
    BY <2>1, <2>2 DEF IInv, Known
  <2> QED
    BY <1>2, <2>1, <2>2, <2>3
<1>7. CASE ServiceSync
  <2>1. /\ UNCHANGED <<plugin, pluginSeen, report>>
        /\ pluginQueue' = pluginQueue \cup pluginsForService(service)
    BY <1>7 DEF ServiceSync, pluginVars, pending
  <2>2. p \notin pluginQueue /\ ~ pluginSeen[p].there
    BY <2>1 DEF pluginsForService
  <2>3. report.name # p
    BY <2>2 DEF PluginsRest, PluginRests
  <2> QED
    BY <1>1, <2>1, <2>2, <2>3
<1>8. CASE CreatePlugin \/ EditPlugin \/ DeletePlugin
  <2>1. UNCHANGED <<pluginSeen, serviceSeen, pluginQueue, report>>
    BY <1>8 DEF CreatePlugin, EditPlugin, DeletePlugin, ChangePlugin, serviceVars, queues, pending
  <2>2. plugin'[p] = plugin[p] \/ Renewed(plugin[p], plugin'[p])
    BY <1>8, UserWrites
  <2>3. CASE plugin'[p] = plugin[p]
    BY <1>2, <2>1, <2>3
  <2>4. CASE Renewed(plugin[p], plugin'[p])
    <3>1. plugin[p].ver \in Nat /\ pluginSeen[p].ver \in Nat /\ plugin'[p].ver \in Nat
          /\ pluginSeen[p].ver <= plugin[p].ver
      <4>1. Known /\ Known'
        BY NextIInv DEF IInv
      <4>2. plugin[p] \in Plugin /\ pluginSeen[p] \in Plugin /\ plugin'[p] \in Plugin
        BY <4>1 DEF Known
      <4> QED
        BY <4>1, <4>2 DEF Known, Plugin
    <3>2. ~ plugin'[p].there \/ pluginSeen[p].ver < plugin'[p].ver
      BY <2>4, <3>1 DEF Renewed
    <3>3. ~ plugin'[p].there \/ plugin'[p] # pluginSeen'[p]
      BY <2>1, <3>1, <3>2
    <3>4. PluginRests(p)
      BY <2>1 DEF PluginsRest
    <3>5. CASE report.name = p
      BY <2>1, <3>4, <3>5, StatusKept DEF PluginRests
    <3> QED
      BY <1>1, <2>1, <3>3, <3>5
  <2> QED
    BY <2>2, <2>3, <2>4
<1>9. CASE ApiError
  <2>1. UNCHANGED <<plugin, pluginSeen, serviceSeen>>
    BY <1>9 DEF ApiError, pluginVars, serviceVars
  <2>2. CASE report' = report /\ pluginQueue' = pluginQueue
    BY <1>2, <2>1, <2>2
  <2>3. CASE report' = NoReport /\ pluginQueue' = pluginQueue \cup {report.name}
    BY <1>3, <2>1, <2>3, NoReportIsNone
  <2> QED
    BY <1>9, <2>2, <2>3 DEF ApiError
<1>10. CASE Crash
  <2>1. ~ plugin'[p].there /\ report' = NoReport
    BY <1>10 DEF Crash
  <2> QED
    BY <1>1, <2>1, NoReportIsNone
<1>11. CASE UNCHANGED <<plugin, pluginSeen, serviceSeen, report, pluginQueue>>
  BY <1>2, <1>11
<1>12. \/ UNCHANGED <<plugin, pluginSeen, serviceSeen, report, pluginQueue>>
       \/ PluginReconciler \/ ServiceSync
       \/ \E q \in Plugins : PluginSync(q)
       \/ CreatePlugin \/ EditPlugin \/ DeletePlugin \/ ApiError \/ Crash
  BY DEF Next, ServiceReconciler, ResolvePlugins, EnsureCI, StartBuild, CacheSync, CISync,
     EditService, vars, pluginVars, serviceVars, pending, queues
<1> QED
  BY <1>4, <1>5, <1>6, <1>7, <1>8, <1>9, <1>10, <1>11, <1>12 DEF PluginReconciler

\* The initial state.
LEMMA InitRests == Init => RInv
<1> SUFFICES ASSUME Init PROVE RInv
  OBVIOUS
<1>1. IInv
  BY InitIInv
<1>2. Versions
  <2> SUFFICES ASSUME NEW p \in Plugins PROVE Shown(pluginSeen[p], plugin[p])
    BY DEF Versions
  <2>1. plugin[p] = Absent(0) \/ \E s \in Specs : plugin[p] = Fresh(1, s)
    BY DEF Init
  <2>2. plugin[p].gen \in Nat /\ plugin[p].ver \in Nat /\ plugin[p].gen <= plugin[p].ver
    BY <2>1, ObjectsTyped, ObjectsNumbered
  <2>3. pluginSeen[p] = plugin[p]
    BY DEF Init
  <2> QED
    BY <2>2, <2>3 DEF Shown
<1>3. /\ ci.gen = 0 /\ ci.built = 0 /\ Len(ci.pins) = 0 /\ ciSeen = ci
      /\ serviceQueue /\ report = NoReport /\ pins = NoPins
  <2>1. ci.pins = <<>>
    BY DEF Init
  <2>2. \A list : list = <<>> => Len(list) = 0
    OBVIOUS
  <2> QED
    BY <2>1, <2>2 DEF Init
<1>4. PinsFit
  BY <1>3 DEF PinsFit, Sound
<1>5. Tried(ci, steps, plugin)
  BY <1>3 DEF Tried
<1>6. ServiceRests /\ CIRests
  BY <1>3 DEF ServiceRests, CIRests
<1>7. PluginsRest
  <2>1. \A p \in Plugins \ pluginQueue : ~ plugin[p].there
    BY DEF Init
  <2> QED
    BY <1>3, <2>1, NoReportIsNone DEF PluginsRest, PluginRests
<1> QED
  BY <1>2, <1>4, <1>5, <1>6, <1>7 DEF RInv

\* Every step keeps the invariant of rest.
LEMMA NextRests == ASSUME IInv, RInv, [Next]_vars PROVE RInv'
BY VersionsStep, PinsFitStep, TriedStep, ServiceRestsStep, CIRestsStep, PluginsRestStep DEF RInv

-----------------------------------------------------------------------------
(* What rests is right.                                                    *)

\* In every reachable state, whatever is not as it should be is queued, in hand,
\* or something that an informer has yet to show.
THEOREM RestInvariant == Spec => []RInv
BY InitRests, NextRests, PluginInvariant, PTL DEF Spec

\* The status of a plugin at rest is true.
THEOREM StatusAtRestTheorem == Spec => []StatusAtRest
<1>1. IInv /\ RInv => StatusAtRest
  <2> SUFFICES ASSUME IInv, RInv, NEW p \in Plugins, plugin[p].there, pluginSeen[p] = plugin[p],
                      serviceSeen = service, p \notin pluginQueue, report.name # p
               PROVE  StatusTrue(p)
    BY DEF StatusAtRest
  <2>1. Status(p) = pluginSeen[p]
    BY DEF RInv, PluginsRest, PluginRests
  <2>2. /\ plugin[p].observed = plugin[p].gen
        /\ plugin[p].accepted = [verdict |-> IF Validate(plugin[p].spec) THEN "Valid" ELSE "Invalid",
                                 gen |-> plugin[p].gen]
        /\ plugin[p].attached = AttachedTo(pluginSeen, p, serviceSeen)
    BY <2>1, StatusFields DEF IInv
  <2>3. AttachedTo(pluginSeen, p, serviceSeen) = (p \in Attached(plugin, service))
    BY DEF AttachedTo, Attached, Targets
  <2> QED
    BY <2>2, <2>3 DEF StatusTrue
<1> QED
  BY <1>1, PluginInvariant, RestInvariant, PTL

\* The names of the pins of the attached plugins, and what these pins say.
LEMMA RefsOfResolve ==
  ASSUME IInv, NEW list, list = Refs(plugin, Resolve(plugin, service))
  PROVE  /\ list \in Seq(Pin) /\ Names(list) = Resolve(plugin, service)
         /\ \A i \in 1 .. Len(list) : /\ list[i].name \in Attached(plugin, service)
                                      /\ list[i].gen = plugin[list[i].name].gen
<1> DEFINE names == Resolve(plugin, service)
<1>1. names \in Seq(Attached(plugin, service))
  BY ResolveSorted DEF IInv, Known
<1>2. list = [i \in DOMAIN names |-> [name |-> names[i], gen |-> plugin[names[i]].gen]]
  BY DEF Refs
<1>3. list \in Seq(Pin)
  BY RefsTyped DEF IInv, Known
<1> HIDE DEF names
<1>4. DOMAIN names = 1 .. Len(names) /\ Len(list) = Len(names) /\ DOMAIN list = DOMAIN names
  BY <1>1, <1>2
<1>5. \A i \in 1 .. Len(names) : list[i].name = names[i] /\ list[i].gen = plugin[names[i]].gen
  BY <1>2, <1>4
<1>6. \A i \in 1 .. Len(names) : names[i] \in Attached(plugin, service)
  BY <1>1
<1>7. Names(list) = names
  BY <1>1, <1>4, <1>5 DEF Names
<1> QED
  BY <1>3, <1>4, <1>5, <1>6, <1>7 DEF names

\* The CI at rest pins the attached plugins, and has their build or its refusal.
THEOREM BuildsAtRestTheorem == Spec => []BuildsAtRest
<1>1. IInv /\ RInv => BuildsAtRest
  <2> SUFFICES ASSUME IInv, RInv, pluginSeen = plugin, serviceSeen = service, ciSeen = ci,
                      ~ serviceQueue, pins = NoPins, ~ ciQueue
               PROVE  ~ Refusal(plugin, service) /\ ~ failed /\ BuiltAsPinned
    BY DEF BuildsAtRest
  <2> DEFINE A     == Attached(plugin, service)
             names == Resolve(plugin, service)
             list  == ci.pins
  <2>1. /\ ~ failed /\ ~ Refusal(plugin, service) /\ ci.gen > 0
        /\ list = Refs(plugin, names) /\ ci.built = ci.gen
    BY DEF RInv, ServiceRests, CIRests, SeenRefs
  <2>2. /\ list \in Seq(Pin) /\ Names(list) = names
        /\ \A i \in 1 .. Len(list) : list[i].name \in A /\ list[i].gen = plugin[list[i].name].gen
    BY <2>1, RefsOfResolve
  <2>3. /\ DOMAIN names = 1 .. Len(list)
        /\ \A i \in 1 .. Len(list) : names[i] = list[i].name
    BY <2>2, NamesOfPins
  <2> HIDE DEF A, names, list
  <2>4. ASSUME \A p \in A : plugin[p].ver = plugin[p].gen
        PROVE  \/ /\ ci.outcome = "Building"
                  /\ \A i \in DOMAIN steps : steps[i].ver = plugin[steps[i].name].ver
                  /\ checkPodSpec(plugin, names)
               \/ /\ ci.outcome = "Failed" /\ secret # "labelled"
                  /\ \E p \in A : plugin[p].spec.secret = "required"
                                  \/ (plugin[p].spec.secret = "optional" /\ secret = "plain")
    <3>1. \A p \in A : plugin[p].there
      BY DEF A, Attached
    <3>2. \A i \in 1 .. Len(list) : Current(list[i], plugin)
      BY <2>2, <2>4, <3>1 DEF Current
    <3>3. \/ /\ checkPodSpec(plugin, names) /\ ci.outcome = "Building"
             /\ \A i \in 1 .. Len(list) : steps[i].ver = list[i].gen
          \/ ~ checkPodSpec(plugin, names) /\ ci.outcome = "Failed"
      BY <2>1, <2>2, <3>2, Zenon DEF RInv, Tried, list
    <3>4. CASE checkPodSpec(plugin, names)
      <4>1. /\ ci.outcome = "Building" /\ \A i \in 1 .. Len(list) : steps[i].ver = list[i].gen
        BY <3>3, <3>4
      <4>2. /\ DOMAIN steps = 1 .. Len(list)
            /\ \A i \in 1 .. Len(list) : steps[i].name = list[i].name
        <5>1. /\ steps \in Seq(PluginStep) /\ Len(steps) = Len(list)
              /\ \A i \in DOMAIN steps : steps[i].name = list[i].name
          BY <2>1, <4>1 DEF IInv, Built, NeverOlderThanPinned, list
        <5> QED
          BY <5>1
      <4>3. \A i \in 1 .. Len(list) : steps[i].ver = plugin[steps[i].name].ver
        BY <2>2, <2>4, <4>1, <4>2
      <4> QED
        BY <3>4, <4>1, <4>2, <4>3
    <3>5. CASE ~ checkPodSpec(plugin, names)
      <4> DEFINE refs == {plugin[names[i]].spec.secret : i \in DOMAIN names} \ {"none"}
      <4>1. refs # {} /\ secret # "labelled" /\ (secret = "missing" => refs # {"optional"})
        BY <3>5 DEF checkPodSpec
      <4>2. secret \in {"missing", "plain", "labelled"}
        BY DEF IInv, Around
      <4>3. \A r \in refs : r \in {"required", "optional"}
        <5>1. \A p \in Plugins : plugin[p].spec.secret \in {"none", "required", "optional"}
          BY PluginsAssumption DEF IInv, Known, Plugin, SpecType
        <5>2. \A i \in DOMAIN names : names[i] \in Plugins
          BY <2>2, <2>3 DEF A, Attached
        <5> QED
          BY <5>1, <5>2
      <4>4. \A r \in refs : \E p \in A : plugin[p].spec.secret = r
        BY <2>2, <2>3
      <4> HIDE DEF refs
      <4>5. "required" \in refs \/ ("optional" \in refs /\ secret = "plain")
        BY <4>1, <4>2, <4>3
      <4> QED
        BY <3>3, <3>5, <4>1, <4>4, <4>5
    <3> QED
      BY <3>4, <3>5
  <2> QED
    BY <2>1, <2>4, Zenon DEF BuiltAsPinned, A, names, list
<1> QED
  BY <1>1, PluginInvariant, RestInvariant, PTL

=============================================================================
