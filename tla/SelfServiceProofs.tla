-------------------------- MODULE SelfServiceProofs --------------------------
(***************************************************************************)
(* Proofs about the SelfService reconciler: Ready is only said of what was *)
(* provisioned, no repository is named that does not exist, and what       *)
(* belongs to someone else is left alone, for all specs, faults and bounds;*)
(* and no SelfService is left as it should not be without a pass to come.  *)
(***************************************************************************)
EXTENDS SelfServiceController, TLAPS

\* A copy of the SelfService is truthful: it says Ready of a generation only if
\* that one, or a later one, was provisioned up to now (d), and it names a
\* repository that exists (r).
Sound(v, d, r) ==
  /\ v \in Version /\ v.repo \in r \cup {NoRepo}
  /\ v.cond.message \in {"Ready", "Suspended"} => v.cond.gen <= d

\* The SelfService and the copies of it on their way to the reconciler are
\* truthful, and no older one comes after a newer one.
Stored ==
  /\ Sound(ss, done, repos) /\ Sound(cache, done, repos) /\ watch \in Seq(Version)
  /\ done \in Nat /\ done <= cache.gen /\ cache.gen <= ss.gen
  /\ \A i \in DOMAIN watch :
       /\ Sound(watch[i], done, repos) /\ cache.gen <= watch[i].gen /\ watch[i].gen <= ss.gen
       /\ \A j \in DOMAIN watch : i <= j => watch[i].gen <= watch[j].gen

Labels == {"idle", "finalizer", "provision", "lookup", "create", "patch", "patchAgain"} \cup Kids

\* So is the copy a reconcile works on, which is not older than what was
\* provisioned last, and not newer than the cache.
InHand ==
  /\ pc \in Labels /\ orig \in Version /\ Sound(my, done, repos)
  /\ mine \in BOOLEAN /\ avail \in BOOLEAN
  /\ pc # "idle" => done <= my.gen /\ my.gen <= cache.gen

\* The parts name repositories that exist, and a part whose cached copy is not
\* the object itself is known to be stale.
Parts ==
  /\ child \in [Kids -> Object] /\ seen \in [Kids -> Object]
  /\ stale \subseteq Kids /\ ours \subseteq stale
  /\ \A k \in Kids : child[k].repo \in repos \cup {NoRepo} /\ (k \notin stale => seen[k] = child[k])
  /\ pod \in repos \cup {NoRepo}

\* The repositories that are not to be created are there.
Around ==
  /\ repos \subseteq Repos /\ \A s \in Specs : ~ s.create => s.repo \in repos
  /\ ready \subseteq Needs /\ plan \in Plan /\ queued \in BOOLEAN

\* The inductive invariant.
IInv == Stored /\ InHand /\ Parts /\ Around

-----------------------------------------------------------------------------
(* The pure parts.                                                         *)

\* A truthful copy stays truthful while more is provisioned and created.
LEMMA SoundGrows ==
  ASSUME NEW v, NEW d \in Nat, NEW e \in Nat, NEW r, NEW s, Sound(v, d, r), d <= e, r \subseteq s
  PROVE  Sound(v, e, s)
<1>1. v \in Version /\ v.cond.gen \in Nat
  BY DEF Sound, Version, Condition
<1> QED
  BY <1>1 DEF Sound

\* There is a spec, so that no version is a version.
LEMMA NothingSound ==
  ASSUME NEW w \in Version, NEW d \in Nat, NEW r
  PROVE  Sound(NoVersion, d, r)
<1> DEFINE c == CHOOSE s \in Specs : TRUE
<1>1. c \in Specs
  BY DEF Version
<1> HIDE DEF c
<1>2. NoVersion = [Blank(c) EXCEPT !.life = "gone", !.gen = 0]
  BY DEF NoVersion, c
<1>3. [message |-> "unset", gen |-> 0] \in Condition
  BY DEF Condition, Messages
<1>4. Blank(c) \in Version /\ Blank(c).repo = NoRepo /\ Blank(c).cond.message = "unset"
  BY <1>1, <1>3 DEF Blank, Version
<1>5. NoVersion \in Version /\ NoVersion.repo = NoRepo /\ NoVersion.cond = Blank(c).cond
  BY <1>2, <1>4 DEF Version
<1> QED
  BY <1>4, <1>5 DEF Sound

\* setSelfServicePhase and observedGeneration: a message other than Ready or
\* Suspended claims nothing, these claim the generation of the copy.
LEMMA StatusSound ==
  ASSUME NEW v, NEW d \in Nat, NEW r, Sound(v, d, r), NEW m \in Messages \ {"unset"},
         m \in {"Ready", "Suspended"} => v.gen <= d
  PROVE  LET w == [setSelfServicePhase(v, m) EXCEPT !.observed = v.gen]
         IN  Sound(w, d, r) /\ w.gen = v.gen
<1> DEFINE c == [message |-> m, gen |-> v.gen]
           u == setSelfServicePhase(v, m)
           w == [u EXCEPT !.observed = v.gen]
<1>1. v \in Version /\ v.gen \in Nat
  BY DEF Sound, Version
<1>2. c \in Condition /\ c.message = m /\ c.gen = v.gen
  BY <1>1 DEF Condition
<1>3. PhaseOf(m) \in {"unset", "Provisioning", "Ready", "Failed"}
  BY DEF PhaseOf
<1> HIDE DEF c
<1>4. u = [v EXCEPT !.phase = PhaseOf(m), !.cond = c]
  BY DEF setSelfServicePhase, c
<1> HIDE DEF u
<1>5. u \in Version /\ u.repo = v.repo /\ u.cond = c /\ u.gen = v.gen
  BY <1>1, <1>2, <1>3, <1>4 DEF Version
<1>6. w \in Version /\ w.repo = v.repo /\ w.cond = c /\ w.gen = v.gen
  BY <1>1, <1>5 DEF Version
<1> HIDE DEF w
<1>7. Sound(w, d, r)
  BY <1>2, <1>6 DEF Sound
<1> QED
  BY <1>6, <1>7 DEF w, u

\* The merge patch takes condition and repository from a truthful copy each.
LEMMA PatchSound ==
  ASSUME NEW server, NEW new, NEW old \in Version, NEW d \in Nat, NEW r,
         Sound(server, d, r), Sound(new, d, r)
  PROVE  Sound(MergePatch(server, old, new), d, r) /\ MergePatch(server, old, new).gen = server.gen
<1> DEFINE w == MergePatch(server, old, new)
<1>1. server \in Version /\ new \in Version
  BY DEF Sound
<1>2. w \in Version
  BY <1>1 DEF MergePatch, Version
<1>3. w.repo \in {server.repo, new.repo} /\ w.cond \in {server.cond, new.cond} /\ w.gen = server.gen
  BY <1>1 DEF MergePatch, Version
<1> HIDE DEF w
<1>4. Sound(w, d, r)
  BY <1>2, <1>3 DEF Sound
<1> QED
  BY <1>3, <1>4 DEF w

-----------------------------------------------------------------------------
(* Steps of the parts of the state.                                        *)

\* The SelfService and its copies rest while more is provisioned and created.
LEMMA StoredKept ==
  ASSUME Stored, UNCHANGED ssVars, done' \in Nat, done <= done', done' <= cache.gen,
         repos \subseteq repos'
  PROVE  Stored'
<1>1. UNCHANGED <<ss, watch, cache>>
  BY DEF ssVars
<1>2. done \in Nat
  BY DEF Stored
<1>3. \A v : Sound(v, done, repos) => Sound(v, done', repos')
  BY <1>2, SoundGrows
<1> QED
  BY <1>1, <1>3 DEF Stored

\* A write of a truthful version that is not older.
LEMMA StoreStep ==
  ASSUME Stored, NEW v, Sound(v, done, repos), ss.gen <= v.gen, Store(v),
         UNCHANGED <<cache, done, repos>>
  PROVE  Stored'
<1>1. ss' = v /\ watch' = Append(watch, v) /\ v \in Version /\ watch \in Seq(Version)
  BY DEF Store, Sound, Stored
<1>2. v.gen \in Nat /\ ss.gen \in Nat /\ cache.gen \in Nat /\ cache.gen <= ss.gen
      /\ \A i \in DOMAIN watch : watch[i].gen \in Nat
  BY <1>1 DEF Stored, Sound, Version
<1>3. /\ DOMAIN watch = 1 .. Len(watch) /\ Len(watch) \in Nat
      /\ DOMAIN watch' = 1 .. Len(watch) + 1
      /\ watch'[Len(watch) + 1] = v /\ \A i \in 1 .. Len(watch) : watch'[i] = watch[i]
      /\ watch' \in Seq(Version)
  BY <1>1
<1>4. ASSUME NEW i \in DOMAIN watch'
      PROVE  /\ Sound(watch'[i], done, repos) /\ cache.gen <= watch'[i].gen
             /\ watch'[i].gen <= v.gen
             /\ \A j \in DOMAIN watch' : i <= j => watch'[i].gen <= watch'[j].gen
  <2>1. CASE i \in DOMAIN watch
    <3>1. Sound(watch[i], done, repos) /\ cache.gen <= watch[i].gen /\ watch[i].gen <= ss.gen
          /\ \A j \in DOMAIN watch : i <= j => watch[i].gen <= watch[j].gen
      BY <2>1 DEF Stored
    <3>2. watch'[i] = watch[i] /\ watch[i].gen <= v.gen
      BY <1>2, <1>3, <2>1, <3>1
    <3>3. ASSUME NEW j \in DOMAIN watch', i <= j PROVE watch[i].gen <= watch'[j].gen
      <4>1. CASE j \in DOMAIN watch
        BY <1>3, <3>1, <3>3, <4>1
      <4>2. CASE j = Len(watch) + 1
        BY <1>3, <3>2, <4>2
      <4> QED
        BY <1>3, <4>1, <4>2
    <3> QED
      BY <3>1, <3>2, <3>3
  <2>2. CASE i = Len(watch) + 1
    <3>1. watch'[i] = v /\ v.gen <= v.gen /\ cache.gen <= v.gen
      BY <1>2, <1>3, <2>2
    <3>2. \A j \in DOMAIN watch' : i <= j => j = i
      BY <1>3, <2>2
    <3> QED
      BY <3>1, <3>2
  <2> QED
    BY <1>3, <2>1, <2>2
<1> QED
  BY <1>1, <1>2, <1>3, <1>4 DEF Stored

\* The informer delivers the oldest version, which is not older than the cache.
LEMMA DeliverStep ==
  ASSUME Stored, watch # <<>>, cache' = Head(watch), watch' = Tail(watch),
         UNCHANGED <<ss, done, repos>>
  PROVE  Stored' /\ cache.gen <= cache'.gen
<1>1. /\ DOMAIN watch = 1 .. Len(watch) /\ Len(watch) \in Nat /\ Len(watch) > 0
      /\ cache' = watch[1] /\ watch' \in Seq(Version)
      /\ DOMAIN watch' = 1 .. Len(watch) - 1
      /\ \A i \in DOMAIN watch' : watch'[i] = watch[i + 1]
  BY DEF Stored
<1>2. 1 \in DOMAIN watch /\ \A i \in DOMAIN watch' : i + 1 \in DOMAIN watch /\ 1 <= i + 1
  BY <1>1
<1>3. Sound(cache', done, repos) /\ cache.gen <= cache'.gen /\ cache'.gen <= ss.gen
      /\ cache.gen \in Nat /\ cache'.gen \in Nat
  BY <1>1, <1>2 DEF Stored, Sound, Version
<1>4. ASSUME NEW i \in DOMAIN watch'
      PROVE  /\ Sound(watch'[i], done, repos) /\ cache'.gen <= watch'[i].gen
             /\ watch'[i].gen <= ss.gen
             /\ \A j \in DOMAIN watch' : i <= j => watch'[i].gen <= watch'[j].gen
  BY <1>1, <1>2 DEF Stored
<1>5. done <= cache'.gen
  BY <1>3 DEF Stored
<1> QED
  BY <1>1, <1>3, <1>4, <1>5 DEF Stored

\* A reconcile in progress does not notice more repositories, or a newer cache.
LEMMA InHandKept ==
  ASSUME Stored, Stored', InHand, UNCHANGED <<pc, orig, my, avail, done>>, mine' \in BOOLEAN,
         repos \subseteq repos', cache.gen <= cache'.gen
  PROVE  InHand'
<1>1. done \in Nat /\ cache.gen \in Nat /\ cache'.gen \in Nat /\ my.gen \in Nat
  BY DEF Stored, InHand, Sound, Version
<1>2. Sound(my', done', repos')
  BY <1>1, SoundGrows DEF InHand
<1> QED
  BY <1>1, <1>2 DEF InHand

\* A reconcile that is over has nothing in hand.
LEMMA IdleStep ==
  ASSUME Stored', pc' = "idle", orig' = NoVersion, my' = NoVersion, mine' = FALSE, avail' = FALSE
  PROVE  InHand'
<1>1. ss' \in Version /\ done' \in Nat
  BY DEF Stored, Sound
<1>2. Sound(NoVersion, done', repos')
  BY <1>1, NothingSound
<1> QED
  BY <1>2 DEF InHand, Labels, Sound

\* Return ends a reconcile, and leaves the key in the queue or not.
LEMMA ReturnStep ==
  ASSUME Stored', NEW requeue \in BOOLEAN, queued \in BOOLEAN, Return(requeue)
  PROVE  InHand' /\ queued' \in BOOLEAN
<1>1. InHand'
  BY IdleStep DEF Return
<1> QED
  BY <1>1 DEF Return

\* On to the next call with a truthful copy of the same generation.
LEMMA GotoStep ==
  ASSUME Stored, InHand, pc # "idle", NEW label \in Labels, NEW v, Sound(v, done', repos'),
         v.gen = my.gen, Goto(label, v), avail' \in BOOLEAN,
         done' \in {done, my.gen}, cache' = cache
  PROVE  InHand'
<1>1. done \in Nat /\ cache.gen \in Nat /\ my.gen \in Nat /\ done <= my.gen /\ my.gen <= cache.gen
  BY DEF Stored, InHand, Sound, Version
<1>2. pc' = label /\ my' = v /\ orig' = orig /\ mine' = mine
  BY DEF Goto
<1> QED
  BY <1>1, <1>2 DEF InHand

\* A failure claims nothing.
LEMMA FailStep ==
  ASSUME Stored, InHand, pc # "idle", NEW m \in Failures, Fail(m), repos \subseteq repos',
         UNCHANGED <<cache, done>>
  PROVE  InHand' /\ UNCHANGED queued
<1> DEFINE w == [setSelfServicePhase(my, m) EXCEPT !.observed = my.gen]
<1>1. m \in Messages \ {"unset"} /\ m \notin {"Ready", "Suspended"}
  BY DEF Messages, Failures, Kids
<1>2. done \in Nat /\ Sound(my, done, repos)
  BY DEF Stored, InHand
<1>3. Sound(w, done, repos) /\ w.gen = my.gen
  BY <1>1, <1>2, StatusSound
<1> HIDE DEF w
<1>4. Sound(w, done', repos')
  BY <1>2, <1>3, SoundGrows
<1>5. Goto("patchAgain", w) /\ avail' = avail
  BY DEF Fail, w
<1>6. avail \in BOOLEAN /\ "patchAgain" \in Labels
  BY DEF InHand, Labels
<1>7. InHand'
  BY <1>3, <1>4, <1>5, <1>6, GotoStep
<1> QED
  BY <1>5, <1>7 DEF Goto

\* Provision takes a repository that exists.
LEMMA ProvisionStep ==
  ASSUME Stored, InHand, Around', pc # "idle", NEW url \in repos', Provision(url),
         repos \subseteq repos', UNCHANGED <<cache, done>>
  PROVE  InHand' /\ UNCHANGED queued
<1> DEFINE w == [my EXCEPT !.repo = url]
<1>1. url \in Repos
  BY DEF Around
<1>2. my \in Version /\ (my.cond.message \in {"Ready", "Suspended"} => my.cond.gen <= done)
  BY DEF InHand, Sound
<1>3. w \in Version /\ w.gen = my.gen /\ w.cond = my.cond /\ w.repo = url
  BY <1>1, <1>2 DEF Version
<1> HIDE DEF w
<1>4. Sound(w, done', repos')
  BY <1>2, <1>3 DEF Sound
<1>5. Goto("secret", w) /\ avail' = avail
  BY DEF Provision, w
<1>6. avail \in BOOLEAN /\ "secret" \in Labels
  BY DEF InHand, Labels, Kids
<1>7. InHand'
  BY <1>3, <1>4, <1>5, <1>6, GotoStep
<1> QED
  BY <1>5, <1>7 DEF Goto

-----------------------------------------------------------------------------
(* Parts.                                                                  *)

\* No object of someone else is written.
Untouched ==
  \A part \in Kids : child[part].by = "other" => child'[part].by \in {"other", "nobody"}

\* The parts rest while repositories are created.
LEMMA PartsKept ==
  ASSUME Parts, UNCHANGED childVars, repos \subseteq repos', pod' \in repos' \cup {NoRepo}
  PROVE  Parts' /\ Untouched
<1>1. child' = child /\ seen' = seen /\ stale' = stale /\ ours' = ours
  BY DEF childVars
<1>2. Parts'
  BY <1>1 DEF Parts
<1>3. Untouched
  BY <1>1, Zenon DEF Untouched
<1> QED
  BY <1>2, <1>3

\* One part is replaced, and its cached copy is stale from then on.
LEMMA PartReplaced ==
  ASSUME Parts, NEW part \in Kids, NEW object \in Object, object.repo \in repos \cup {NoRepo},
         child' = [child EXCEPT ![part] = object], stale' = stale \cup {part},
         ours' \subseteq ours \cup {part},
         child[part].by = "other" => object.by = "nobody",
         UNCHANGED <<seen, pod, repos>>
  PROVE  Parts' /\ Untouched
<1>1. child' \in [Kids -> Object] /\ child'[part] = object
      /\ \A k \in Kids \ {part} : child'[k] = child[k]
  BY DEF Parts
<1>2. ASSUME NEW k \in Kids
      PROVE  child'[k].repo \in repos' \cup {NoRepo} /\ (k \notin stale' => seen'[k] = child'[k])
  BY <1>1 DEF Parts
<1>3. Parts'
  BY <1>1, <1>2 DEF Parts
<1> QED
  BY <1>1, <1>3 DEF Untouched

\* CreateOrUpdate writes what is wanted in the place of nothing or of an object
\* of ours: an object of someone else is in the cache, or the write is rejected
\* because the cached copy is stale.
LEMMA CreateOrUpdateStep ==
  ASSUME Parts, NEW part \in Kids, NEW fails \in BOOLEAN, CreateOrUpdate(part, fails),
         my.repo \in repos \cup {NoRepo}, repos \subseteq Repos, UNCHANGED <<pod, repos>>
  PROVE  Parts' /\ Untouched
<1>1. CASE child' = child
  <2>1. stale' = stale /\ ours' = ours /\ seen' = seen
    BY <1>1 DEF CreateOrUpdate
  <2> QED
    BY <1>1, <2>1, PartsKept DEF childVars, Parts
<1>2. CASE child' # child
  <2>1. /\ child' = [child EXCEPT ![part] = Wanted(part)]
        /\ stale' = stale \cup {part} /\ ours' = ours \cup {part} /\ seen' = seen
        /\ seen[part].by # "other"
        /\ ~ (part \in {"secret", "service"} /\ seen[part] = Wanted(part))
        /\ (seen[part].by = "nobody") = (child[part].by = "nobody")
        /\ ~ (child[part].by # "nobody" /\ part \in stale)
    BY <1>2 DEF CreateOrUpdate
  <2>2. child[part].by # "other"
    <3>1. CASE part \in stale
      BY <2>1, <3>1
    <3>2. CASE part \notin stale
      BY <2>1, <3>2 DEF Parts
    <3> QED
      BY <3>1, <3>2
  <2>3. Wanted(part) \in Object /\ Wanted(part).repo \in repos \cup {NoRepo}
    BY DEF Wanted, PartOf, Object
  <2> QED
    BY <2>1, <2>2, <2>3, PartReplaced
<1> QED
  BY <1>1, <1>2

-----------------------------------------------------------------------------
(* Every step.                                                             *)

\* What every step of the proof shows.
Safe == IInv' /\ Untouched

\* The initial state.
LEMMA InitIInv == Init => IInv
<1> SUFFICES ASSUME Init PROVE IInv
  OBVIOUS
<1>1. PICK s \in Specs : ss = Blank(s)
  BY DEF Init
<1>2. [message |-> "unset", gen |-> 0] \in Condition
  BY DEF Condition, Messages
<1>3. ss \in Version /\ ss.repo = NoRepo /\ ss.cond.message = "unset" /\ ss.gen = 1
  BY <1>1, <1>2 DEF Blank, Version
<1>4. Sound(ss, 0, repos)
  BY <1>3 DEF Sound
<1>5. Stored
  BY <1>3, <1>4 DEF Init, Stored
<1>6. InHand
  <2>1. Sound(NoVersion, 0, repos)
    BY <1>3, NothingSound
  <2> QED
    BY <2>1 DEF Init, InHand, Labels, Sound
<1>7. Parts
  <2>1. Nothing \in Object /\ Nothing.repo = NoRepo
    BY DEF Nothing, Object
  <2> QED
    BY <2>1 DEF Init, Parts
<1>8. Around
  <2>1. repos = {x.repo : x \in {t \in Specs : ~ t.create}} /\ repos \subseteq Repos
    BY DEF Init, Repos
  <2>2. ready \subseteq Needs /\ plan \in Plan /\ queued \in BOOLEAN
    BY PlansAssumption DEF Init
  <2> QED
    BY <2>1, <2>2 DEF Around
<1> QED
  BY <1>5, <1>6, <1>7, <1>8 DEF IInv

\* The reconciler reads the cached SelfService.
LEMMA ReconcileStep == ASSUME IInv, Reconcile PROVE Safe
<1>1. UNCHANGED <<ss, watch, cache, repos, child, seen, stale, ours, pod, done, ready, plan>>
      /\ queued' = FALSE
  BY DEF Reconcile, ssVars, childVars, outside
<1>2. Stored' /\ done <= cache.gen /\ Sound(cache, done, repos)
  BY <1>1 DEF IInv, Stored
<1>3. InHand'
  <2>1. CASE UNCHANGED reconciler
    BY <1>1, <2>1 DEF IInv, InHand, reconciler
  <2>2. CASE /\ orig' = cache /\ my' = cache /\ mine' = (watch = <<>>) /\ avail' = FALSE
             /\ pc' \in {"provision", "finalizer"}
    <3>1. cache \in Version /\ cache.gen \in Nat
      BY <1>2 DEF Sound, Version
    <3>2. mine' \in BOOLEAN /\ avail' \in BOOLEAN /\ pc' \in Labels
      BY <2>2 DEF Labels
    <3>3. orig' \in Version /\ Sound(my', done', repos')
      BY <1>1, <1>2, <2>2, <3>1, Zenon
    <3>4. done' <= my'.gen /\ my'.gen <= cache'.gen
      <4>1. my' = cache /\ cache' = cache /\ done' = done
        BY <1>1, <2>2
      <4> QED
        BY <1>2, <3>1, <4>1
    <3> QED
      BY <3>2, <3>3, <3>4 DEF InHand
  <2> QED
    BY <2>1, <2>2 DEF Reconcile
<1>4. Parts' /\ Untouched
  BY <1>1, PartsKept DEF IInv, Parts, childVars
<1>5. Around'
  BY <1>1 DEF IInv, Around
<1> QED
  BY <1>2, <1>3, <1>4, <1>5 DEF IInv, Safe

\* The finalizer is added or removed.
LEMMA FinalizerStep == ASSUME IInv, UpdateFinalizer PROVE Safe
<1>1. UNCHANGED <<cache, repos, child, seen, stale, ours, pod, done, ready, plan>>
  BY DEF UpdateFinalizer, childVars, outside
<1>2. PICK requeue \in BOOLEAN : Return(requeue)
  BY DEF UpdateFinalizer
<1>3. Stored'
  <2>1. CASE UNCHANGED <<ss, watch>>
    BY <1>1, <2>1, StoredKept DEF IInv, Stored, ssVars
  <2>2. CASE \E life \in {"live", "gone"} : Store([ss EXCEPT !.life = life])
    <3>1. PICK life \in {"live", "gone"} : Store([ss EXCEPT !.life = life])
      BY <2>2
    <3> DEFINE v == [ss EXCEPT !.life = life]
    <3>2. ss \in Version /\ Sound(ss, done, repos)
      BY DEF IInv, Stored, Sound
    <3>3. v \in Version /\ v.gen = ss.gen /\ v.repo = ss.repo /\ v.cond = ss.cond /\ ss.gen \in Nat
      BY <3>2 DEF Version
    <3>4. Sound(v, done, repos) /\ ss.gen <= v.gen
      BY <3>2, <3>3 DEF Sound
    <3> HIDE DEF v
    <3>5. Store(v)
      BY <3>1 DEF v
    <3> QED
      BY <1>1, <3>4, <3>5, StoreStep DEF IInv
  <2> QED
    BY <2>1, <2>2 DEF UpdateFinalizer
<1>4. InHand' /\ queued' \in BOOLEAN
  BY <1>2, <1>3, ReturnStep DEF IInv, Around
<1>5. Parts' /\ Untouched
  BY <1>1, PartsKept DEF IInv, Parts, childVars
<1>6. Around'
  BY <1>1, <1>4 DEF IInv, Around
<1> QED
  BY <1>3, <1>4, <1>5, <1>6 DEF IInv, Safe

\* A step of the reconcile that leaves the SelfService, its parts and the
\* outside world alone, and may create a repository.
LEMMA LocalStep ==
  ASSUME IInv, InHand', UNCHANGED <<ssVars, childVars, pod, done, ready, queued>>, plan' \in Plan,
         repos \subseteq repos', repos' \subseteq Repos
  PROVE  Safe
<1>1. Stored'
  BY StoredKept DEF IInv, Stored
<1>2. Parts' /\ Untouched
  <2>1. pod' \in repos' \cup {NoRepo}
    BY DEF IInv, Parts
  <2> QED
    BY <2>1, PartsKept DEF IInv
<1>3. Around'
  BY DEF IInv, Around
<1> QED
  BY <1>1, <1>2, <1>3 DEF IInv, Safe

\* What LocalStep needs to know of the repositories that are there already.
LEMMA ReposThere ==
  ASSUME IInv
  PROVE  /\ repos \subseteq Repos /\ plan \in Plan /\ done \in Nat
         /\ my \in Version /\ my.spec \in Specs /\ my.spec.repo \in Repos
         /\ my.repo \in repos \cup {NoRepo} /\ (~ my.spec.create => my.spec.repo \in repos)
<1>1. my \in Version /\ my.repo \in repos \cup {NoRepo} /\ done \in Nat
  BY DEF IInv, InHand, Sound, Stored
<1>2. my.spec \in Specs
  BY <1>1 DEF Version
<1>3. my.spec.repo \in Repos
  BY <1>2 DEF Repos
<1> QED
  BY <1>1, <1>2, <1>3 DEF IInv, Around

\* The Secrets are checked, and the repository is taken if it is there.
LEMMA ProvisionActionStep == ASSUME IInv, provision PROVE Safe
<1>1. UNCHANGED <<ssVars, repos, childVars, pod, done, ready, plan>> /\ pc = "provision"
  BY DEF provision, outside
<1>2. cache' = cache /\ pc # "idle" /\ Stored /\ InHand
  BY <1>1 DEF ssVars, IInv
<1>3. Around
  BY DEF IInv
<1>4. InHand' /\ UNCHANGED queued
  <2>1. CASE Fail("SecretNotAllowed") \/ Fail("RepoUnavailable")
    <3>1. {"SecretNotAllowed", "RepoUnavailable"} \subseteq Failures
      BY DEF Failures
    <3> QED
      BY <1>1, <1>2, <2>1, <3>1, FailStep
  <2>2. CASE (\E url \in repos : Provision(url)) /\ queued' = queued
    <3>1. Around'
      BY <1>1, <1>3, <2>2 DEF Around
    <3> QED
      BY <1>1, <1>2, <2>2, <3>1, ProvisionStep
  <2>3. CASE Goto("lookup", my) /\ avail' = avail
    <3>1. avail' \in BOOLEAN /\ "lookup" \in Labels /\ Sound(my, done', repos')
      BY <1>1, <1>2, <2>3 DEF InHand, Labels
    <3> QED
      BY <1>1, <1>2, <2>3, <3>1, GotoStep DEF Goto
  <2>4. ASSUME NEW url, Provision(url) PROVE queued' = queued
    BY <2>4 DEF Provision, Goto
  <2>5. my.repo \in repos \cup {NoRepo} /\ (~ my.spec.create => my.spec.repo \in repos)
    BY ReposThere
  <2> QED
    BY <2>1, <2>2, <2>3, <2>4, <2>5 DEF provision
<1> QED
  BY <1>1, <1>4, ReposThere, LocalStep

\* The clone URL of a repository that exists is taken, or refused.
LEMMA ClonedStep ==
  ASSUME Stored, InHand, Around', pc # "idle", NEW repo \in repos', Cloned(repo),
         repos \subseteq repos', UNCHANGED <<cache, done>>
  PROVE  InHand' /\ UNCHANGED queued
<1>1. "RepoUnavailable" \in Failures
  BY DEF Failures
<1>2. CASE repo \in Refused
  BY <1>1, <1>2, FailStep DEF Cloned
<1>3. CASE repo \notin Refused
  BY <1>3, ProvisionStep DEF Cloned
<1> QED
  BY <1>2, <1>3

\* The host is asked for the repository.
LEMMA GetStep == ASSUME IInv, EnsureRepoGet PROVE Safe
<1>1. UNCHANGED <<ssVars, repos, childVars, pod, done, ready, plan>> /\ pc = "lookup"
  BY DEF EnsureRepoGet, outside
<1>2. cache' = cache /\ pc # "idle" /\ Stored /\ InHand /\ Around
  BY <1>1 DEF ssVars, IInv
<1>3. InHand' /\ UNCHANGED queued
  <2>1. CASE Fail("RepoUnavailable")
    <3>1. "RepoUnavailable" \in Failures
      BY DEF Failures
    <3> QED
      BY <1>1, <1>2, <2>1, <3>1, FailStep
  <2>2. CASE Answer(my.spec.repo) = "found" /\ Cloned(my.spec.repo)
    <3>1. my.spec.repo \in repos'
      BY <1>1, <2>2 DEF Answer
    <3>2. queued' = queued
      BY <2>2 DEF Cloned, Fail, Provision, Goto
    <3>3. Around'
      BY <1>1, <1>2, <3>2 DEF Around
    <3> QED
      BY <1>1, <1>2, <2>2, <3>1, <3>3, ClonedStep
  <2>3. CASE Goto("create", my) /\ avail' = avail
    <3>1. avail' \in BOOLEAN /\ "create" \in Labels /\ Sound(my, done', repos')
      BY <1>1, <1>2, <2>3 DEF InHand, Labels
    <3> QED
      BY <1>1, <1>2, <2>3, <3>1, GotoStep DEF Goto
  <2> QED
    BY <2>1, <2>2, <2>3 DEF EnsureRepoGet
<1> QED
  BY <1>1, <1>3, ReposThere, LocalStep

\* A fault is one that the plan allows, and leaves a plan.
LEMMA FaultStep ==
  ASSUME NEW kind, Fault(kind), plan \in Plan
  PROVE  plan' \in Plan
BY DEF Fault, Plan

\* The host is asked to create it, and may do so without an answer.
LEMMA PostStep == ASSUME IInv, EnsureRepoPost PROVE Safe
<1>1. UNCHANGED <<ssVars, childVars, pod, done>> /\ pc = "create"
  BY DEF EnsureRepoPost
<1>2. cache' = cache /\ pc # "idle" /\ Stored /\ InHand /\ Around /\ plan \in Plan
  BY <1>1 DEF ssVars, IInv, Around
<1>3. ready' = ready /\ plan' \in Plan
  BY <1>2, FaultStep DEF EnsureRepoPost, outside
<1>4. repos' \in {repos, repos \cup {my.spec.repo}} /\ repos' \subseteq Repos
  BY ReposThere DEF EnsureRepoPost
<1>5. InHand' /\ UNCHANGED queued
  <2>1. CASE Fail("RepoUnavailable")
    <3>1. "RepoUnavailable" \in Failures
      BY DEF Failures
    <3> QED
      BY <1>1, <1>2, <1>4, <2>1, <3>1, FailStep
  <2>2. CASE repos' = repos \cup {my.spec.repo} /\ Cloned(my.spec.repo)
    <3>1. queued' = queued
      BY <2>2 DEF Cloned, Fail, Provision, Goto
    <3>2. Around'
      BY <1>2, <1>3, <1>4, <2>2, <3>1 DEF Around
    <3> QED
      BY <1>1, <1>2, <2>2, <3>2, ClonedStep
  <2> QED
    BY <2>1, <2>2 DEF EnsureRepoPost
<1> QED
  BY <1>1, <1>3, <1>4, <1>5, LocalStep

\* A step of the reconcile that writes a part.
LEMMA PartStep ==
  ASSUME IInv, NEW part \in Kids, NEW fails \in BOOLEAN, CreateOrUpdate(part, fails),
         InHand', UNCHANGED <<ssVars, repos, pod, done, ready, plan, queued>>
  PROVE  Safe
<1>1. Stored'
  BY StoredKept DEF IInv, Stored
<1>2. Parts' /\ Untouched
  BY ReposThere, CreateOrUpdateStep DEF IInv
<1>3. Around'
  BY DEF IInv, Around
<1> QED
  BY <1>1, <1>2, <1>3 DEF IInv, Safe

\* Secret, Deployment and Service of the agent.
LEMMA AgentPartsStep ==
  ASSUME IInv, ensureAgentSecret \/ ensureAgent \/ ensureAgentService
  PROVE  Safe
<1>1. /\ UNCHANGED <<ssVars, repos, pod, done, ready, plan>> /\ pc \in {"secret", "agent", "expose"}
      /\ pc \in Kids
  BY DEF ensureAgentSecret, ensureAgent, ensureAgentService, outside, Kids
<1>2. cache' = cache /\ pc # "idle" /\ Stored /\ InHand
  BY <1>1 DEF ssVars, IInv
<1>3. PICK fails \in BOOLEAN :
        /\ CreateOrUpdate(pc, fails)
        /\ \/ Fail(pc)
           \/ /\ \E label \in {"agent", "expose", "service"} : Goto(label, my)
              /\ avail' \in BOOLEAN
  <2>1. avail \in BOOLEAN /\ (pod # NoRepo) \in BOOLEAN
    BY <1>2 DEF InHand
  <2> QED
    BY <2>1 DEF ensureAgentSecret, ensureAgent, ensureAgentService
<1>4. InHand' /\ UNCHANGED queued
  <2>1. CASE Fail(pc)
    <3>1. pc \in Failures
      BY <1>1 DEF Failures
    <3> QED
      BY <1>1, <1>2, <2>1, <3>1, FailStep
  <2>2. CASE (\E label \in {"agent", "expose", "service"} : Goto(label, my)) /\ avail' \in BOOLEAN
    <3>1. {"agent", "expose", "service"} \subseteq Labels /\ Sound(my, done', repos')
      BY <1>1, <1>2 DEF InHand, Labels, Kids
    <3> QED
      BY <1>1, <1>2, <2>2, <3>1, GotoStep DEF Goto
  <2> QED
    BY <1>3, <2>1, <2>2
<1> QED
  BY <1>1, <1>3, <1>4, PartStep

\* The koptan Service is written, and with it the generation is provisioned:
\* only now Ready may be said of it.
LEMMA ServiceStep == ASSUME IInv, ensureService PROVE Safe
<1>1. UNCHANGED <<ssVars, repos, pod, ready, plan>> /\ pc = "service" /\ pc \in Kids
  BY DEF ensureService, outside, Kids
<1>2. cache' = cache /\ pc # "idle" /\ Stored /\ InHand /\ Parts
  BY <1>1 DEF ssVars, IInv
<1>3. CASE CreateOrUpdate("service", TRUE) /\ Fail("service") /\ done' = done
  <2>1. "service" \in Failures
    BY DEF Failures, Kids
  <2>2. InHand' /\ UNCHANGED queued
    BY <1>1, <1>2, <1>3, <2>1, FailStep
  <2> QED
    BY <1>1, <1>3, <2>2, PartStep
<1>4. CASE /\ CreateOrUpdate("service", FALSE) /\ done' = my.gen /\ avail' = avail
           /\ \E label \in {"patchAgain", "patch"} :
                Goto(label, [setSelfServicePhase(my, Outcome(my, avail)) EXCEPT !.observed = my.gen])
  <2> DEFINE m == Outcome(my, avail)
             w == [setSelfServicePhase(my, m) EXCEPT !.observed = my.gen]
  <2>1. /\ done \in Nat /\ my.gen \in Nat /\ cache.gen \in Nat
        /\ done <= my.gen /\ my.gen <= cache.gen /\ avail \in BOOLEAN
    BY <1>1, <1>2 DEF Stored, InHand, Sound, Version
  <2>2. Sound(my, my.gen, repos) /\ repos' = repos
    BY <1>1, <1>2, <2>1, SoundGrows DEF InHand
  <2>3. m \in Messages \ {"unset"}
    BY DEF Outcome, Messages, Failures, Kids
  <2> HIDE DEF m
  <2>4. Sound(w, my.gen, repos) /\ w.gen = my.gen
    BY <2>1, <2>2, <2>3, StatusSound
  <2>5. \E label \in {"patchAgain", "patch"} : Goto(label, w)
    BY <1>4 DEF m
  <2> HIDE DEF w
  <2>6. Sound(w, done', repos') /\ {"patchAgain", "patch"} \subseteq Labels
    BY <1>4, <2>2, <2>4 DEF Labels
  <2>7. InHand' /\ UNCHANGED queued
    BY <1>2, <1>4, <2>1, <2>4, <2>5, <2>6, GotoStep DEF Goto
  <2>8. Stored'
    BY <1>1, <1>2, <1>4, <2>1, <2>2, StoredKept
  <2>9. Parts' /\ Untouched
    BY <1>1, <1>2, <1>4, ReposThere, CreateOrUpdateStep DEF Kids
  <2>10. Around'
    BY <1>1, <2>7 DEF IInv, Around
  <2> QED
    BY <2>7, <2>8, <2>9, <2>10 DEF IInv, Safe
<1> QED
  BY <1>3, <1>4 DEF ensureService

\* The status patch: whatever the SelfService is by now, it claims what the
\* patch or its own status claims.
LEMMA PatchStep == ASSUME IInv, patchStatus PROVE Safe
<1>1. UNCHANGED <<cache, repos, childVars, pod, done, ready, plan>>
  BY DEF patchStatus, outside
<1>2. Stored /\ InHand /\ Parts /\ Around /\ queued \in BOOLEAN
  BY DEF IInv, Around
<1>3. Stored'
  <2> DEFINE w == MergePatch(ss, orig, my)
  <2>1. /\ Sound(ss, done, repos) /\ Sound(my, done, repos) /\ orig \in Version /\ done \in Nat
        /\ ss.gen \in Nat
    BY <1>2 DEF Stored, InHand, Sound, Version
  <2>2. Sound(w, done, repos) /\ w.gen = ss.gen
    BY <2>1, PatchSound
  <2>3. Store(w) \/ UNCHANGED <<ss, watch>>
    BY DEF patchStatus
  <2> HIDE DEF w
  <2>4. CASE Store(w)
    BY <1>1, <1>2, <2>1, <2>2, <2>4, StoreStep
  <2>5. CASE UNCHANGED <<ss, watch>>
    BY <1>1, <1>2, <2>5, StoredKept DEF ssVars, Stored
  <2> QED
    BY <2>3, <2>4, <2>5
<1>4. InHand' /\ queued' \in BOOLEAN
  <2>1. (pc = "patchAgain" \/ ss.life = "gone") \in BOOLEAN
    OBVIOUS
  <2> QED
    BY <1>2, <1>3, <2>1, ReturnStep DEF patchStatus
<1>5. Parts' /\ Untouched
  BY <1>1, <1>2, PartsKept DEF Parts
<1>6. Around'
  BY <1>1, <1>2, <1>4 DEF Around
<1> QED
  BY <1>3, <1>4, <1>5, <1>6 DEF IInv, Safe

\* A step of the world that leaves the parts and the repositories alone.
LEMMA WorldStep ==
  ASSUME IInv, Stored', InHand', UNCHANGED <<childVars, repos, pod>>, ready' \subseteq Needs,
         plan' \in Plan, queued' \in BOOLEAN
  PROVE  Safe
<1>1. Parts' /\ Untouched
  BY PartsKept DEF IInv, Parts
<1>2. Around'
  BY DEF IInv, Around
<1> QED
  BY <1>1, <1>2 DEF IInv, Safe

\* A step of the world in which SelfService and reconcile rest.
LEMMA RestStep ==
  ASSUME IInv, UNCHANGED <<ssVars, done, reconciler>>, repos \subseteq repos'
  PROVE  Stored' /\ InHand'
<1>1. UNCHANGED <<pc, orig, my, mine, avail, cache>>
  BY DEF ssVars, reconciler
<1>2. Stored /\ InHand /\ cache.gen <= cache.gen /\ mine \in BOOLEAN
  <2>1. cache.gen \in Nat
    BY DEF IInv, Stored, Sound, Version
  <2> QED
    BY <2>1 DEF IInv, InHand
<1>3. Stored'
  BY <1>2, StoredKept DEF Stored
<1> QED
  BY <1>1, <1>2, <1>3, InHandKept

\* A version of the SelfService reaches the cache.
LEMMA CacheSyncStep == ASSUME IInv, CacheSync PROVE Safe
<1>1. UNCHANGED <<ss, repos, childVars, pod, done, ready, plan, reconciler>> /\ queued' = TRUE
  BY DEF CacheSync, outside
<1>2. Stored /\ InHand /\ ready \subseteq Needs /\ plan \in Plan
  BY DEF IInv, Around
<1>3. Stored' /\ cache.gen <= cache'.gen
  BY <1>1, <1>2, DeliverStep DEF CacheSync
<1>4. InHand'
  BY <1>1, <1>2, <1>3, InHandKept DEF reconciler, InHand
<1> QED
  BY <1>1, <1>2, <1>3, <1>4, WorldStep

\* The cached copy of a part becomes the object.
LEMMA ChildSyncStep == ASSUME IInv, NEW part \in Kids, ChildSync(part) PROVE Safe
<1>1. UNCHANGED <<ssVars, repos, child, pod, done, ready, plan, reconciler>>
      /\ stale' = stale \ {part} /\ ours' = ours \ {part}
      /\ seen' = [seen EXCEPT ![part] = child[part]]
  BY DEF ChildSync, outside
<1>2. Stored' /\ InHand'
  BY <1>1, RestStep
<1>3. Parts'
  <2>1. seen' \in [Kids -> Object] /\ seen'[part] = child[part]
        /\ \A k \in Kids \ {part} : seen'[k] = seen[k]
    BY <1>1 DEF IInv, Parts
  <2> QED
    BY <1>1, <2>1 DEF IInv, Parts
<1>4. Untouched
  <2>1. child' = child
    BY <1>1
  <2> QED
    BY <2>1, Zenon DEF Untouched
<1>5. Around'
  <2>1. queued' \in BOOLEAN
    BY DEF ChildSync, IInv, Around
  <2> QED
    BY <1>1, <2>1 DEF IInv, Around
<1> QED
  BY <1>2, <1>3, <1>4, <1>5 DEF IInv, Safe

\* The agent's pod stops, starts on the repository of the Deployment, or dies.
LEMMA AgentStep == ASSUME IInv, AgentStops \/ AgentStarts \/ AgentDies PROVE Safe
<1>1. PICK repo \in {NoRepo, child["agent"].repo} : AgentTurns(repo)
  BY DEF AgentStops, AgentStarts, AgentDies
<1>2. UNCHANGED <<ssVars, repos, child, seen, done, queued, reconciler>> /\ pod' = repo
      /\ \E told \in {{}, {"agent"}} : stale' = stale \cup told /\ ours' = ours \cup told
  BY <1>1 DEF AgentTurns
<1>3. Stored' /\ InHand'
  BY <1>2, RestStep
<1>4. plan' \in Plan /\ ready' = ready
  BY FaultStep DEF AgentStops, AgentStarts, AgentDies, outside, IInv, Around
<1>5. Parts'
  <2>1. "agent" \in Kids
    BY DEF Kids
  <2> QED
    BY <1>2, <2>1 DEF IInv, Parts
<1>6. Untouched
  <2>1. child' = child
    BY <1>2
  <2> QED
    BY <2>1, Zenon DEF Untouched
<1>7. Around'
  BY <1>2, <1>4 DEF IInv, Around
<1> QED
  BY <1>3, <1>5, <1>6, <1>7 DEF IInv, Safe

\* A part is collected or removed, or something of someone else comes or goes.
LEMMA ReplaceStep == ASSUME IInv, Collect \/ RemovePart \/ OtherComes \/ OtherLeaves PROVE Safe
<1>1. PICK part \in Kids, object \in {Nothing, Foreign} :
        Replace(part, object) /\ (child[part].by = "other" => object = Nothing)
  <2>1. CASE Collect
    BY <2>1 DEF Collect
  <2>2. CASE RemovePart
    BY <2>2 DEF RemovePart
  <2>3. CASE OtherComes
    BY <2>3 DEF OtherComes
  <2>4. CASE OtherLeaves
    BY <2>4 DEF OtherLeaves
  <2> QED
    BY <2>1, <2>2, <2>3, <2>4
<1>2. UNCHANGED <<ssVars, repos, seen, pod, done, ready, queued, reconciler>>
      /\ child' = [child EXCEPT ![part] = object] /\ stale' = stale \cup {part}
      /\ ours' \subseteq ours \cup {part}
  BY <1>1 DEF Replace
<1>3. object \in Object /\ object.repo = NoRepo /\ (object = Nothing => object.by = "nobody")
  <2>1. Nothing \in Object /\ Nothing.repo = NoRepo /\ Nothing.by = "nobody"
    BY DEF Nothing, Object
  <2>2. Foreign \in Object /\ Foreign.repo = NoRepo
    BY <2>1 DEF Foreign, Object
  <2> QED
    BY <2>1, <2>2
<1>4. Stored' /\ InHand'
  BY <1>2, RestStep
<1>5. Parts' /\ Untouched
  BY <1>1, <1>2, <1>3, PartReplaced DEF IInv
<1>6. plan' \in Plan
  BY FaultStep DEF Collect, RemovePart, OtherComes, OtherLeaves, IInv, Around
<1>7. Around'
  BY <1>2, <1>6 DEF IInv, Around
<1> QED
  BY <1>4, <1>5, <1>7 DEF IInv, Safe

\* A user edits or deletes the SelfService: the status stays.
LEMMA UserStep == ASSUME IInv, EditSpec \/ DeleteSS PROVE Safe
<1>1. UNCHANGED <<cache, repos, childVars, pod, done, ready, queued>> /\ plan' \in Plan
  BY FaultStep DEF EditSpec, DeleteSS, outside, IInv, Around
<1>2. ss \in Version /\ Sound(ss, done, repos) /\ ss.gen \in Nat
  BY DEF IInv, Stored, Sound, Version
<1>3. PICK v : /\ v \in Version /\ ss.gen <= v.gen /\ v.repo = ss.repo /\ v.cond = ss.cond
               /\ OthersStore(v)
  <2>1. CASE EditSpec
    <3>1. PICK s \in Specs : OthersStore([ss EXCEPT !.gen = ss.gen + 1, !.spec = s])
      BY <2>1 DEF EditSpec
    <3> DEFINE v == [ss EXCEPT !.gen = ss.gen + 1, !.spec = s]
    <3>2. ss.gen + 1 \in Nat /\ ss.gen <= ss.gen + 1
      BY <1>2
    <3>3. v \in Version /\ v.gen = ss.gen + 1 /\ v.repo = ss.repo /\ v.cond = ss.cond
      BY <1>2, <3>2 DEF Version
    <3> QED
      BY <3>1, <3>2, <3>3
  <2>2. CASE DeleteSS
    <3>1. PICK life \in {"gone", "deleting"} : OthersStore([ss EXCEPT !.life = life])
      BY <2>2 DEF DeleteSS
    <3> DEFINE v == [ss EXCEPT !.life = life]
    <3>2. v \in Version /\ v.gen = ss.gen /\ v.repo = ss.repo /\ v.cond = ss.cond /\ ss.gen <= v.gen
      BY <1>2 DEF Version
    <3> QED
      BY <3>1, <3>2
  <2> QED
    BY <2>1, <2>2
<1>4. Sound(v, done, repos)
  BY <1>2, <1>3 DEF Sound
<1>5. Stored'
  BY <1>1, <1>3, <1>4, StoreStep DEF IInv, OthersStore
<1>6. InHand'
  <2>1. UNCHANGED <<pc, orig, my, avail, done>> /\ mine' = FALSE /\ cache' = cache
    BY <1>1, <1>3 DEF OthersStore
  <2>2. cache.gen <= cache'.gen
    BY <2>1 DEF IInv, Stored, Sound, Version
  <2> QED
    BY <1>1, <1>5, <2>1, <2>2, InHandKept DEF IInv
<1> QED
  BY <1>1, <1>5, <1>6, WorldStep DEF IInv, Around

\* Someone else creates the repository that the SelfService names.
LEMMA RaceStep == ASSUME IInv, RaceForRepo PROVE Safe
<1>1. /\ UNCHANGED <<ssVars, childVars, pod, done, ready, queued, reconciler>>
      /\ repos' = repos \cup {ss.spec.repo} /\ plan' \in Plan
  BY FaultStep DEF RaceForRepo, IInv, Around
<1>2. ss.spec.repo \in Repos
  BY DEF IInv, Stored, Sound, Version, Repos
<1>3. repos \subseteq repos' /\ repos' \subseteq Repos
  BY <1>1, <1>2, ReposThere
<1> QED
  BY <1>1, <1>3, RestStep, LocalStep

\* A need breaks or is repaired.
LEMMA NeedStep == ASSUME IInv, NEW need \in Needs, Break(need) \/ Repair(need) PROVE Safe
<1>1. /\ UNCHANGED <<ssVars, repos, childVars, pod, done, queued, reconciler>>
      /\ ready' \subseteq Needs /\ plan' \in Plan
  BY FaultStep DEF Break, Repair, IInv, Around
<1>2. Stored' /\ InHand'
  BY <1>1, RestStep
<1> QED
  BY <1>1, <1>2, WorldStep DEF IInv, Around

\* A call of the API server fails.
LEMMA ApiErrorStep == ASSUME IInv, ApiError PROVE Safe
<1>1. UNCHANGED <<ssVars, repos, childVars, pod, done, ready>> /\ plan' \in Plan
  BY FaultStep DEF ApiError, IInv, Around
<1>2. Stored /\ InHand /\ Stored' /\ queued \in BOOLEAN /\ cache' = cache
  BY <1>1, StoredKept DEF IInv, Stored, Around, ssVars
<1>3. CASE pc \in Kids /\ Fail(pc)
  <2>1. pc \in Failures /\ pc # "idle"
    BY <1>3 DEF Failures, Kids
  <2>2. InHand' /\ queued' = queued
    BY <1>1, <1>2, <1>3, <2>1, FailStep
  <2> QED
    BY <1>1, <1>2, <2>2, WorldStep DEF IInv, Around
<1>4. CASE Return(TRUE)
  <2>1. InHand' /\ queued' \in BOOLEAN
    BY <1>2, <1>4, ReturnStep
  <2> QED
    BY <1>1, <1>2, <2>1, WorldStep DEF IInv, Around
<1> QED
  BY <1>3, <1>4 DEF ApiError

\* The operator restarts with fresh caches.
LEMMA CrashStep == ASSUME IInv, Crash PROVE Safe
<1>1. /\ UNCHANGED <<ss, repos, child, pod, done, ready>> /\ plan' \in Plan
      /\ cache' = ss /\ watch' = <<>> /\ seen' = child /\ stale' = {} /\ ours' = {} /\ queued' = TRUE
  BY FaultStep DEF Crash, IInv, Around
<1>2. Stored'
  <2>1. done <= ss.gen /\ ss.gen <= ss.gen
    BY DEF IInv, Stored, Sound, Version
  <2> QED
    BY <1>1, <2>1 DEF IInv, Stored
<1>3. InHand'
  BY <1>2, IdleStep DEF Crash
<1>4. Parts'
  BY <1>1 DEF IInv, Parts
<1>5. Untouched
  <2>1. child' = child
    BY <1>1
  <2> QED
    BY <2>1, Zenon DEF Untouched
<1>6. Around'
  BY <1>1 DEF IInv, Around
<1> QED
  BY <1>2, <1>3, <1>4, <1>5, <1>6 DEF IInv, Safe

\* IInv is inductive, and no step writes what belongs to someone else.
LEMMA NextSafe == IInv /\ [Next]_vars => IInv' /\ Untouched
<1>1. ASSUME IInv, Next PROVE Safe
  <2>1. CASE ControllerStep
    BY <1>1, <2>1, ReconcileStep, FinalizerStep, ProvisionActionStep, GetStep, PostStep,
       AgentPartsStep, ServiceStep, PatchStep DEF ControllerStep
  <2>2. CASE CacheSync \/ \E part \in Kids : ChildSync(part)
    BY <1>1, <2>2, CacheSyncStep, ChildSyncStep
  <2>3. CASE AgentStops \/ AgentStarts \/ AgentDies \/ Collect
    BY <1>1, <2>3, AgentStep, ReplaceStep
  <2>4. CASE EditSpec \/ DeleteSS \/ RaceForRepo \/ RemovePart \/ OtherComes \/ OtherLeaves
    BY <1>1, <2>4, UserStep, RaceStep, ReplaceStep
  <2>5. CASE ApiError \/ Crash \/ \E need \in Needs : Break(need) \/ Repair(need)
    BY <1>1, <2>5, ApiErrorStep, CrashStep, NeedStep
  <2> QED
    BY <1>1, <2>1, <2>2, <2>3, <2>4, <2>5 DEF Next
<1>2. ASSUME IInv, UNCHANGED vars PROVE Safe
  <2>1. UNCHANGED <<ssVars, done, reconciler, childVars, repos, pod, ready, plan, queued>>
    BY <1>2 DEF vars, outside
  <2>2. Stored' /\ InHand'
    BY <1>2, <2>1, RestStep
  <2> QED
    BY <1>2, <2>1, <2>2, WorldStep DEF IInv, Around
<1> QED
  BY <1>1, <1>2 DEF Safe

-----------------------------------------------------------------------------
(* The theorems.                                                           *)

\* Every copy of the SelfService that may be read or written is truthful, and
\* a part whose cached copy is not the object is known to be stale.
THEOREM SelfInvariant == Spec => []IInv
<1> QED
  BY InitIInv, NextSafe, PTL DEF Spec

\* Every variable keeps its type, whatever the specs, faults and bounds.
THEOREM SelfTypeCorrect == Spec => []TypeOK
<1>1. ASSUME IInv PROVE TypeOK
  <2>1. {ss, cache, orig, my} \subseteq Version /\ watch \in Seq(Version) /\ done \in Nat
    BY <1>1 DEF IInv, Stored, InHand, Sound
  <2>2. repos \subseteq Repos /\ pod \in Repos \cup {NoRepo}
    BY <1>1 DEF IInv, Parts, Around
  <2>3. {child, seen} \subseteq [Kids -> Object] /\ stale \subseteq Kids /\ ours \subseteq stale
    BY <1>1 DEF IInv, Parts
  <2>4. ready \subseteq Needs /\ plan \in Plan /\ {queued, mine, avail} \subseteq BOOLEAN
    BY <1>1 DEF IInv, InHand, Around
  <2>5. pc \in Labels
    BY <1>1 DEF IInv, InHand
  <2> QED
    BY <2>1, <2>2, <2>3, <2>4, <2>5 DEF TypeOK, Labels
<1> QED
  BY <1>1, SelfInvariant, PTL

\* Ready and Suspended are only said of the current generation after every part
\* was written for it (provision, patchStatus without a lock).
THEOREM ProvisionedTheorem == Spec => []ReadyMeansProvisioned
<1>1. IInv => ReadyMeansProvisioned
  <2> SUFFICES ASSUME IInv, ss.cond.message \in {"Ready", "Suspended"}, ss.cond.gen = ss.gen
               PROVE  done = ss.gen
    BY DEF ReadyMeansProvisioned
  <2>1. done \in Nat /\ ss.gen \in Nat /\ cache.gen \in Nat
    BY DEF IInv, Stored, Sound, Version
  <2>2. ss.gen <= done /\ done <= cache.gen /\ cache.gen <= ss.gen
    BY DEF IInv, Stored, Sound
  <2> QED
    BY <2>1, <2>2
<1> QED
  BY <1>1, SelfInvariant, PTL

\* Status, agent and koptan Service name no repository that does not exist,
\* whatever the host answered (EnsureRepo).
THEOREM RepoTheorem == Spec => []NoDanglingRepo
<1>1. IInv => NoDanglingRepo
  BY DEF IInv, Stored, Parts, Sound, Kids, NoDanglingRepo
<1> QED
  BY <1>1, SelfInvariant, PTL

\* No step writes an object of someone else, whatever the caches show in its
\* place (CreateOrUpdate and SetControllerReference).
THEOREM TakeoverTheorem == Spec => NoTakeover
<1>1. IInv /\ [Next]_vars =>
        [\A part \in Kids : child[part].by = "other" => child'[part].by \in {"other", "nobody"}]_vars
  BY NextSafe DEF Untouched
<1> QED
  BY <1>1, SelfInvariant, PTL DEF Spec, NoTakeover

-----------------------------------------------------------------------------
(* Rest.  What a pass has made may be removed behind it, and its status    *)
(* patch may meet another version than the one it read.  Either way there  *)
(* is an event to come that wakes the reconciler once more.                *)

\* The watch ends with the SelfService as it is.
WatchEnds == IF watch = <<>> THEN cache = ss ELSE watch[Len(watch)] = ss

\* A cached part of ours is the object, or an event of it is under way.
Told == \A k \in Kids : seen[k].by = "us" /\ k \notin ours => child[k] = seen[k]

\* A part is what v asks for, or an event of ours is under way; so is the agent.
Made(v, k) == child[k] = PartOf(v, k) \/ k \in ours
Up(v) == v.spec.suspend \/ pod # NoRepo \/ "agent" \in ours

\* The status of a pass that has made everything.
Reported(v) ==
  /\ v.spec.create \/ v.repo = v.spec.repo
  /\ v.phase = "Ready" /\ v.observed = v.gen
  /\ v.cond = [message |-> IF v.spec.suspend THEN "Suspended" ELSE "Ready", gen |-> v.gen]

\* The parts that a pass has made before a call.
Before(label) ==
  CASE label = "agent" -> {"secret"}
    [] label = "expose" -> {"secret", "agent"}
    [] label = "service" -> {"secret", "agent", "expose"}
    [] label = "patch" -> Kids
    [] OTHER -> {}

\* A pass works for the spec it has read, and reports success for that.
Kin(v, w) == v.life = w.life /\ v.gen = w.gen /\ v.spec = w.spec
Working ==
  /\ pc \notin {"idle", "finalizer"} => orig.life = "live" /\ Kin(my, orig)
  /\ pc \in Kids => my.spec.create \/ my.repo = my.spec.repo
  /\ pc = "patch" => Reported(my)

\* Without another pass to come, the running one works on the SelfService as it
\* is, what it has made is there, and the one before has done its work.
Covered ==
  ~ queued /\ watch = <<>> =>
    /\ pc # "idle" => orig = ss
    /\ \A k \in Before(pc) : Made(my, k)
    /\ pc \in {"expose", "service"} /\ avail => Up(my)
    /\ pc = "patch" => Up(my)
    /\ pc = "idle" => \/ ss.life = "gone"
                      \/ /\ ss.life = "live" /\ \A k \in Kids : Made(ss, k)
                         /\ Up(ss) /\ Reported(ss)

RInv == WatchEnds /\ Told /\ Working /\ Covered

\* A write of the SelfService is the last version under way.
LEMMA StoreEnds ==
  ASSUME IInv, NEW v \in Version, Store(v), cache' = cache
  PROVE  WatchEnds' /\ watch' # <<>>
<1>1. ss' = v /\ watch' = Append(watch, v) /\ watch \in Seq(Version)
  BY DEF Store, IInv, Stored
<1>2. Len(watch') = Len(watch) + 1 /\ Len(watch) \in Nat /\ watch'[Len(watch) + 1] = v /\ watch' # <<>>
  BY <1>1
<1> QED
  BY <1>1, <1>2 DEF WatchEnds

\* The cached copy moves to the next version, or it is the SelfService.
LEMMA DeliverEnds ==
  ASSUME IInv, WatchEnds, watch # <<>>, cache' = Head(watch), watch' = Tail(watch), ss' = ss
  PROVE  WatchEnds'
<1>1. /\ watch \in Seq(Version) /\ Len(watch) \in Nat /\ Len(watch) > 0 /\ cache' = watch[1]
      /\ Len(watch') = Len(watch) - 1 /\ watch' \in Seq(Version)
      /\ \A i \in 1 .. Len(watch) - 1 : watch'[i] = watch[i + 1]
  BY DEF IInv, Stored
<1>2. CASE Len(watch) = 1
  <2>1. watch[1] = ss
    BY <1>2 DEF WatchEnds
  <2>2. watch' = <<>>
    BY <1>1, <1>2
  <2> QED
    BY <1>1, <2>1, <2>2 DEF WatchEnds
<1>3. CASE Len(watch) > 1
  <2>1. Len(watch) - 1 \in 1 .. Len(watch) - 1 /\ watch' # <<>>
    <3>1. Len(<<>>) = 0 /\ Len(watch') # 0
      BY <1>1, <1>3
    <3>2. Len(watch) - 1 \in 1 .. Len(watch) - 1
      BY <1>1, <1>3
    <3> QED
      BY <3>1, <3>2
  <2>2. watch'[Len(watch')] = watch[Len(watch)]
    BY <1>1, <2>1
  <2>3. watch[Len(watch)] = ss
    BY DEF WatchEnds
  <2> QED
    BY <2>1, <2>2, <2>3 DEF WatchEnds
<1> QED
  BY <1>1, <1>2, <1>3

\* Whether the watch ends with it does not change while it rests.
LEMMA EndsKept == ASSUME WatchEnds, UNCHANGED ssVars PROVE WatchEnds'
BY DEF WatchEnds, ssVars

\* A pass that ends before another one owes nothing.
LEMMA ReturnRests ==
  ASSUME WatchEnds', Told', pc' = "idle", queued' \/ watch' # <<>>
  PROVE  RInv'
<1>1. Working'
  BY DEF Working, Kids
<1>2. Covered'
  BY DEF Covered, Before
<1> QED
  BY <1>1, <1>2 DEF RInv

\* What a part that v asks for is.
LEMMA PartIsOurs == \A v, k : PartOf(v, k).by = "us"
BY DEF PartOf

\* A step of the world: what it does to a part of ours is an event.
LEMMA WorldRests ==
  ASSUME IInv, RInv, UNCHANGED <<ssVars, reconciler, queued>>, Told', ours \subseteq ours',
         \A k \in Kids : child'[k] = child[k] \/ child[k].by # "us" \/ k \in ours',
         pod' = pod \/ child["agent"].by # "us" \/ "agent" \in ours'
  PROVE  RInv'
<1>1. UNCHANGED <<ss, watch, pc, orig, my, avail>>
  BY DEF ssVars, reconciler
<1>2. WatchEnds' /\ Working'
  BY <1>1, EndsKept DEF RInv, Working
<1>3. ASSUME NEW v, NEW k \in Kids, Made(v, k) PROVE child'[k] = PartOf(v, k) \/ k \in ours'
  BY <1>3, PartIsOurs DEF Made
<1>4. ASSUME NEW v, Made(v, "agent"), Up(v)
      PROVE  v.spec.suspend \/ pod' # NoRepo \/ "agent" \in ours'
  BY <1>4, PartIsOurs DEF Made, Up
<1>5. Covered'
  <2> SUFFICES ASSUME ~ queued, watch = <<>> PROVE Covered'
    BY <1>1 DEF Covered
  <2>1. Before(pc) \subseteq Kids /\ "agent" \in Kids
    BY DEF Before, Kids
  <2>2. \A k \in Before(pc) : Made(my, k)'
    BY <1>1, <1>3, <2>1 DEF RInv, Covered, Made
  <2>3. pc \in {"expose", "service", "patch"} => "agent" \in Before(pc)
    BY DEF Before, Kids
  <2>4. (pc \in {"expose", "service"} /\ avail) \/ pc = "patch" => Up(my)'
    BY <1>1, <1>4, <2>3 DEF RInv, Covered, Up
  <2>5. pc = "idle" /\ ss.life # "gone" =>
          ss.life = "live" /\ (\A k \in Kids : Made(ss, k)') /\ Up(ss)' /\ Reported(ss)
    BY <1>1, <1>3, <1>4, <2>1 DEF RInv, Covered, Made, Up
  <2>6. pc # "idle" => orig = ss
    BY DEF RInv, Covered
  <2> QED
    BY <1>1, <2>2, <2>4, <2>5, <2>6 DEF Covered, Reported
<1> QED
  BY <1>2, <1>5 DEF RInv

\* A call that goes on: nothing outside the reconciler but the parts changes.
LEMMA GoRests ==
  ASSUME RInv, UNCHANGED <<ssVars, queued, orig>>, pc # "idle", pc' # "idle", Told', Working',
         ~ queued /\ watch = <<>> =>
           /\ \A k \in Before(pc') : Made(my, k)'
           /\ (pc' \in {"expose", "service"} /\ avail') \/ pc' = "patch" => Up(my)'
  PROVE  RInv'
<1>1. ss' = ss /\ watch' = watch
  BY DEF ssVars
<1>2. ~ queued /\ watch = <<>> => orig = ss
  BY DEF RInv, Covered
<1>3. Covered'
  BY <1>1, <1>2 DEF Covered
<1> QED
  BY <1>3, EndsKept DEF RInv

\* The status of a copy changes nothing else.
LEMMA StatusKin ==
  ASSUME NEW v \in Version, NEW m
  PROVE  LET w == [setSelfServicePhase(v, m) EXCEPT !.observed = v.gen]
         IN  /\ Kin(w, v) /\ w.repo = v.repo /\ w.observed = v.gen /\ w.phase = PhaseOf(m)
             /\ w.cond = [message |-> m, gen |-> v.gen]
<1> DEFINE u == setSelfServicePhase(v, m)
           w == [u EXCEPT !.observed = v.gen]
<1>1. u = [v EXCEPT !.phase = PhaseOf(m), !.cond = [message |-> m, gen |-> v.gen]]
  BY DEF setSelfServicePhase
<1>2. /\ u.life = v.life /\ u.gen = v.gen /\ u.spec = v.spec /\ u.repo = v.repo
      /\ u.phase = PhaseOf(m) /\ u.cond = [message |-> m, gen |-> v.gen]
      /\ w = [u EXCEPT !.observed = v.gen] /\ DOMAIN u = DOMAIN v /\ "observed" \in DOMAIN u
      /\ u = [x \in DOMAIN v |-> u[x]]
  BY <1>1 DEF Version
<1> HIDE DEF u
<1>3. /\ w.life = u.life /\ w.gen = u.gen /\ w.spec = u.spec /\ w.repo = u.repo
      /\ w.phase = u.phase /\ w.cond = u.cond /\ w.observed = v.gen
  BY <1>2
<1> HIDE DEF w
<1> QED
  BY <1>2, <1>3 DEF Kin, u, w

\* What a pass has in hand.
LEMMA HeldCopy ==
  ASSUME IInv, RInv
  PROVE  /\ my \in Version /\ orig \in Version /\ ss \in Version /\ cache \in Version
         /\ my.spec \in Specs /\ my.spec.create \in BOOLEAN
         /\ pc \notin {"idle", "finalizer"} => orig.life = "live" /\ Kin(my, orig)
<1>1. my \in Version /\ orig \in Version /\ ss \in Version /\ cache \in Version
  BY DEF IInv, Stored, InHand, Sound
<1>2. my.spec \in Specs
  BY <1>1 DEF Version
<1>3. my.spec.create \in BOOLEAN
  BY <1>2, SpecsAssumption
<1> QED
  BY <1>1, <1>2, <1>3 DEF RInv, Working

\* A pass that fails tries again after the patch, and claims nothing.
LEMMA FailRests ==
  ASSUME IInv, RInv, pc \notin {"idle", "finalizer"}, NEW m, Fail(m), UNCHANGED ssVars, Told'
  PROVE  RInv'
<1> DEFINE w == [setSelfServicePhase(my, m) EXCEPT !.observed = my.gen]
<1>1. Kin(w, my)
  BY HeldCopy, StatusKin
<1> HIDE DEF w
<1>2. pc' = "patchAgain" /\ my' = w /\ UNCHANGED <<orig, queued>>
  BY DEF Fail, Goto, w
<1>3. Working'
  BY <1>1, <1>2, HeldCopy DEF Working, Kin, Kids
<1>4. Before(pc') = {}
  BY <1>2 DEF Before
<1> QED
  BY <1>2, <1>3, <1>4, GoRests

\* A pass that has its repository begins to make the parts.
LEMMA ProvisionRests ==
  ASSUME IInv, RInv, pc \notin {"idle", "finalizer"}, NEW url, Provision(url), UNCHANGED ssVars,
         Told', my.spec.create \/ url = my.spec.repo
  PROVE  RInv'
<1> DEFINE w == [my EXCEPT !.repo = url]
<1>1. Kin(w, my) /\ w.repo = url /\ w.spec = my.spec
  BY HeldCopy DEF Version, Kin
<1> HIDE DEF w
<1>2. pc' = "secret" /\ my' = w /\ UNCHANGED <<orig, queued>>
  BY DEF Provision, Goto, w
<1>3. Working'
  BY <1>1, <1>2, HeldCopy DEF Working, Kin, Kids
<1>4. Before(pc') = {}
  BY <1>2 DEF Before
<1> QED
  BY <1>2, <1>3, <1>4, GoRests

\* The steps up to the repository leave the parts alone.
LEMMA RepoRests ==
  ASSUME IInv, RInv, provision \/ EnsureRepoGet \/ EnsureRepoPost
  PROVE  RInv'
<1>1. UNCHANGED <<ssVars, childVars>> /\ pc \in {"provision", "lookup", "create"}
  BY DEF provision, EnsureRepoGet, EnsureRepoPost
<1>2. Told'
  BY <1>1 DEF RInv, Told, childVars
<1>3. CASE \E m : Fail(m)
  BY <1>1, <1>2, <1>3, FailRests
<1>4. CASE \E url : Provision(url) /\ (my.spec.create \/ url = my.spec.repo)
  BY <1>1, <1>2, <1>4, ProvisionRests
<1>5. CASE \E label \in {"lookup", "create"} : Goto(label, my)
  <2>1. pc' \in {"lookup", "create"} /\ my' = my /\ UNCHANGED <<orig, queued>>
    BY <1>5 DEF Goto
  <2>2. Working'
    BY <1>1, <2>1, HeldCopy DEF Working, Kids
  <2>3. Before(pc') = {}
    BY <2>1 DEF Before
  <2> QED
    BY <1>1, <1>2, <2>1, <2>2, <2>3, GoRests
<1>6. ASSUME Cloned(my.spec.repo) PROVE RInv'
  BY <1>3, <1>4, <1>6 DEF Cloned
<1> QED
  BY <1>3, <1>4, <1>5, <1>6 DEF provision, EnsureRepoGet, EnsureRepoPost

\* A part that CreateOrUpdate leaves alone is what it should be, or its cached
\* copy is, and an event of it under way; what it writes is.
LEMMA PartRests ==
  ASSUME IInv, RInv, NEW part \in Kids, NEW fails \in BOOLEAN, CreateOrUpdate(part, fails)
  PROVE  /\ Told' /\ ours \subseteq ours'
         /\ \A k \in Kids : Made(my, k) => child'[k] = PartOf(my, k) \/ k \in ours'
         /\ ~ fails => child'[part] = PartOf(my, part) \/ part \in ours'
<1>1. child \in [Kids -> Object] /\ seen' = seen /\ Told
  BY DEF IInv, Parts, RInv, CreateOrUpdate
<1>2. CASE child' = child
  <2>1. ours' = ours
    BY <1>2 DEF CreateOrUpdate
  <2>2. ~ fails => child[part] = PartOf(my, part) \/ part \in ours
    <3>1. CASE seen[part] = PartOf(my, part)
      BY <1>1, <3>1, PartIsOurs DEF Told
    <3>2. CASE ~ fails /\ seen[part] # PartOf(my, part)
      <4>1. child' = [child EXCEPT ![part] = PartOf(my, part)]
        BY <3>2 DEF CreateOrUpdate, Wanted
      <4> QED
        BY <1>1, <1>2, <4>1
    <3> QED
      BY <3>1, <3>2
  <2>3. Told'
    BY <1>1, <1>2, <2>1 DEF Told
  <2> QED
    BY <1>2, <2>1, <2>2, <2>3 DEF Made
<1>3. CASE child' # child
  <2>1. child' = [child EXCEPT ![part] = PartOf(my, part)] /\ ours' = ours \cup {part}
    BY <1>3 DEF CreateOrUpdate, Wanted
  <2>2. \A k \in Kids \ {part} : child'[k] = child[k]
    BY <1>1, <2>1
  <2>3. Told'
    BY <1>1, <2>1, <2>2 DEF Told
  <2> QED
    BY <2>1, <2>2, <2>3 DEF Made
<1> QED
  BY <1>2, <1>3

\* Secret, Deployment and Service of the agent are made one after the other.
LEMMA AgentPartsRest ==
  ASSUME IInv, RInv, ensureAgentSecret \/ ensureAgent \/ ensureAgentService
  PROVE  RInv'
<1>1. UNCHANGED <<ssVars, pod>> /\ pc \in {"secret", "agent", "expose"} /\ pc \in Kids
  BY DEF ensureAgentSecret, ensureAgent, ensureAgentService, Kids
<1>2. CASE CreateOrUpdate(pc, TRUE) /\ Fail(pc)
  BY <1>1, <1>2, PartRests, FailRests DEF Kids
<1>3. CASE /\ CreateOrUpdate(pc, FALSE)
           /\ \/ pc = "secret" /\ Goto("agent", my)
              \/ pc = "agent" /\ Goto("expose", my) /\ avail' = (pod # NoRepo)
              \/ pc = "expose" /\ Goto("service", my) /\ avail' = avail
  <2>1. /\ Told' /\ ours \subseteq ours'
        /\ \A k \in Kids : Made(my, k) => child'[k] = PartOf(my, k) \/ k \in ours'
        /\ child'[pc] = PartOf(my, pc) \/ pc \in ours'
    BY <1>1, <1>3, PartRests
  <2>2. my' = my /\ pc' \in {"agent", "expose", "service"} /\ UNCHANGED <<orig, queued>>
    BY <1>3 DEF Goto
  <2>3. Working'
    BY <1>1, <2>2, HeldCopy DEF RInv, Working, Kids
  <2>4. Before(pc') = Before(pc) \cup {pc} /\ Before(pc) \subseteq Kids
    BY <1>3 DEF Goto, Before, Kids
  <2>5. ~ queued /\ watch = <<>> => \A k \in Before(pc') : Made(my, k)'
    <3>1. ~ queued /\ watch = <<>> => \A k \in Before(pc) : Made(my, k)
      BY DEF RInv, Covered
    <3> QED
      BY <2>1, <2>2, <2>4, <3>1 DEF Made
  <2>6. ~ queued /\ watch = <<>> => (pc' \in {"expose", "service"} /\ avail' => Up(my)')
    <3>1. CASE pc = "secret"
      BY <1>3, <3>1 DEF Goto
    <3>2. CASE pc = "agent"
      BY <1>1, <1>3, <2>2, <3>2 DEF Up
    <3>3. CASE pc = "expose"
      BY <1>1, <1>3, <2>1, <2>2, <3>3 DEF RInv, Covered, Up
    <3> QED
      BY <1>1, <3>1, <3>2, <3>3
  <2> QED
    BY <1>1, <2>1, <2>2, <2>3, <2>5, <2>6, GoRests
<1> QED
  BY <1>2, <1>3 DEF ensureAgentSecret, ensureAgent, ensureAgentService

\* After the koptan Service everything is made; the pass ends here only with an
\* agent that is up, or a suspended session.
LEMMA ServiceRests == ASSUME IInv, RInv, ensureService PROVE RInv'
<1>1. UNCHANGED <<ssVars, pod>> /\ pc = "service" /\ pc \in Kids /\ pc \notin {"idle", "finalizer"}
  BY DEF ensureService, Kids
<1>2. CASE Fail("service")
  <2>1. PICK fails \in BOOLEAN : CreateOrUpdate("service", fails)
    BY DEF ensureService
  <2>2. Told'
    BY <1>1, <2>1, PartRests
  <2> QED
    BY <1>1, <1>2, <2>2, FailRests
<1>3. CASE ~ Fail("service")
  <2>0. CreateOrUpdate("service", FALSE)
    BY <1>3 DEF ensureService
  <2> DEFINE m == Outcome(my, avail)
             w == [setSelfServicePhase(my, m) EXCEPT !.observed = my.gen]
  <2>1. /\ Told' /\ ours \subseteq ours'
        /\ \A k \in Kids : Made(my, k) => child'[k] = PartOf(my, k) \/ k \in ours'
        /\ child'["service"] = PartOf(my, "service") \/ "service" \in ours'
    BY <1>1, <2>0, PartRests
  <2>2. /\ Kin(w, my) /\ w.repo = my.repo /\ w.observed = my.gen /\ w.phase = PhaseOf(m)
        /\ w.cond = [message |-> m, gen |-> my.gen]
    BY HeldCopy, StatusKin
  <2>3. /\ pc' = (IF m = "Starting" THEN "patchAgain" ELSE "patch")
        /\ my' = w /\ UNCHANGED <<orig, queued, avail>>
    BY <1>3 DEF ensureService, Goto
  <2>4. m # "Starting" => /\ m = IF my.spec.suspend THEN "Suspended" ELSE "Ready"
                          /\ my.spec.suspend \/ avail
                          /\ PhaseOf(m) = "Ready"
    BY DEF Outcome, PhaseOf, Failures, Kids
  <2> HIDE DEF w, m
  <2>5. w.life = my.life /\ w.gen = my.gen /\ w.spec = my.spec
    BY <2>2 DEF Kin
  <2>6. my.spec.create \/ my.repo = my.spec.repo
    BY <1>1 DEF RInv, Working
  <2>7. m # "Starting" => Reported(w)
    BY <2>2, <2>4, <2>5, <2>6 DEF Reported
  <2>8. Working'
    <3>1. pc' \in {"patch", "patchAgain"} /\ (pc' = "patch" => Reported(w))
      BY <2>3, <2>7
    <3>2. orig'.life = "live" /\ Kin(w, orig')
      BY <1>1, <2>3, <2>5, HeldCopy DEF Kin
    <3> QED
      BY <2>3, <3>1, <3>2 DEF Working, Kids, Reported
  <2>9. \A k : PartOf(w, k) = PartOf(my, k)
    BY <2>2, <2>5 DEF PartOf
  <2>10. ASSUME ~ queued, watch = <<>>
         PROVE  /\ \A k \in Before(pc') : Made(my, k)'
                /\ pc' = "patch" => Up(my)'
    <3>1. \A k \in {"secret", "agent", "expose"} : Made(my, k)
      BY <1>1, <2>10 DEF RInv, Covered, Before
    <3>2. \A k \in Kids : child'[k] = PartOf(my, k) \/ k \in ours'
      BY <2>1, <3>1 DEF Kids
    <3>3. \A k \in Kids : Made(my, k)'
      BY <2>3, <2>9, <3>2 DEF Made, PartOf
    <3>4. Before(pc') \subseteq Kids
      BY DEF Before, Kids
    <3>5. ASSUME pc' = "patch" PROVE Up(my)'
      <4>1. my.spec.suspend \/ avail
        BY <2>3, <2>4, <3>5
      <4>2. avail => Up(my)
        BY <1>1, <2>10 DEF RInv, Covered
      <4> QED
        BY <1>1, <2>1, <2>3, <2>5, <4>1, <4>2 DEF Up
    <3> QED
      BY <3>3, <3>4, <3>5
  <2>11. pc' # "idle" /\ pc' \notin {"expose", "service"}
    BY <2>3
  <2> QED
    BY <1>1, <2>1, <2>3, <2>8, <2>10, <2>11, GoRests
<1> QED
  BY <1>2, <1>3 DEF ensureService

\* A patch that changes nothing has found the status it was to write; any other
\* comes back through the watch.
LEMMA PatchRests == ASSUME IInv, RInv, patchStatus PROVE RInv'
<1> DEFINE w == MergePatch(ss, orig, my)
<1>1. UNCHANGED <<cache, childVars, pod>> /\ pc' = "idle" /\ pc \in {"patch", "patchAgain"}
  BY DEF patchStatus, Return
<1>2. Told'
  BY <1>1 DEF RInv, Told, childVars
<1>3. ss \in Version /\ orig \in Version /\ my \in Version /\ Kin(my, orig) /\ orig.life = "live"
  BY <1>1, HeldCopy
<1>4. w \in Version
  BY <1>3 DEF MergePatch, Version
<1>5. queued' = (queued \/ (pc = "patchAgain" \/ ss.life = "gone"))
  BY DEF patchStatus, Return
<1>6. CASE Store(w)
  <2>1. WatchEnds' /\ watch' # <<>>
    BY <1>1, <1>4, <1>6, StoreEnds
  <2> QED
    BY <1>1, <1>2, <2>1, ReturnRests
<1>7. CASE (ss.life = "gone" \/ w = ss) /\ UNCHANGED <<ss, watch>>
  <2>1. WatchEnds'
    BY <1>1, <1>7, EndsKept DEF RInv, ssVars
  <2>2. CASE queued' \/ watch' # <<>>
    BY <1>1, <1>2, <2>1, <2>2, ReturnRests
  <2>3. CASE ~ queued' /\ watch' = <<>>
    <3>1. pc = "patch" /\ w = ss /\ ~ queued /\ watch = <<>>
      BY <1>1, <1>5, <1>7, <2>3
    <3>2. orig = ss /\ (\A k \in Kids : Made(my, k)) /\ Up(my) /\ Reported(my)
      BY <3>1 DEF RInv, Covered, Working, Before
    <3>3. ss.life = "live" /\ ss.gen = my.gen /\ ss.spec = my.spec
      BY <1>3, <3>2 DEF Kin
    <3>4. ss.repo = my.repo /\ ss.phase = my.phase /\ ss.observed = my.observed /\ ss.cond = my.cond
      <4>1. /\ w.repo = IF my.repo = orig.repo THEN ss.repo ELSE my.repo
            /\ w.phase = IF my.phase = orig.phase THEN ss.phase ELSE my.phase
            /\ w.observed = IF my.observed = orig.observed THEN ss.observed ELSE my.observed
            /\ w.cond = IF my.cond = orig.cond /\ my.repo = orig.repo THEN ss.cond ELSE my.cond
        BY <1>3 DEF MergePatch, Version
      <4> HIDE DEF w
      <4> QED
        BY <3>1, <3>2, <4>1
    <3>5. (\A k : PartOf(ss, k) = PartOf(my, k)) /\ Reported(ss)
      BY <3>2, <3>3, <3>4 DEF PartOf, Reported
    <3>6. (\A k \in Kids : Made(ss, k)) /\ Up(ss)
      BY <3>2, <3>3, <3>5 DEF Made, Up
    <3>7. (\A k \in Kids : Made(ss, k)') /\ Up(ss)' /\ Reported(ss)'
      BY <1>1, <1>7, <3>5, <3>6 DEF Made, Up, Reported, PartOf, childVars
    <3>8. Working' /\ Before(pc') = {}
      BY <1>1 DEF Working, Kids, Before
    <3>9. Covered'
      BY <1>1, <1>7, <3>3, <3>7, <3>8 DEF Covered
    <3> QED
      BY <1>2, <2>1, <3>8, <3>9 DEF RInv
  <2> QED
    BY <2>2, <2>3
<1> QED
  BY <1>6, <1>7 DEF patchStatus

\* A pass begins with what the cache shows, and nothing made.
LEMMA ReconcileRests == ASSUME IInv, RInv, Reconcile PROVE RInv'
<1>1. UNCHANGED <<ssVars, childVars, pod>> /\ pc = "idle" /\ queued' = FALSE
  BY DEF Reconcile
<1>2. WatchEnds' /\ Told' /\ ss' = ss /\ watch' = watch
  BY <1>1, EndsKept DEF RInv, Told, childVars, ssVars
<1>3. watch = <<>> => cache = ss
  BY DEF RInv, WatchEnds
<1>4. CASE cache.life = "gone" /\ UNCHANGED reconciler
  <2>1. pc' = "idle" /\ Before(pc') = {}
    BY <1>1, <1>4 DEF reconciler, Before
  <2>2. Working'
    BY <2>1 DEF Working, Kids
  <2>3. Covered'
    BY <1>2, <1>3, <1>4, <2>1 DEF Covered
  <2> QED
    BY <1>2, <2>2, <2>3 DEF RInv
<1>5. CASE /\ orig' = cache /\ my' = cache
           /\ pc' = IF cache.life = "live" THEN "provision" ELSE "finalizer"
  <2>1. pc' \in {"provision", "finalizer"} /\ Before(pc') = {}
    BY <1>5 DEF Before
  <2>2. Working'
    BY <1>5, <2>1 DEF Working, Kin, Kids
  <2>3. Covered'
    BY <1>2, <1>3, <1>5, <2>1 DEF Covered
  <2> QED
    BY <1>2, <2>2, <2>3 DEF RInv
<1> QED
  BY <1>4, <1>5 DEF Reconcile

\* The finalizer is written, or the conflict is tried again.
LEMMA FinalizerRests == ASSUME IInv, RInv, UpdateFinalizer PROVE RInv'
<1>1. UNCHANGED <<cache, childVars>> /\ pc' = "idle"
  BY DEF UpdateFinalizer, Return
<1>2. Told'
  BY <1>1 DEF RInv, Told, childVars
<1>3. CASE queued' = TRUE /\ UNCHANGED <<ss, watch>>
  BY <1>1, <1>2, <1>3, EndsKept, ReturnRests DEF RInv, ssVars
<1>4. CASE \E life \in {"live", "gone"} : Store([ss EXCEPT !.life = life])
  <2>1. PICK life \in {"live", "gone"} : Store([ss EXCEPT !.life = life])
    BY <1>4
  <2>2. [ss EXCEPT !.life = life] \in Version
    BY HeldCopy DEF Version
  <2>3. WatchEnds' /\ watch' # <<>>
    BY <1>1, <2>1, <2>2, StoreEnds
  <2> QED
    BY <1>1, <1>2, <2>3, ReturnRests
<1> QED
  BY <1>3, <1>4 DEF UpdateFinalizer, Return

\* A version reaches the cache, and wakes the reconciler.
LEMMA CacheRests == ASSUME IInv, RInv, CacheSync PROVE RInv'
<1>1. UNCHANGED <<childVars, reconciler, ss>> /\ queued' = TRUE
  BY DEF CacheSync
<1>2. WatchEnds'
  BY <1>1, DeliverEnds DEF CacheSync, RInv
<1>3. Told' /\ Working' /\ Covered'
  BY <1>1 DEF RInv, Told, Working, Covered, childVars, reconciler
<1> QED
  BY <1>2, <1>3 DEF RInv

\* So does the event of a part, if it is of ours.
LEMMA ChildRests == ASSUME IInv, RInv, NEW part \in Kids, ChildSync(part) PROVE RInv'
<1>1. /\ UNCHANGED <<ssVars, child, pod, reconciler>> /\ ours' = ours \ {part}
      /\ seen' = [seen EXCEPT ![part] = child[part]] /\ queued' = (queued \/ part \in ours)
  BY DEF ChildSync
<1>2. Told'
  <2>1. seen'[part] = child[part] /\ \A k \in Kids \ {part} : seen'[k] = seen[k]
    BY <1>1 DEF IInv, Parts
  <2> QED
    BY <1>1, <2>1 DEF RInv, Told
<1>3. CASE part \in ours
  BY <1>1, <1>2, <1>3, EndsKept DEF RInv, Working, Covered, reconciler
<1>4. CASE part \notin ours
  <2>1. ours' = ours
    BY <1>1, <1>4
  <2>2. queued' = queued
    BY <1>1, <1>4 DEF IInv, Around
  <2> QED
    BY <1>1, <1>2, <2>1, <2>2, WorldRests
<1> QED
  BY <1>3, <1>4

\* The agent turns: the Deployment, if it is ours, gets a new status.
LEMMA AgentRests ==
  ASSUME IInv, RInv, AgentStops \/ AgentStarts \/ AgentDies
  PROVE  RInv'
<1>1. PICK repo : AgentTurns(repo)
  BY DEF AgentStops, AgentStarts, AgentDies
<1>2. /\ UNCHANGED <<ssVars, child, seen, queued, reconciler>> /\ ours \subseteq ours'
      /\ child["agent"].by = "us" => "agent" \in ours'
  BY <1>1 DEF AgentTurns
<1>3. Told'
  BY <1>2 DEF RInv, Told
<1> QED
  BY <1>2, <1>3, WorldRests

\* A part comes or goes.
LEMMA ReplaceRests ==
  ASSUME IInv, RInv, Collect \/ RemovePart \/ OtherComes \/ OtherLeaves
  PROVE  RInv'
<1>1. PICK part \in Kids, object \in {Nothing, Foreign} : Replace(part, object)
  BY DEF Collect, RemovePart, OtherComes, OtherLeaves
<1>2. /\ UNCHANGED <<ssVars, seen, pod, queued, reconciler>>
      /\ child' = [child EXCEPT ![part] = object] /\ ours \subseteq ours'
      /\ child[part].by = "us" => part \in ours'
  BY <1>1 DEF Replace
<1>3. \A k \in Kids \ {part} : child'[k] = child[k]
  BY <1>2 DEF IInv, Parts
<1>4. Told'
  BY <1>2, <1>3 DEF RInv, Told
<1> QED
  BY <1>2, <1>3, <1>4, WorldRests

\* A user writes the SelfService, which the watch will show.
LEMMA UserRests == ASSUME IInv, RInv, EditSpec \/ DeleteSS PROVE RInv'
<1>1. UNCHANGED <<cache, childVars, pc, orig, my>>
  BY DEF EditSpec, DeleteSS, OthersStore
<1>2. PICK v \in Version : OthersStore(v)
  <2>1. CASE EditSpec
    <3>1. PICK s \in Specs : OthersStore([ss EXCEPT !.gen = ss.gen + 1, !.spec = s])
      BY <2>1 DEF EditSpec
    <3>2. ss.gen + 1 \in Nat
      BY HeldCopy DEF Version
    <3>3. [ss EXCEPT !.gen = ss.gen + 1, !.spec = s] \in Version
      BY <3>2, HeldCopy DEF Version
    <3> QED
      BY <3>1, <3>3
  <2>2. CASE DeleteSS
    <3>1. PICK life \in {"gone", "deleting"} : OthersStore([ss EXCEPT !.life = life])
      BY <2>2 DEF DeleteSS
    <3>2. [ss EXCEPT !.life = life] \in Version
      BY HeldCopy DEF Version
    <3> QED
      BY <3>1, <3>2
  <2> QED
    BY <2>1, <2>2
<1>3. WatchEnds' /\ watch' # <<>>
  BY <1>1, <1>2, StoreEnds DEF OthersStore
<1>4. Told' /\ Working'
  BY <1>1 DEF RInv, Told, Working, childVars
<1> QED
  BY <1>3, <1>4 DEF RInv, Covered

\* A failing call is a failure of the pass, or is tried again.
LEMMA ApiErrorRests == ASSUME IInv, RInv, ApiError PROVE RInv'
<1>1. UNCHANGED <<ssVars, childVars>>
  BY DEF ApiError
<1>2. Told' /\ WatchEnds'
  BY <1>1, EndsKept DEF RInv, Told, childVars
<1>3. CASE pc \in Kids /\ Fail(pc)
  <2>1. pc \notin {"idle", "finalizer"}
    BY <1>3 DEF Kids
  <2> QED
    BY <1>1, <1>2, <1>3, <2>1, FailRests
<1>4. CASE Return(TRUE)
  BY <1>2, <1>4, ReturnRests DEF Return
<1> QED
  BY <1>3, <1>4 DEF ApiError

\* A restarted operator has everything in its caches and its queue.
LEMMA CrashRests == ASSUME RInv, Crash PROVE RInv'
<1>1. /\ cache' = ss /\ ss' = ss /\ watch' = <<>> /\ seen' = child /\ child' = child
      /\ queued' = TRUE /\ pc' = "idle"
  BY DEF Crash
<1> QED
  BY <1>1, ReturnRests DEF WatchEnds, Told

\* The initial state.
LEMMA InitRInv == Init => RInv
BY DEF Init, RInv, WatchEnds, Told, Working, Covered, Kids

\* Every step keeps it.
LEMMA NextRInv == ASSUME IInv, RInv, [Next]_vars PROVE RInv'
<1>1. CASE ControllerStep
  BY <1>1, ReconcileRests, FinalizerRests, RepoRests, AgentPartsRest, ServiceRests, PatchRests
    DEF ControllerStep
<1>2. CASE CacheSync \/ \E part \in Kids : ChildSync(part)
  BY <1>2, CacheRests, ChildRests
<1>3. CASE \/ AgentStops \/ AgentStarts \/ AgentDies
           \/ Collect \/ RemovePart \/ OtherComes \/ OtherLeaves
  BY <1>3, AgentRests, ReplaceRests
<1>4. CASE EditSpec \/ DeleteSS
  BY <1>4, UserRests
<1>5. CASE ApiError \/ Crash
  BY <1>5, ApiErrorRests, CrashRests
<1>6. CASE RaceForRepo \/ (\E need \in Needs : Break(need) \/ Repair(need)) \/ UNCHANGED vars
  <2>1. UNCHANGED <<ssVars, childVars, pod, reconciler, queued>>
    BY <1>6 DEF RaceForRepo, Break, Repair, vars
  <2>2. Told' /\ ours' = ours /\ child' = child /\ pod' = pod
    BY <2>1 DEF RInv, Told, childVars
  <2> QED
    BY <2>1, <2>2, WorldRests
<1> QED
  BY <1>1, <1>2, <1>3, <1>4, <1>5, <1>6 DEF Next

\* Whatever is removed behind a pass, overtakes its patch or fails in it, there is
\* an event or an entry of the queue left that makes the next one.
THEOREM SelfRestInvariant == Spec => []RInv
BY InitRInv, NextRInv, SelfInvariant, PTL DEF Spec

\* Without a wake-up to come, a SelfService is gone, or all parts are what its
\* spec asks for and the status says so (SetupWithManager, patchStatus).
THEOREM AtRestTheorem == Spec => []ProvisionedAtRest
<1>1. IInv /\ RInv => ProvisionedAtRest
  <2> SUFFICES ASSUME IInv, RInv, pc = "idle", ~ queued, watch = <<>>, stale = {}, ss.life # "gone"
               PROVE  /\ ss.life = "live" /\ \A part \in Kids : child[part] = PartOf(ss, part)
                      /\ ss.spec.suspend \/ pod # NoRepo
                      /\ Reported(ss)
    BY DEF ProvisionedAtRest, Reported
  <2>1. ours = {}
    BY DEF IInv, Parts
  <2> QED
    BY <2>1 DEF RInv, Covered, Made, Up
<1> QED
  BY <1>1, SelfInvariant, SelfRestInvariant, PTL

=============================================================================
