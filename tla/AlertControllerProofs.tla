----------------------- MODULE AlertControllerProofs ------------------------
(***************************************************************************)
(* Proofs about the Alert reconciler: whatever status.lastNotified records *)
(* has been handled, nothing is sent before the first state has been       *)
(* recorded, and when the reconciler rests every event has been handled,   *)
(* for all channels, specs, faults and bounds.                             *)
(***************************************************************************)
EXTENDS AlertController, FiniteSetTheorems, SequenceTheorems, TLAPS

\* A copy of the Alert has the fields of one.
Shaped(v) ==
  /\ v = [gen |-> v.gen, spec |-> v.spec, init |-> v.init, observed |-> v.observed,
          sent |-> v.sent, ready |-> v.ready, delivered |-> v.delivered]
  /\ v.spec \in Specs /\ v.init \in BOOLEAN

\* What a copy records has been handled.
Backed(v) == \A e \in v.sent : \E d \in handled : EntryOf(d) = e

\* A copy of the Alert that was read or may still be read.
Read(v) == Shaped(v) /\ Backed(v) /\ (v.init => alert.init)

\* The copies outside a reconcile.
Stored ==
  /\ Read(alert) /\ Read(cache)
  /\ watch \in Seq(Range(watch)) /\ \A v \in Range(watch) : Read(v)

\* The copies of the running reconcile, from which its patch is computed.
Working ==
  /\ Read(orig) /\ Shaped(my) /\ Backed(my) /\ (orig.init => my.init)
  /\ pc = "deliver" => orig.init

\* The inductive invariant: every copy that may be read, or from which a
\* patch is computed, is as good as the Alert itself.
IInv == Stored /\ Working

-----------------------------------------------------------------------------
(* Sequences.                                                              *)

\* Appending to the versions under way adds just one.
LEMMA AppendElements ==
  ASSUME NEW s, s \in Seq(Range(s)), NEW v, NEW t, t = Append(s, v)
  PROVE  t \in Seq(Range(t)) /\ Range(t) \subseteq Range(s) \cup {v}
<1> DEFINE S == Range(s) \cup {v}
<1>1. s \in Seq(S)
  BY SeqMonotonic
<1>2. t \in Seq(S)
  BY <1>1, AppendProperties
<1> QED
  BY <1>2, SeqOfRange, RangeOfSeq

\* Delivering a version leaves the others.
LEMMA TailElements ==
  ASSUME NEW s, s \in Seq(Range(s)), s # <<>>, NEW t, t = Tail(s)
  PROVE  Head(s) \in Range(s) /\ t \in Seq(Range(t)) /\ Range(t) \subseteq Range(s)
<1>1. Head(s) \in Range(s) /\ t \in Seq(Range(s))
  BY HeadTailProperties
<1> QED
  BY <1>1, SeqOfRange, RangeOfSeq

-----------------------------------------------------------------------------
(* Copies of the Alert.                                                    *)

\* A new Alert is a good copy.
LEMMA NewAlertRead == Read(NewAlert) /\ Shaped(NewAlert) /\ Backed(NewAlert)
BY SpecsAssumption DEF Read, Shaped, Backed, NewAlert

\* Good copies stay good when more has been handled and the Alert is not reset.
LEMMA CopiesKept ==
  ASSUME handled \subseteq handled', alert.init => alert'.init
  PROVE  /\ \A v : Read(v) => (Read(v))'
         /\ \A v : Backed(v) => (Backed(v))'
BY DEF Read, Backed, Shaped

\* Nothing stored changes.
LEMMA StoredKept ==
  ASSUME Stored, handled \subseteq handled', UNCHANGED alertVars
  PROVE  Stored'
BY DEF Stored, Read, Backed, Shaped, alertVars

\* The Alert is written.
LEMMA StoredWrite ==
  ASSUME Stored, UNCHANGED <<handled, cache>>,
         NEW v, Shaped(v), Backed(v), alert.init => v.init, Store(v)
  PROVE  Stored' /\ (alert.init => alert'.init)
<1>1. alert' = v /\ watch' = Append(watch, v)
  BY DEF Store
<1>2. watch' \in Seq(Range(watch')) /\ Range(watch') \subseteq Range(watch) \cup {v}
  BY <1>1, AppendElements DEF Stored
<1>3. \A w \in Range(watch) \cup {v, cache} : Shaped(w) /\ Backed(w) /\ (w.init => v.init)
  BY DEF Stored, Read
<1>4. \A w \in Range(watch) \cup {v, cache} : (Read(w))'
  BY <1>1, <1>3 DEF Read, Shaped, Backed
<1> QED
  BY <1>1, <1>2, <1>4 DEF Stored

\* The reconcile goes on with the copies it has.
LEMMA WorkingKept ==
  ASSUME Working, handled \subseteq handled', alert.init => alert'.init,
         UNCHANGED <<pc, orig, my>>
  PROVE  Working'
BY DEF Working, Read, Backed, Shaped

\* The reconcile ends, or the operator stops.
LEMMA WorkingIdle ==
  ASSUME Idle
  PROVE  Working'
BY SpecsAssumption DEF Idle, Working, Read, Shaped, Backed, NewAlert

-----------------------------------------------------------------------------
(* The steps.                                                              *)

\* The initial state.
LEMMA InitIInv == Init => IInv
<1> SUFFICES ASSUME Init PROVE IInv
  OBVIOUS
<1>1. Range(<<>>) = {} /\ <<>> \in Seq({})
  BY EmptySeq DEF Range
<1> QED
  BY <1>1, NewAlertRead DEF Init, IInv, Stored, Working

\* What Recorded returns has been handled if the rest and the new entries have.
LEMMA RecordedBacked ==
  ASSUME NEW sent, NEW ds, NEW H,
         \A e \in sent : \E d \in H : EntryOf(d) = e, ds \subseteq H
  PROVE  \A e \in Recorded(sent, ds) : \E d \in H : EntryOf(d) = e
BY DEF Recorded

\* A channel of a planned delivery is a channel of the spec.
LEMMA PairChannel ==
  ASSUME NEW os, NEW channels \in Seq(Channels), Len(os) \in Nat,
         NEW i \in DOMAIN Pairs(os, channels)
  PROVE  Pairs(os, channels)[i].channel \in {channels[j] : j \in DOMAIN channels}
<1>1. Len(channels) \in Nat /\ DOMAIN channels = 1 .. Len(channels)
  BY LenProperties
<1>2. i \in 1 .. Len(os) * Len(channels)
  BY DEF Pairs
<1>3. Len(channels) # 0
  <2>1. Len(channels) = 0 => Len(os) * Len(channels) = 0
    BY <1>1
  <2> QED
    BY <1>1, <1>2, <2>1
<1>4. 1 + ((i - 1) % Len(channels)) \in DOMAIN channels
  <2>1. i - 1 \in Int /\ Len(channels) \in Nat /\ Len(channels) > 0
    BY <1>1, <1>2, <1>3
  <2> QED
    BY <1>1, <2>1
<1>5. Pairs(os, channels)[i].channel = channels[1 + ((i - 1) % Len(channels))]
  BY <1>2 DEF Pairs
<1> QED
  BY <1>4, <1>5

\* A Service shows finitely many events.
LEMMA EventsLen ==
  ASSUME NEW p, NEW selected
  PROVE  Len(Events(p, selected)) \in Nat
<1>1. \A k, e : \E o : Occurrence(k, e) = <<o>>
  BY DEF Occurrence
<1>2. (\E o : ciEvents(p.ci) = <<o>>) \/ ciEvents(p.ci) = <<>>
  BY <1>1, Zenon DEF ciEvents
<1>3. (\E o : cdEvents(p.cd) = <<o>>) \/ cdEvents(p.cd) = <<>>
  BY <1>1, Zenon DEF cdEvents
<1>4. PICK S : ciEvents(p.ci) \in Seq(S) /\ cdEvents(p.cd) \in Seq(S)
               /\ Occurrence("Push", <<p.svc.rev>>) \in Seq(S)
  <2>1. PICK a : ciEvents(p.ci) = <<a>> \/ ciEvents(p.ci) = <<>>
    BY <1>2
  <2>2. PICK b : cdEvents(p.cd) = <<b>> \/ cdEvents(p.cd) = <<>>
    BY <1>3
  <2>3. PICK c : Occurrence("Push", <<p.svc.rev>>) = <<c>>
    BY <1>1
  <2>4. \A x \in {a, b, c} : <<x>> \in Seq({a, b, c})
    OBVIOUS
  <2>5. <<>> \in Seq({a, b, c})
    BY EmptySeq
  <2> QED
    BY <2>1, <2>2, <2>3, <2>4, <2>5
<1>5. Events(p, selected) \in Seq(S)
  <2> DEFINE A == IF p.svc.rev = 0 THEN <<>> ELSE Occurrence("Push", <<p.svc.rev>>)
  <2>1. A \in Seq(S) /\ <<>> \in Seq(S)
    BY <1>4, EmptySeq
  <2>2. (A \o ciEvents(p.ci)) \o cdEvents(p.cd) \in Seq(S)
    <3> HIDE DEF A
    <3> QED
      BY <1>4, <2>1, ConcatProperties
  <2> QED
    BY <2>1, <2>2 DEF Events
<1> QED
  BY <1>5, LenProperties

\* A new Alert sends nothing: every delivery is of a baseline channel.
LEMMA NewSendsNothing ==
  ASSUME NEW v, Shaped(v), ~ v.init, NEW p, NEW sent,
         NEW i \in DOMAIN Pairs(Events(p, v.spec.selects), v.spec.channels)
  PROVE  ~ ToSend(v, sent, Pairs(Events(p, v.spec.selects), v.spec.channels)[i])
<1>1. v.spec.channels \in Seq(Channels)
  BY SpecsAssumption DEF Shaped, AlertSpec
<1>2. Pairs(Events(p, v.spec.selects), v.spec.channels)[i].channel \in Named(v.spec)
  BY <1>1, EventsLen, PairChannel DEF Named
<1> QED
  BY <1>2 DEF ToSend, Skips, baselineChannels

\* Reading and planning.
LEMMA ReconcileStep == IInv /\ Reconcile => IInv'
<1> SUFFICES ASSUME IInv, Reconcile PROVE IInv'
  OBVIOUS
<1>1. handled \subseteq handled' /\ UNCHANGED alertVars /\ orig' = cache
  BY DEF Reconcile
<1>2. Stored'
  BY <1>1, StoredKept DEF IInv
<1>3. Read(cache) /\ (Read(orig))'
  BY <1>1, <1>2 DEF IInv, Stored, alertVars
<1>4. CASE ~ readable
  <2>1. my' = [cache EXCEPT !.ready = "ChannelUnavailable"] /\ pc' = "patchAndRetry"
        /\ handled' = handled
    BY <1>4 DEF Reconcile
  <2>2. (Shaped(my))' /\ (Backed(my))' /\ my'.init = cache.init
    BY <1>3, <2>1 DEF Read, Shaped, Backed
  <2> QED
    BY <1>1, <1>2, <1>3, <2>1, <2>2 DEF IInv, Working
<1>5. CASE readable
  <2> DEFINE ds   == Pairs(Events(seen, cache.spec.selects), cache.spec.channels)
             sent == Prune(cache.sent, cache.spec.selects)
             skip == {ds[i] : i \in {j \in DOMAIN ds : ToRecord(cache, sent, ds[j])}}
  <2>1. /\ my' = [reportAlert(cache, {}) EXCEPT !.sent = Recorded(sent, skip)]
        /\ handled' = handled \cup skip
        /\ pc' = IF {i \in DOMAIN ds : ToSend(cache, sent, ds[i])} # {}
                 THEN "deliver" ELSE "patch"
    BY <1>5 DEF Reconcile
  <2>2. \A e \in sent : \E d \in handled' : EntryOf(d) = e
    BY <1>1, <1>3 DEF Read, Backed, Prune
  <2>3. skip \subseteq handled'
    BY <2>1
  <2>4. \A e \in Recorded(sent, skip) : \E d \in handled' : EntryOf(d) = e
    <3> HIDE DEF sent, skip
    <3> QED
      BY <2>2, <2>3, RecordedBacked
  <2>5. (Shaped(my))' /\ my'.init /\ my'.sent = Recorded(sent, skip)
    <3> HIDE DEF sent, skip
    <3> QED
      BY <1>3, <2>1 DEF Read, Shaped, reportAlert
  <2>6. (Backed(my))'
    BY <2>4, <2>5 DEF Backed
  <2>7. pc' = "deliver" => cache.init
    <3>1. ~ cache.init => ~ \E i \in DOMAIN ds : ToSend(cache, sent, ds[i])
      BY <1>3, NewSendsNothing DEF Read
    <3> HIDE DEF ds, sent
    <3> QED
      BY <1>3, <2>1, <3>1 DEF Read, Shaped
  <2> QED
    BY <1>1, <1>2, <1>3, <2>5, <2>6, <2>7 DEF IInv, Working
<1> QED
  BY <1>4, <1>5

\* One delivery, successful or not.
LEMMA DeliverStep ==
  ASSUME IInv, NEW ok \in BOOLEAN, NEW arrives \in BOOLEAN, ok => arrives,
         deliver(ok, arrives)
  PROVE  IInv'
<1> DEFINE d == Head(todo)
<1>1. /\ handled' = IF arrives THEN handled \cup {d} ELSE handled
      /\ my' = [reportAlert(my, failed') EXCEPT
                  !.sent = IF ok THEN Recorded(my.sent, {d}) ELSE my.sent]
      /\ UNCHANGED alertVars /\ orig' = orig /\ pc = "deliver"
  BY DEF deliver
<1> HIDE DEF d
<1>2. handled \subseteq handled'
  BY <1>1
<1>3. Stored' /\ (alert.init => alert'.init)
  BY <1>1, <1>2, StoredKept DEF IInv, alertVars
<1>4. (Read(orig))' /\ orig'.init
  <2>1. Read(orig) /\ orig.init
    BY <1>1 DEF IInv, Working
  <2> QED
    BY <1>1, <1>2, <1>3, <2>1 DEF Read, Shaped, Backed
<1>5. (Shaped(my))' /\ my'.init /\ my'.sent = IF ok THEN Recorded(my.sent, {d}) ELSE my.sent
  BY <1>1 DEF IInv, Working, Shaped, reportAlert
<1>6. \A e \in my.sent : \E h \in handled' : EntryOf(h) = e
  BY <1>2 DEF IInv, Working, Backed
<1>7. ok => \A e \in Recorded(my.sent, {d}) : \E h \in handled' : EntryOf(h) = e
  <2>1. ok => {d} \subseteq handled'
    BY <1>1
  <2> QED
    BY <1>6, <2>1, RecordedBacked
<1>8. (Backed(my))'
  BY <1>5, <1>6, <1>7 DEF Backed
<1> QED
  BY <1>3, <1>4, <1>5, <1>8 DEF IInv, Working

\* The patch: what it stores comes from the Alert and from the new status.
LEMMA PatchStep == IInv /\ patchStatus => IInv'
<1> SUFFICES ASSUME IInv, patchStatus PROVE IInv'
  OBVIOUS
<1> DEFINE w == MergePatch(alert, orig, my)
<1>1. /\ Idle /\ UNCHANGED <<handled, cache>>
      /\ Store(w) \/ UNCHANGED <<alert, watch>>
  BY DEF patchStatus
<1>2. Working'
  BY <1>1, WorkingIdle
<1>3. /\ Shaped(alert) /\ Backed(alert) /\ Shaped(my) /\ Backed(my)
      /\ orig.init => my.init
      /\ orig.init \in BOOLEAN
  BY DEF IInv, Stored, Working, Read, Shaped
<1>4. /\ w.init = IF my.init = orig.init THEN alert.init ELSE my.init
      /\ w.spec = alert.spec
      /\ w.sent \subseteq alert.sent \cup my.sent
  BY <1>3 DEF MergePatch, Shaped
<1>5. w = [gen |-> w.gen, spec |-> w.spec, init |-> w.init, observed |-> w.observed,
           sent |-> w.sent, ready |-> w.ready, delivered |-> w.delivered]
  <2>1. PICK i, o, r, d, s :
          w = [alert EXCEPT !.init = i, !.observed = o, !.ready = r, !.delivered = d, !.sent = s]
    BY Zenon DEF MergePatch
  <2>2. Shaped(alert)
    BY <1>3
  <2> HIDE DEF w
  <2>3. w = [gen |-> alert.gen, spec |-> alert.spec, init |-> i, observed |-> o,
             sent |-> s, ready |-> r, delivered |-> d]
    BY <2>1, <2>2 DEF Shaped
  <2> QED
    BY <2>3
<1> HIDE DEF w
<1>6. Shaped(w) /\ Backed(w) /\ (alert.init => w.init)
  BY <1>3, <1>4, <1>5 DEF Shaped, Backed
<1>7. CASE Store(w)
  BY <1>1, <1>2, <1>6, <1>7, StoredWrite DEF IInv
<1>8. CASE UNCHANGED <<alert, watch>>
  BY <1>1, <1>2, <1>8, StoredKept DEF IInv, alertVars
<1> QED
  BY <1>1, <1>7, <1>8

\* The informer delivers a version.
LEMMA CacheStep == IInv /\ CacheSync => IInv'
<1> SUFFICES ASSUME IInv, CacheSync PROVE IInv'
  OBVIOUS
<1>1. /\ watch # <<>> /\ cache' = Head(watch) /\ watch' = Tail(watch)
      /\ UNCHANGED <<alert, handled, pc, orig, my>>
  BY DEF CacheSync, reconciler
<1>2. Working'
  BY <1>1, WorkingKept DEF IInv
<1>3. /\ Head(watch) \in Range(watch)
      /\ watch' \in Seq(Range(watch')) /\ Range(watch') \subseteq Range(watch)
  BY <1>1, TailElements DEF IInv, Stored
<1>4. \A v \in Range(watch) \cup {alert} : (Read(v))'
  BY <1>1, CopiesKept DEF IInv, Stored
<1> QED
  BY <1>1, <1>2, <1>3, <1>4 DEF IInv, Stored

\* A user edits the Alert.
LEMMA EditStep == IInv /\ EditSpec => IInv'
<1> SUFFICES ASSUME IInv, EditSpec PROVE IInv'
  OBVIOUS
<1>1. PICK s \in Specs : Store([alert EXCEPT !.spec = s, !.gen = alert.gen + 1])
  BY DEF EditSpec
<1>2. UNCHANGED <<handled, cache, pc, orig, my>>
  BY DEF EditSpec, reconciler
<1> DEFINE v == [alert EXCEPT !.spec = s, !.gen = alert.gen + 1]
<1>3. Shaped(v) /\ Backed(v) /\ (alert.init => v.init)
  <2>1. Shaped(alert) /\ Backed(alert)
    BY DEF IInv, Stored, Read
  <2> DEFINE n == alert.gen + 1
  <2> HIDE DEF n
  <2>2. v = [alert EXCEPT !.spec = s, !.gen = n]
    BY DEF n
  <2> HIDE DEF v
  <2>3. v = [gen |-> n, spec |-> s, init |-> alert.init, observed |-> alert.observed,
             sent |-> alert.sent, ready |-> alert.ready, delivered |-> alert.delivered]
    BY <2>1, <2>2 DEF Shaped
  <2>4. v.spec = s /\ v.init = alert.init /\ v.sent = alert.sent
        /\ v.observed = alert.observed /\ v.ready = alert.ready /\ v.delivered = alert.delivered
    BY <2>3
  <2> QED
    BY <2>1, <2>3, <2>4 DEF Shaped, Backed
<1>4. Stored' /\ (alert.init => alert'.init)
  <2> HIDE DEF v
  <2> QED
    BY <1>1, <1>2, <1>3, StoredWrite DEF IInv, v
<1> QED
  BY <1>2, <1>4, WorkingKept DEF IInv

\* The operator restarts with caches it lists anew.
LEMMA CrashStep == IInv /\ Crash => IInv'
<1> SUFFICES ASSUME IInv, Crash PROVE IInv'
  OBVIOUS
<1>1. Idle /\ cache' = alert /\ watch' = <<>> /\ UNCHANGED <<alert, handled>>
  BY DEF Crash
<1>2. Range(<<>>) = {} /\ <<>> \in Seq({})
  BY EmptySeq DEF Range
<1>3. (Read(alert))'
  BY <1>1, CopiesKept DEF IInv, Stored
<1>4. Working'
  BY <1>1, WorkingIdle
<1> QED
  BY <1>1, <1>2, <1>3, <1>4 DEF IInv, Stored

\* Steps that touch no copy of the Alert.
LEMMA OtherStep ==
  ASSUME IInv, UNCHANGED <<alertVars, handled, pc, orig, my>>
  PROVE  IInv'
BY StoredKept, WorkingKept DEF IInv, alertVars

\* Every step keeps the invariant.
LEMMA NextIInv == IInv /\ [Next]_vars => IInv'
<1> SUFFICES ASSUME IInv, [Next]_vars PROVE IInv'
  OBVIOUS
<1>1. CASE Sent
  BY <1>1, DeliverStep DEF Sent
<1>2. CASE SendFails
  BY <1>2, DeliverStep DEF SendFails
<1>3. CASE ApiError
  <2>1. Idle /\ UNCHANGED <<alertVars, handled>>
    BY <1>3 DEF ApiError
  <2> QED
    BY <2>1, StoredKept, WorkingIdle DEF IInv
<1>4. ASSUME \/ \E o \in {"svc", "ci", "cd"} : PipeSync(o)
             \/ TimerFires \/ SecretUnreadable \/ SecretReadable
      PROVE  UNCHANGED <<alertVars, handled, pc, orig, my>>
  BY <1>4 DEF PipeSync, TimerFires, SecretUnreadable, SecretReadable, reconciler
<1>5. ASSUME Push \/ CIStarts \/ CIEnds \/ CIFails \/ CIWaits \/ CDDeploys \/ CDEnds
      PROVE  UNCHANGED <<alertVars, handled, pc, orig, my>>
  BY <1>5 DEF Push, CIStarts, CIEnds, CIFails, CIWaits, CDDeploys, CDEnds, CITurns, CDTurns,
              PipeTurns, reconciler
<1>6. CASE UNCHANGED vars
  BY <1>6, OtherStep DEF vars, alertVars
<1> QED
  BY <1>1, <1>2, <1>3, <1>4, <1>5, <1>6, ReconcileStep, PatchStep, CacheStep, EditStep,
     CrashStep, OtherStep DEF Next, ControllerStep

-----------------------------------------------------------------------------
(* The deliveries of a plan.                                               *)

\* The place at which the j-th member of a list goes when only some are taken.
Rank(places, j) == Cardinality({i \in places : i < j}) + 1

\* Ranks are without gaps and keep the order.
LEMMA RankedPlaces ==
  ASSUME NEW places, NEW m \in Nat, places \in SUBSET (1 .. m)
  PROVE  /\ Cardinality(places) \in Nat /\ (places # {} => Cardinality(places) > 0)
         /\ \A k \in 1 .. Cardinality(places) : \E j \in places : Rank(places, j) = k
         /\ \A j \in places : Rank(places, j) \in 1 .. Cardinality(places)
         /\ \A i, j \in places : i < j => Rank(places, i) < Rank(places, j)
<1> DEFINE n == Cardinality(places)
           lower(j) == {i \in places : i < j}
           rank == [j \in places |-> Rank(places, j)]
<1>0. \A j \in places : j \in Nat
  OBVIOUS
<1>1. IsFiniteSet(places) /\ n \in Nat
  <2>1. IsFiniteSet(1 .. m)
    BY FS_Interval
  <2>2. IsFiniteSet(places)
    BY <2>1, FS_Subset
  <2> QED
    BY <2>2, FS_CardinalityType
<1>2. places # {} => n > 0
  BY <1>1, FS_EmptySet
<1>3. ASSUME NEW j \in places
      PROVE  /\ lower(j) \in SUBSET places /\ IsFiniteSet(lower(j)) /\ j \notin lower(j)
             /\ Cardinality(lower(j)) \in Nat
             /\ Cardinality(lower(j) \cup {j}) = Cardinality(lower(j)) + 1
             /\ Cardinality(lower(j)) + 1 <= n
  <2>1. lower(j) \in SUBSET places /\ j \notin lower(j)
    BY <1>0
  <2>2. IsFiniteSet(lower(j)) /\ Cardinality(lower(j)) \in Nat
    BY <1>1, <2>1, FS_Subset, FS_CardinalityType
  <2>3. Cardinality(lower(j) \cup {j}) = Cardinality(lower(j)) + 1
    BY <2>1, <2>2, FS_AddElement
  <2>4. lower(j) \cup {j} \in SUBSET places
    BY <2>1
  <2>5. Cardinality(lower(j) \cup {j}) <= n
    BY <1>1, <2>4, FS_Subset
  <2> QED
    BY <2>1, <2>2, <2>3, <2>5
<1>4. ASSUME NEW i \in places, NEW j \in places, i < j
      PROVE  Cardinality(lower(i)) + 1 <= Cardinality(lower(j))
  <2>1. lower(i) \cup {i} \in SUBSET lower(j)
    <3>1. \A x \in places : x < i => x < j
      BY <1>0, <1>4
    <3> QED
      BY <1>4, <3>1
  <2>2. Cardinality(lower(i) \cup {i}) <= Cardinality(lower(j))
    BY <1>3, <2>1, FS_Subset
  <2> HIDE DEF lower
  <2> QED
    BY <1>3, <2>2
<1>5. /\ \A j \in places : rank[j] = Rank(places, j) /\ rank[j] \in 1 .. n
      /\ \A i, j \in places : i < j => rank[i] < rank[j]
  <2>1. \A j \in places : /\ rank[j] = Rank(places, j)
                          /\ rank[j] = Cardinality(lower(j)) + 1
    BY DEF Rank
  <2> HIDE DEF lower, rank
  <2>2. ASSUME NEW j \in places PROVE rank[j] \in 1 .. n
    <3>1. Cardinality(lower(j)) \in Nat /\ Cardinality(lower(j)) + 1 <= n
      BY <1>3
    <3>2. rank[j] = Cardinality(lower(j)) + 1
      BY <2>1
    <3> HIDE DEF n
    <3> QED
      BY <1>1, <3>1, <3>2
  <2>3. ASSUME NEW i \in places, NEW j \in places, i < j
        PROVE  rank[i] < rank[j]
    <3>1. Cardinality(lower(i)) + 1 <= Cardinality(lower(j))
      BY <1>4, <2>3
    <3>2. Cardinality(lower(i)) \in Nat /\ Cardinality(lower(j)) \in Nat
      BY <1>3
    <3> QED
      BY <2>1, <3>1, <3>2
  <2> QED
    BY <2>1, <2>2, <2>3
<1> HIDE DEF rank
<1>6. rank \in Injection(places, 1 .. n)
  <2>1. rank \in [places -> 1 .. n]
    BY <1>5 DEF rank
  <2>2. \A i, j \in places : rank[i] = rank[j] => i = j
    <3>1. \A j \in places : j \in Nat /\ rank[j] \in Nat
      <4>1. \A x \in 1 .. n : x \in Nat
        OBVIOUS
      <4>2. \A j \in places : rank[j] \in 1 .. n
        BY <1>5
      <4> HIDE DEF n
      <4> QED
        BY <1>0, <4>1, <4>2
    <3>2. \A i, j \in places : i = j \/ rank[i] < rank[j] \/ rank[j] < rank[i]
      <4>1. \A i, j \in places : i = j \/ i < j \/ j < i
        BY <3>1
      <4> QED
        BY <1>5, <4>1
    <3>3. \A a \in Nat : ~ (a < a)
      OBVIOUS
    <3> QED
      BY <3>1, <3>2, <3>3
  <2> QED
    BY <2>1, <2>2 DEF Injection, IsInjective
<1>7. rank \in Surjection(places, 1 .. n)
  <2>1. IsFiniteSet(1 .. n) /\ Cardinality(1 .. n) = n
    BY <1>1, FS_Interval
  <2> QED
    BY <1>6, <2>1, FS_Injection
<1>8. \A k \in 1 .. n : \E j \in places : rank[j] = k
  BY <1>7 DEF Surjection
<1> QED
  BY <1>1, <1>2, <1>5, <1>8

\* What is taken from a list in its order is a list of its members.
LEMMA InOrderType ==
  ASSUME NEW S, NEW ds \in Seq(S), NEW places, places \in SUBSET (DOMAIN ds)
  PROVE  /\ InOrder(ds, places) \in Seq(S)
         /\ places # {} => InOrder(ds, places) # <<>>
<1> DEFINE n == Cardinality(places)
           place(k) == CHOOSE j \in places : Rank(places, j) = k
<1>1. Len(ds) \in Nat /\ DOMAIN ds = 1 .. Len(ds) /\ \A j \in DOMAIN ds : ds[j] \in S
  BY LenProperties, ElementOfSeq
<1>2. /\ n \in Nat /\ (places # {} => n > 0)
      /\ \A k \in 1 .. n : \E j \in places : Rank(places, j) = k
  BY <1>1, RankedPlaces
<1>3. \A k \in 1 .. n : place(k) \in places
  BY <1>2
<1>4. InOrder(ds, places) = [k \in 1 .. n |-> ds[place(k)]]
  BY DEF InOrder, Rank
<1> HIDE DEF place
<1>5. [k \in 1 .. n |-> ds[place(k)]] \in [1 .. n -> S]
  BY <1>1, <1>3
<1>6. InOrder(ds, places) \in Seq(S) /\ Len(InOrder(ds, places)) = n
  BY <1>2, <1>4, <1>5, SeqDef, LenProperties
<1> QED
  BY <1>2, <1>6, EmptySeq

\* Plan hands deliver all deliveries that are to be sent, each once and in the
\* order in which it finds them.
THEOREM PlanKeepsAll ==
  ASSUME NEW S, NEW ds \in Seq(S), NEW places, places \in SUBSET (DOMAIN ds)
  PROVE  LET list == InOrder(ds, places)
         IN  \E at \in [places -> DOMAIN list] :
               /\ \A j \in places : list[at[j]] = ds[j]
               /\ \A i, j \in places : i < j => at[i] < at[j]
               /\ \A k \in DOMAIN list : \E j \in places : at[j] = k
<1> DEFINE n == Cardinality(places)
           at == [j \in places |-> Rank(places, j)]
           list == InOrder(ds, places)
<1>1. Len(ds) \in Nat /\ DOMAIN ds = 1 .. Len(ds)
  BY LenProperties
<1>2. /\ \A k \in 1 .. n : \E j \in places : Rank(places, j) = k
      /\ \A j \in places : Rank(places, j) \in 1 .. n
      /\ \A i, j \in places : i < j => Rank(places, i) < Rank(places, j)
      /\ n \in Nat
  BY <1>1, RankedPlaces
<1>3. DOMAIN list = 1 .. n
      /\ \A k \in 1 .. n : list[k] = ds[CHOOSE j \in places : Rank(places, j) = k]
  BY DEF InOrder, Rank
<1>4. ASSUME NEW i \in places, NEW j \in places, Rank(places, i) = Rank(places, j)
      PROVE  i = j
  <2>1. i \in Nat /\ j \in Nat
    BY <1>1
  <2>2. i = j \/ i < j \/ j < i
    BY <2>1
  <2>3. Rank(places, i) \in Nat
    <3> HIDE DEF n
    <3> QED
      BY <1>2
  <2>4. ~ (Rank(places, i) < Rank(places, i))
    BY <2>3
  <2> QED
    BY <1>2, <1>4, <2>2, <2>4
<1>5. ASSUME NEW j \in places PROVE list[Rank(places, j)] = ds[j]
  <2> DEFINE k == Rank(places, j)
             c == CHOOSE x \in places : Rank(places, x) = k
  <2>1. c \in places /\ Rank(places, c) = k
    OBVIOUS
  <2>2. c = j
    <3> HIDE DEF c
    <3> QED
      BY <1>4, <2>1
  <2> QED
    BY <1>2, <1>3, <2>2
<1>6. at \in [places -> 1 .. n] /\ \A j \in places : at[j] = Rank(places, j)
  BY <1>2
<1> HIDE DEF at, list, n
<1>7. /\ \A j \in places : list[at[j]] = ds[j]
      /\ \A i, j \in places : i < j => at[i] < at[j]
      /\ \A k \in 1 .. n : \E j \in places : at[j] = k
  BY <1>2, <1>5, <1>6
<1>8. at \in [places -> DOMAIN list] /\ \A k \in DOMAIN list : k \in 1 .. n
  BY <1>3, <1>6
<1> QED
  BY <1>7, <1>8 DEF list

\* Every pair of an event and a channel is a delivery.
LEMMA PairsType ==
  ASSUME NEW os \in Seq([kind : Kinds, event : Event]), NEW channels \in Seq(Channels)
  PROVE  Pairs(os, channels) \in Seq(Delivery)
<1> DEFINE m == Len(os)
           n == Len(channels)
<1>1. /\ m \in Nat /\ \A j \in 1 .. m : os[j] \in [kind : Kinds, event : Event]
      /\ n \in Nat /\ \A j \in 1 .. n : channels[j] \in Channels
  BY LenProperties, ElementOfSeq
<1>2. m * n \in Nat
  BY <1>1
<1>3. ASSUME NEW i \in 1 .. m * n
      PROVE  1 + ((i - 1) \div n) \in 1 .. m /\ 1 + ((i - 1) % n) \in 1 .. n
  <2> DEFINE k == i - 1
  <2>1. k \in Nat /\ k < m * n
    BY <1>1, <1>2
  <2> HIDE DEF k, m, n
  <2>2. n > 0
    BY <1>1, <2>1
  <2>3. k \div n \in Nat /\ (k \div n) * n <= k /\ k % n \in 0 .. n - 1
    BY <1>1, <2>1, <2>2
  <2> DEFINE q == k \div n
             r == k % n
  <2>4. q \in Nat /\ q * n < m * n /\ r \in 0 .. n - 1
    BY <1>1, <1>2, <2>1, <2>3
  <2> HIDE DEF q, r
  <2>5. q < m
    BY <1>1, <2>2, <2>4
  <2>6. 1 + q \in 1 .. m /\ 1 + r \in 1 .. n
    BY <1>1, <2>4, <2>5
  <2> QED
    BY <2>6 DEF k, q, r
<1>4. \A i \in 1 .. m * n : Pairs(os, channels)[i] \in Delivery
  <2> SUFFICES ASSUME NEW i \in 1 .. m * n PROVE Pairs(os, channels)[i] \in Delivery
    OBVIOUS
  <2> DEFINE o == os[1 + ((i - 1) \div n)]
             c == channels[1 + ((i - 1) % n)]
  <2>1. o \in [kind : Kinds, event : Event] /\ c \in Channels
    BY <1>1, <1>3
  <2>2. Pairs(os, channels)[i] = [kind |-> o.kind, event |-> o.event, channel |-> c]
    BY DEF Pairs
  <2> HIDE DEF o, c
  <2> QED
    BY <2>1, <2>2 DEF Delivery
<1>5. Pairs(os, channels) = [i \in 1 .. m * n |-> Pairs(os, channels)[i]]
  BY DEF Pairs
<1> HIDE DEF m, n
<1> QED
  BY <1>2, <1>4, <1>5, SeqDef

\* The statuses show events.
LEMMA EventsType ==
  ASSUME NEW p \in Pipeline, NEW selected
  PROVE  Events(p, selected) \in Seq([kind : Kinds, event : Event])
<1> DEFINE S == [kind : Kinds, event : Event]
<1>1. /\ p.svc.rev \in Nat /\ p.ci.spec \in Nat /\ p.ci.pod \in Nat /\ p.cd.image \in Nat
      /\ p.ci.phase \in {"Idle", "Building", "Succeeded", "Failed"}
      /\ p.cd.phase \in {"Waiting", "Deploying", "Running", "Failed"}
  BY DEF Pipeline
<1>2. ASSUME NEW kind \in Kinds, NEW event \in Event
      PROVE  Occurrence(kind, event) \in Seq(S)
  BY <1>2 DEF Occurrence
<1>3. <<p.svc.rev>> \in Event /\ <<p.ci.spec, p.ci.pod>> \in Event /\ <<p.cd.image>> \in Event
  BY <1>1 DEF Event
<1>4. <<>> \in Seq(S)
  BY EmptySeq
<1> HIDE DEF S
<1>5. ciEvents(p.ci) \in Seq(S)
  <2>1. CASE p.ci.spec = 0 \/ p.ci.phase = "Idle"
    BY <1>4, <2>1 DEF ciEvents
  <2>2. CASE ~ (p.ci.spec = 0 \/ p.ci.phase = "Idle")
    <3> DEFINE kind == CASE p.ci.phase = "Building"  -> "CIStarted"
                         [] p.ci.phase = "Succeeded" -> "CISucceeded"
                         [] p.ci.phase = "Failed"    -> "CIFailed"
    <3>1. kind \in Kinds
      BY <1>1, <2>2 DEF Kinds
    <3>2. ciEvents(p.ci) = Occurrence(kind, <<p.ci.spec, p.ci.pod>>)
      BY <2>2 DEF ciEvents
    <3> QED
      BY <1>2, <1>3, <3>1, <3>2
  <2> QED
    BY <2>1, <2>2
<1>6. cdEvents(p.cd) \in Seq(S)
  <2>1. CASE p.cd.image = 0 \/ p.cd.phase = "Waiting"
    BY <1>4, <2>1 DEF cdEvents
  <2>2. CASE ~ (p.cd.image = 0 \/ p.cd.phase = "Waiting")
    <3> DEFINE kind == CASE p.cd.phase = "Deploying" -> "CDDeploying"
                         [] p.cd.phase = "Running"   -> "CDSucceeded"
                         [] p.cd.phase = "Failed"    -> "CDFailed"
    <3>1. kind \in Kinds
      BY <1>1, <2>2 DEF Kinds
    <3>2. cdEvents(p.cd) = Occurrence(kind, <<p.cd.image>>)
      BY <2>2 DEF cdEvents
    <3> QED
      BY <1>2, <1>3, <3>1, <3>2
  <2> QED
    BY <2>1, <2>2
<1> DEFINE A == IF p.svc.rev = 0 THEN <<>> ELSE Occurrence("Push", <<p.svc.rev>>)
<1>7. A \in Seq(S)
  BY <1>2, <1>3, <1>4 DEF Kinds
<1>8. (A \o ciEvents(p.ci)) \o cdEvents(p.cd) \in Seq(S)
  <2> HIDE DEF A
  <2> QED
    BY <1>5, <1>6, <1>7, ConcatProperties
<1>9. Events(p, selected) \in Seq(S)
  BY <1>4, <1>8 DEF Events
<1> QED
  BY <1>9 DEF S

-----------------------------------------------------------------------------
(* Types.                                                                  *)

\* The types, and what the loop of deliver needs: it has something to send.
Types == TypeOK /\ (pc = "deliver" => todo # <<>>)

\* A new Alert is a version of the Alert.
LEMMA NewAlertType == NewAlert \in Version
BY SpecsAssumption DEF NewAlert, Version

\* Entries are made from deliveries.
LEMMA RecordedType ==
  ASSUME NEW sent \in SUBSET Entry, NEW ds \in SUBSET Delivery
  PROVE  Recorded(sent, ds) \in SUBSET Entry
<1>1. \A d \in Delivery : EntryOf(d) \in Entry
  BY DEF EntryOf, Key, Delivery, Entry
<1> QED
  BY <1>1 DEF Recorded

\* The status of a pass, with what it has recorded.
LEMMA ReportType ==
  ASSUME NEW v \in Version, NEW fails, NEW sent \in SUBSET Entry
  PROVE  [reportAlert(v, fails) EXCEPT !.sent = sent] \in Version
<1> DEFINE ready == CASE v.spec.suspend                         -> "Suspended"
                      [] ~ v.spec.suspend /\ ~ v.spec.selects -> "NoService"
                      [] OTHER                                   -> "Watching"
           delivered == IF fails = {} THEN "Delivered" ELSE "DeliveryFailed"
<1>1. /\ ready \in {"Suspended", "NoService", "Watching"}
      /\ delivered \in {"Delivered", "DeliveryFailed"}
  <2>1. v.spec.suspend \in BOOLEAN /\ v.spec.selects \in BOOLEAN
    BY DEF Version, AlertSpec
  <2> QED
    BY <2>1
<1>2. [reportAlert(v, fails) EXCEPT !.sent = sent]
        = [v EXCEPT !.init = TRUE, !.observed = v.gen, !.ready = ready,
                    !.delivered = delivered, !.sent = sent]
  BY DEF reportAlert, Version
<1> HIDE DEF ready, delivered
<1> QED
  BY <1>1, <1>2 DEF Version

\* A patch of a version is a version.
LEMMA PatchType ==
  ASSUME NEW server \in Version, NEW old \in Version, NEW new \in Version
  PROVE  MergePatch(server, old, new) \in Version
<1> DEFINE changed == At((old.sent \ new.sent) \cup (new.sent \ old.sent))
           sent == {e \in server.sent : <<e.kind, e.channel>> \notin changed}
                     \cup (new.sent \ old.sent)
<1>1. sent \in SUBSET Entry
  <2>1. server.sent \in SUBSET Entry /\ new.sent \in SUBSET Entry
    BY DEF Version
  <2> QED
    BY <2>1
<1>2. MergePatch(server, old, new)
        = [server EXCEPT
             !.init      = IF new.init     = old.init        THEN @ ELSE new.init,
             !.observed  = IF new.observed = old.observed    THEN @ ELSE new.observed,
             !.ready     = IF SameConditions(old, new)       THEN @ ELSE new.ready,
             !.delivered = IF SameConditions(old, new)       THEN @ ELSE new.delivered,
             !.sent      = sent]
  BY DEF MergePatch, Version
<1> HIDE DEF sent
<1>3. SameConditions(old, new) \in BOOLEAN
  BY DEF SameConditions
<1> QED
  BY <1>1, <1>2, <1>3 DEF Version

\* A write of the Alert.
LEMMA StoreType ==
  ASSUME NEW v \in Version, watch \in Seq(Version), Store(v)
  PROVE  alert' \in Version /\ watch' \in Seq(Version)
BY AppendProperties DEF Store

\* No reconcile runs.
LEMMA IdleType ==
  ASSUME Idle
  PROVE  /\ {orig', my'} \subseteq Version /\ failed' \subseteq Delivery /\ tried' \in BOOLEAN
         /\ pc' \in {"idle", "deliver", "patch", "patchAndRetry"} /\ todo' \in Seq(Delivery)
         /\ pc' # "deliver"
BY NewAlertType, EmptySeq DEF Idle

\* The initial state is well typed.
LEMMA InitTypes == Init => Types
<1> SUFFICES ASSUME Init PROVE Types
  OBVIOUS
<1>1. pipe \in Pipeline /\ budget \in Nat
  BY BoundsAssumption DEF Init, Pipeline
<1>2. <<>> \in Seq(Version) /\ <<>> \in Seq(Delivery)
  BY EmptySeq
<1> QED
  BY <1>1, <1>2, NewAlertType DEF Init, Types, TypeOK

\* Reading and planning.
LEMMA ReconcileTypes == Types /\ Reconcile => Types'
<1> SUFFICES ASSUME Types, Reconcile PROVE Types'
  OBVIOUS
<1>1. /\ UNCHANGED <<pipe, seen, alert, watch, cache, readable, budget, timer>>
      /\ queued' = FALSE /\ orig' = cache /\ tried' = FALSE /\ failed' = {}
  BY DEF Reconcile, alertVars, outside
<1>2. cache \in Version /\ seen \in Pipeline /\ handled \subseteq Delivery
  BY DEF Types, TypeOK
<1>3. /\ my' \in Version /\ handled' \subseteq Delivery /\ todo' \in Seq(Delivery)
      /\ pc' \in {"deliver", "patch", "patchAndRetry"} /\ (pc' = "deliver" => todo' # <<>>)
  <2>1. CASE ~ readable
    <3>1. /\ my' = [cache EXCEPT !.ready = "ChannelUnavailable"] /\ todo' = <<>>
          /\ pc' = "patchAndRetry" /\ handled' = handled
      BY <2>1 DEF Reconcile
    <3>2. my' \in Version
      BY <1>2, <3>1 DEF Version
    <3> QED
      BY <1>2, <3>1, <3>2, EmptySeq
  <2>2. CASE readable
    <3> DEFINE os   == Events(seen, cache.spec.selects)
               ds   == Pairs(os, cache.spec.channels)
               sent == Prune(cache.sent, cache.spec.selects)
               skip == {ds[i] : i \in {j \in DOMAIN ds : ToRecord(cache, sent, ds[j])}}
               send == {i \in DOMAIN ds : ToSend(cache, sent, ds[i])}
    <3>1. /\ my' = [reportAlert(cache, {}) EXCEPT !.sent = Recorded(sent, skip)]
          /\ todo' = InOrder(ds, send) /\ handled' = handled \cup skip
          /\ pc' = IF send # {} THEN "deliver" ELSE "patch"
      BY <2>2 DEF Reconcile
    <3>2. cache.sent \in SUBSET Entry /\ cache.spec \in AlertSpec
      BY <1>2 DEF Version
    <3>3. cache.spec.channels \in Seq(Channels)
      BY <3>2 DEF AlertSpec
    <3>4. ds \in Seq(Delivery)
      <4>1. os \in Seq([kind : Kinds, event : Event])
        BY <1>2, EventsType
      <4> HIDE DEF os
      <4> QED
        BY <3>3, <4>1, PairsType
    <3>5. sent \in SUBSET Entry
      BY <3>2 DEF Prune
    <3> HIDE DEF ds, sent
    <3>6. skip \in SUBSET Delivery
      <4>1. \A j \in DOMAIN ds : ds[j] \in Delivery
        BY <3>4, ElementOfSeq, LenProperties
      <4> QED
        BY <4>1
    <3>7. send \in SUBSET (DOMAIN ds)
      OBVIOUS
    <3> HIDE DEF skip, send
    <3>8. InOrder(ds, send) \in Seq(Delivery) /\ (send # {} => InOrder(ds, send) # <<>>)
      BY <3>4, <3>7, InOrderType
    <3>9. Recorded(sent, skip) \in SUBSET Entry
      BY <3>5, <3>6, RecordedType
    <3>10. my' \in Version
      BY <1>2, <3>1, <3>9, ReportType
    <3> QED
      BY <1>2, <3>1, <3>6, <3>8, <3>10
  <2> QED
    BY <2>1, <2>2
<1> QED
  BY <1>1, <1>3 DEF Types, TypeOK

\* One delivery, successful or not.
LEMMA DeliverTypes ==
  ASSUME Types, NEW ok \in BOOLEAN, NEW arrives \in BOOLEAN, deliver(ok, arrives),
         budget' \in Nat
  PROVE  Types'
<1> DEFINE d == Head(todo)
           sent == IF ok THEN Recorded(my.sent, {d}) ELSE my.sent
<1>1. /\ UNCHANGED <<pipe, seen, alert, watch, cache, readable, queued, timer, orig>>
      /\ pc = "deliver" /\ pc' = IF Len(todo) = 1 THEN "patch" ELSE pc
      /\ todo' = Tail(todo) /\ tried' = TRUE
      /\ handled' = (IF arrives THEN handled \cup {d} ELSE handled)
      /\ failed'  = (IF ok THEN failed ELSE failed \cup {d})
      /\ my' = [reportAlert(my, failed') EXCEPT !.sent = sent]
  BY DEF deliver, alertVars
<1>2. todo \in Seq(Delivery) /\ todo # <<>> /\ my \in Version
  BY <1>1 DEF Types, TypeOK
<1>3. d \in Delivery /\ todo' \in Seq(Delivery) /\ (Len(todo) # 1 => todo' # <<>>)
  <2>1. d \in Delivery /\ Tail(todo) \in Seq(Delivery) /\ Len(Tail(todo)) = Len(todo) - 1
    BY <1>2, HeadTailProperties
  <2>2. \A rest : rest = <<>> => Len(rest) = 0
    OBVIOUS
  <2>3. ASSUME Tail(todo) = <<>> PROVE Len(todo) = 1
    <3> DEFINE rest == Tail(todo)
    <3>1. rest = <<>> /\ Len(rest) = Len(todo) - 1 /\ Len(todo) \in Nat
      BY <1>2, <2>1, <2>3, LenProperties
    <3> HIDE DEF rest
    <3>2. Len(rest) = 0
      BY <2>2, <3>1
    <3> QED
      BY <3>1, <3>2
  <2> HIDE DEF d
  <2> QED
    BY <1>1, <2>1, <2>3
<1>4. sent \in SUBSET Entry
  <2>1. my.sent \in SUBSET Entry /\ {d} \in SUBSET Delivery
    BY <1>2, <1>3 DEF Version
  <2> HIDE DEF d
  <2>2. Recorded(my.sent, {d}) \in SUBSET Entry
    BY <2>1, RecordedType
  <2> QED
    BY <2>1, <2>2
<1> HIDE DEF d, sent
<1>5. my' \in Version
  BY <1>1, <1>2, <1>4, ReportType
<1>6. handled' \subseteq Delivery /\ failed' \subseteq Delivery
  BY <1>1, <1>3 DEF Types, TypeOK
<1> QED
  BY <1>1, <1>3, <1>5, <1>6 DEF Types, TypeOK

\* The patch at the end of a pass.
LEMMA PatchTypes == Types /\ patchStatus => Types'
<1> SUFFICES ASSUME Types, patchStatus PROVE Types'
  OBVIOUS
<1> DEFINE w == MergePatch(alert, orig, my)
<1>1. /\ Idle /\ UNCHANGED <<pipe, seen, cache, handled, readable, budget, queued>>
      /\ Store(w) \/ UNCHANGED <<alert, watch>>
      /\ timer' = (timer \/ pc = "patchAndRetry" \/ failed # {})
  BY DEF patchStatus, outside
<1>2. w \in Version
  BY PatchType DEF Types, TypeOK
<1> HIDE DEF w
<1>3. alert' \in Version /\ watch' \in Seq(Version)
  BY <1>1, <1>2, StoreType DEF Types, TypeOK
<1>4. timer' \in BOOLEAN
  BY <1>1
<1> QED
  BY <1>1, <1>3, <1>4, IdleType DEF Types, TypeOK

\* The pipeline turns.
LEMMA PipeTypes ==
  Types /\ (Push \/ CIStarts \/ CIEnds \/ CIFails \/ CIWaits \/ CDDeploys \/ CDEnds) => Types'
<1> SUFFICES ASSUME Types, Push \/ CIStarts \/ CIEnds \/ CIFails \/ CIWaits \/ CDDeploys \/ CDEnds
             PROVE  Types'
  OBVIOUS
<1>1. /\ pipe = [svc |-> pipe.svc, ci |-> pipe.ci, cd |-> pipe.cd]
      /\ pipe.svc = [rev |-> pipe.svc.rev] /\ pipe.svc.rev \in Nat
      /\ pipe.ci \in [phase: {"Idle", "Building", "Succeeded", "Failed"}, spec: Nat, pod: Nat]
      /\ pipe.cd \in [phase: {"Waiting", "Deploying", "Running", "Failed"}, image: Nat]
      /\ pipe.ci.spec \in Nat /\ pipe.ci.pod \in Nat /\ pipe.cd.image \in Nat
  BY DEF Types, TypeOK, Pipeline
<1>2. ASSUME NEW phase \in {"Idle", "Building", "Succeeded", "Failed"},
             NEW spec \in Nat, NEW pod \in Nat, CITurns(phase, spec, pod)
      PROVE  PipeTurns(pipe') /\ pipe' \in Pipeline
  BY <1>1, <1>2 DEF CITurns, PipeTurns, Pipeline
<1>3. ASSUME NEW phase \in {"Waiting", "Deploying", "Running", "Failed"},
             NEW image \in Nat, CDTurns(phase, image)
      PROVE  PipeTurns(pipe') /\ pipe' \in Pipeline
  BY <1>1, <1>3 DEF CDTurns, PipeTurns, Pipeline
<1>4. ASSUME UNCHANGED budget \/ \E kind \in {"build", "creds", "service", "quota", "rollout"} : Fault(kind)
      PROVE  budget' \in Nat
  BY <1>4 DEF Fault, Types, TypeOK
<1>5. PipeTurns(pipe') /\ pipe' \in Pipeline /\ budget' \in Nat
  <2>1. CASE Push
    <3> DEFINE n == pipe.svc.rev + 1
    <3>1. n \in Nat
      BY <1>1
    <3>2. PipeTurns([pipe EXCEPT !.svc.rev = n])
      BY <2>1 DEF Push
    <3> HIDE DEF n
    <3>3. pipe' \in Pipeline
      BY <1>1, <3>1, <3>2 DEF PipeTurns, Pipeline
    <3> QED
      BY <1>4, <2>1, <3>2, <3>3 DEF Push, PipeTurns
  <2>2. CASE CIStarts
    <3> DEFINE n == pipe.ci.pod + 1
    <3>1. n \in Nat /\ pipe.svc.rev \in Nat
      BY <1>1
    <3>2. CITurns("Building", pipe.svc.rev, n) /\ UNCHANGED budget
      BY <2>2 DEF CIStarts
    <3> HIDE DEF n
    <3> QED
      BY <1>2, <1>4, <3>1, <3>2
  <2>3. CASE CIEnds
    <3>1. CITurns("Succeeded", pipe.ci.spec, pipe.ci.pod) \/ CITurns("Failed", pipe.ci.spec, pipe.ci.pod)
      BY <2>3 DEF CIEnds
    <3>2. UNCHANGED budget \/ Fault("build")
      BY <2>3 DEF CIEnds
    <3> QED
      BY <1>1, <1>2, <1>4, <3>1, <3>2
  <2>4. CASE CIFails
    <3>1. CITurns("Failed", pipe.svc.rev, pipe.ci.pod) \/ CITurns("Failed", pipe.ci.spec, pipe.ci.pod)
      BY <2>4 DEF CIFails
    <3>2. Fault("creds") \/ Fault("quota")
      BY <2>4 DEF CIFails
    <3> QED
      BY <1>1, <1>2, <1>4, <3>1, <3>2
  <2>5. CASE CIWaits
    BY <1>1, <1>2, <1>4, <2>5 DEF CIWaits
  <2>6. CASE CDDeploys
    BY <1>1, <1>3, <1>4, <2>6 DEF CDDeploys
  <2>7. CASE CDEnds
    <3>1. CDTurns("Running", pipe.cd.image) \/ CDTurns("Failed", pipe.cd.image)
      BY <2>7 DEF CDEnds
    <3>2. UNCHANGED budget \/ Fault("rollout")
      BY <2>7 DEF CDEnds
    <3> QED
      BY <1>1, <1>3, <1>4, <3>1, <3>2
  <2> QED
    BY <2>1, <2>2, <2>3, <2>4, <2>5, <2>6, <2>7
<1> QED
  BY <1>5 DEF PipeTurns, alertVars, reconciler, Types, TypeOK

\* Informers, timers, users and failures.
LEMMA OutsideTypes ==
  /\ Types /\ CacheSync => Types'
  /\ Types /\ EditSpec => Types'
  /\ \A object \in {"svc", "ci", "cd"} : Types /\ PipeSync(object) => Types'
  /\ Types /\ (TimerFires \/ SecretUnreadable \/ SecretReadable) => Types'
  /\ Types /\ ApiError => Types'
  /\ Types /\ Crash => Types'
<1>1. ASSUME Types, CacheSync PROVE Types'
  <2>1. watch \in Seq(Version) /\ watch # <<>>
    BY <1>1 DEF CacheSync, Types, TypeOK
  <2>2. Head(watch) \in Version /\ Tail(watch) \in Seq(Version)
    BY <2>1, HeadTailProperties
  <2> QED
    BY <1>1, <2>2 DEF CacheSync, outside, reconciler, Types, TypeOK
<1>2. ASSUME Types, EditSpec PROVE Types'
  <2>1. PICK s \in Specs : Store([alert EXCEPT !.spec = s, !.gen = alert.gen + 1])
    BY <1>2 DEF EditSpec
  <2> DEFINE n == alert.gen + 1
             v == [alert EXCEPT !.spec = s, !.gen = n]
  <2>2. n \in Nat /\ Store(v)
    BY <1>2, <2>1 DEF Types, TypeOK, Version
  <2> HIDE DEF n
  <2>3. v \in Version
    BY <1>2, <2>2, SpecsAssumption DEF Types, TypeOK, Version
  <2> HIDE DEF v
  <2>4. alert' \in Version /\ watch' \in Seq(Version)
    BY <1>2, <2>2, <2>3, StoreType DEF Types, TypeOK
  <2> QED
    BY <1>2, <2>4 DEF EditSpec, outside, reconciler, Types, TypeOK
<1>3. ASSUME NEW object \in {"svc", "ci", "cd"}, Types, PipeSync(object) PROVE Types'
  <2>1. seen' \in Pipeline
    BY <1>3 DEF PipeSync, Types, TypeOK, Pipeline
  <2> QED
    BY <1>3, <2>1 DEF PipeSync, alertVars, outside, reconciler, Types, TypeOK
<1>4. ASSUME Types, TimerFires \/ SecretUnreadable \/ SecretReadable PROVE Types'
  <2>1. budget' \in Nat
    BY <1>4 DEF TimerFires, SecretUnreadable, SecretReadable, Fault, outside, Types, TypeOK
  <2> QED
    BY <1>4, <2>1 DEF TimerFires, SecretUnreadable, SecretReadable, alertVars, outside,
                      reconciler, Types, TypeOK
<1>5. ASSUME Types, ApiError PROVE Types'
  <2>1. Idle /\ budget' \in Nat
    BY <1>5 DEF ApiError, Fault, Types, TypeOK
  <2> QED
    BY <1>5, <2>1, IdleType DEF ApiError, alertVars, Types, TypeOK
<1>6. ASSUME Types, Crash PROVE Types'
  <2>1. Idle /\ budget' \in Nat /\ <<>> \in Seq(Version)
    BY <1>6, EmptySeq DEF Crash, Fault, Types, TypeOK
  <2> QED
    BY <1>6, <2>1, IdleType DEF Crash, Types, TypeOK
<1> QED
  BY <1>1, <1>2, <1>3, <1>4, <1>5, <1>6

\* Every step keeps the types.
LEMMA NextTypes == Types /\ [Next]_vars => Types'
<1> SUFFICES ASSUME Types, [Next]_vars PROVE Types'
  OBVIOUS
<1>1. CASE Sent
  <2>1. deliver(TRUE, TRUE) /\ budget' \in Nat
    BY <1>1 DEF Sent, Types, TypeOK
  <2> QED
    BY <2>1, DeliverTypes
<1>2. CASE SendFails
  <2>1. budget' \in Nat
    BY <1>2 DEF SendFails, Fault, Types, TypeOK
  <2> QED
    BY <1>2, <2>1, DeliverTypes DEF SendFails
<1>3. CASE UNCHANGED vars
  BY <1>3 DEF vars, Types, TypeOK
<1> QED
  BY <1>1, <1>2, <1>3, ReconcileTypes, PatchTypes, PipeTypes, OutsideTypes DEF Next, ControllerStep

-----------------------------------------------------------------------------
(* Rest.                                                                   *)

\* The deliveries that an Alert wants of what the pipeline shows.
Wanted(v, p) ==
  LET os == Events(p, v.spec.selects)
  IN  {[kind |-> os[i].kind, channel |-> c, event |-> os[i].event] :
         i \in DOMAIN os, c \in Named(v.spec)}

\* The watch ends with the Alert as it is.
WatchEnds == IF watch = <<>> THEN cache = alert ELSE watch[Len(watch)] = alert

\* A pass, of which the caches have not changed the ground, has handled what is
\* wanted, or will send it, or has failed to.
PassCovers ==
  ~ queued /\ pc \in {"deliver", "patch"} =>
    /\ \A d \in Wanted(cache, seen) : d \in handled \/ d \in Range(todo) \/ d \in failed
    /\ pc = "patch" => Range(todo) = {}

\* Without a pass, or one to come, all that the caches want is handled.
AllCovered ==
  ~ queued /\ ~ timer /\ pc = "idle" => Wanted(cache, seen) \subseteq handled

RInv == WatchEnds /\ PassCovers /\ AllCovered

\* Pairs has every occurrence for every channel.
LEMMA PairsCover ==
  ASSUME NEW os, Len(os) \in Nat, NEW channels, Len(channels) \in Nat
  PROVE  \A i \in 1 .. Len(os), j \in 1 .. Len(channels) :
           \E k \in DOMAIN Pairs(os, channels) :
             Pairs(os, channels)[k]
               = [kind |-> os[i].kind, event |-> os[i].event, channel |-> channels[j]]
<1> SUFFICES ASSUME NEW i \in 1 .. Len(os), NEW j \in 1 .. Len(channels)
             PROVE  \E k \in DOMAIN Pairs(os, channels) :
                      Pairs(os, channels)[k]
                        = [kind |-> os[i].kind, event |-> os[i].event, channel |-> channels[j]]
  OBVIOUS
<1> DEFINE m == Len(os)
           n == Len(channels)
           a == (i - 1) * n
           k == a + j
<1>1. m \in Nat /\ n \in Nat /\ n > 0 /\ i - 1 \in Nat /\ i - 1 <= m - 1 /\ i \in Nat /\ j \in Nat
  OBVIOUS
<1>2. a \in Nat /\ a + n <= m * n
  <2> DEFINE b == i - 1
  <2>1. b \in Nat /\ b + 1 <= m
    BY <1>1
  <2> HIDE DEF b, m, n
  <2>2. b * n \in Nat /\ (b + 1) * n <= m * n /\ (b + 1) * n = b * n + n
    BY <1>1, <2>1
  <2> QED
    BY <2>2 DEF b
<1>3. k \in 1 .. m * n
  <2> HIDE DEF a
  <2>1. m * n \in Nat
    BY <1>1
  <2> HIDE DEF m
  <2> QED
    BY <1>1, <1>2, <2>1
<1>4. (k - 1) \div n = i - 1 /\ (k - 1) % n = j - 1
  <2> DEFINE b == i - 1
             r == j - 1
             x == k - 1
             q == x \div n
             s == x % n
  <2>1. b \in Nat /\ r \in 0 .. n - 1 /\ x = b * n + r /\ x \in Nat
    BY <1>1, <1>2
  <2> HIDE DEF b, r, x, n
  <2>2. q \in Nat /\ s \in 0 .. n - 1 /\ x = q * n + s
    BY <1>1, <2>1
  <2> HIDE DEF q, s
  <2>3. q = b
    <3>1. ~ (q + 1 <= b)
      <4> SUFFICES ASSUME q + 1 <= b PROVE FALSE
        OBVIOUS
      <4>1. (q + 1) * n <= b * n /\ (q + 1) * n = q * n + n
        BY <1>1, <2>1, <2>2
      <4> QED
        BY <1>1, <2>1, <2>2, <4>1
    <3>2. ~ (b + 1 <= q)
      <4> SUFFICES ASSUME b + 1 <= q PROVE FALSE
        OBVIOUS
      <4>1. (b + 1) * n <= q * n /\ (b + 1) * n = b * n + n
        BY <1>1, <2>1, <2>2
      <4> QED
        BY <1>1, <2>1, <2>2, <4>1
    <3> QED
      BY <2>1, <2>2, <3>1, <3>2
  <2>4. s = r
    BY <1>1, <2>1, <2>2, <2>3
  <2> QED
    BY <2>3, <2>4 DEF q, s, b, r, x
<1> HIDE DEF k, n
<1>5. 1 + ((k - 1) \div n) = i /\ 1 + ((k - 1) % n) = j
  BY <1>1, <1>4
<1>6. /\ k \in DOMAIN Pairs(os, channels)
      /\ Pairs(os, channels)[k] =
           LET o == os[1 + ((k - 1) \div n)]
           IN  [kind |-> o.kind, event |-> o.event, channel |-> channels[1 + ((k - 1) % n)]]
  BY <1>3 DEF Pairs, n
<1> QED
  BY <1>5, <1>6

\* A list consists of its head and its tail.
LEMMA HeadAndTail ==
  ASSUME NEW S, NEW list \in Seq(S), list # <<>>
  PROVE  /\ \A d \in Range(list) : d = Head(list) \/ d \in Range(Tail(list))
         /\ Len(list) = 1 => Range(Tail(list)) = {}
<1> DEFINE n == Len(list)
           rest == Tail(list)
<1>1. /\ n \in Nat /\ n > 0 /\ DOMAIN list = 1 .. n /\ Head(list) = list[1]
      /\ Len(rest) = n - 1 /\ DOMAIN rest = 1 .. n - 1
      /\ \A k \in 1 .. n - 1 : rest[k] = list[k + 1]
  <2>1. rest \in Seq(S) /\ Len(rest) = n - 1 /\ \A k \in 1 .. Len(rest) : rest[k] = list[k + 1]
    BY HeadTailProperties
  <2>2. n \in Nat /\ n > 0 /\ DOMAIN list = 1 .. n /\ Head(list) = list[1]
    BY LenProperties, HeadTailProperties, EmptySeq
  <2>3. DOMAIN rest = 1 .. Len(rest)
    BY <2>1, LenProperties
  <2> HIDE DEF rest, n
  <2> QED
    BY <2>1, <2>2, <2>3
<1> HIDE DEF n, rest
<1>2. ASSUME NEW k \in 1 .. n PROVE list[k] = Head(list) \/ list[k] \in Range(rest)
  <2>1. CASE k = 1
    BY <1>1, <2>1
  <2>2. CASE k # 1
    <3>1. k - 1 \in 1 .. n - 1 /\ (k - 1) + 1 = k
      BY <1>1, <2>2
    <3>2. rest[k - 1] = list[k]
      BY <1>1, <3>1
    <3> QED
      BY <1>1, <3>1, <3>2 DEF Range
  <2> QED
    BY <2>1, <2>2
<1>3. n = 1 => Range(rest) = {}
  BY <1>1 DEF Range
<1> QED
  BY <1>1, <1>2, <1>3 DEF n, rest, Range

\* A delivery is known by its entry.
LEMMA EntryNames ==
  ASSUME NEW d \in Delivery, NEW other \in Delivery, EntryOf(d) = EntryOf(other)
  PROVE  d = other
<1>1. d.kind = other.kind /\ d.channel = other.channel /\ d.event = other.event
  BY DEF EntryOf, Key
<1> QED
  BY <1>1 DEF Delivery

\* What is wanted of a well-formed pipeline, in the order of the loops of Plan.
LEMMA WantedPlanned ==
  ASSUME NEW v \in Version, NEW p \in Pipeline
  PROVE  LET ds == Pairs(Events(p, v.spec.selects), v.spec.channels)
         IN  ds \in Seq(Delivery) /\ \A d \in Wanted(v, p) : \E k \in DOMAIN ds : ds[k] = d
<1> DEFINE os == Events(p, v.spec.selects)
           channels == v.spec.channels
<1>1. channels \in Seq(Channels)
  <2>1. v.spec \in AlertSpec
    BY DEF Version
  <2> QED
    BY <2>1 DEF AlertSpec
<1>2. os \in Seq([kind : Kinds, event : Event])
  BY EventsType
<1> HIDE DEF os
<1>3. /\ Len(os) \in Nat /\ DOMAIN os = 1 .. Len(os)
      /\ Len(channels) \in Nat /\ DOMAIN channels = 1 .. Len(channels)
  BY <1>1, <1>2, LenProperties
<1>4. ASSUME NEW i \in DOMAIN os, NEW c \in Named(v.spec)
      PROVE  \E k \in DOMAIN Pairs(os, channels) :
               Pairs(os, channels)[k]
                 = [kind |-> os[i].kind, channel |-> c, event |-> os[i].event]
  <2>1. PICK j \in 1 .. Len(channels) : c = channels[j]
    BY <1>3 DEF Named
  <2>2. \E k \in DOMAIN Pairs(os, channels) :
          Pairs(os, channels)[k]
            = [kind |-> os[i].kind, event |-> os[i].event, channel |-> channels[j]]
    <3>1. i \in 1 .. Len(os)
      BY <1>3
    <3> HIDE DEF channels
    <3> QED
      BY <1>3, <2>1, <3>1, PairsCover
  <2> QED
    BY <2>1, <2>2
<1>5. Pairs(os, channels) \in Seq(Delivery)
  BY <1>1, <1>2, PairsType
<1> QED
  BY <1>4, <1>5 DEF os, Wanted

\* The initial state.
LEMMA InitRest == Init => RInv
BY DEF Init, RInv, WatchEnds, PassCovers, AllCovered

\* The end of the watch stays the Alert.
LEMMA StoreEnds ==
  ASSUME watch \in Seq(Version), NEW v \in Version, Store(v)
  PROVE  WatchEnds'
<1>1. alert' = v /\ watch' = Append(watch, v)
  BY DEF Store
<1>2. watch' # <<>> /\ watch'[Len(watch')] = v
  <2>1. Append(watch, v) \in Seq(Version) /\ Append(watch, v) # <<>>
        /\ Len(Append(watch, v)) = Len(watch) + 1 /\ Append(watch, v)[Len(watch) + 1] = v
    BY AppendProperties
  <2> QED
    BY <1>1, <2>1
<1> QED
  BY <1>1, <1>2 DEF WatchEnds

\* The informer delivers the first version.
LEMMA SyncEnds ==
  ASSUME watch \in Seq(Version), WatchEnds, CacheSync
  PROVE  WatchEnds'
<1> DEFINE n == Len(watch)
           rest == Tail(watch)
<1>1. /\ watch # <<>> /\ cache' = Head(watch) /\ watch' = rest /\ alert' = alert
      /\ watch[n] = alert
  BY DEF CacheSync, WatchEnds
<1>2. /\ n \in Nat /\ n > 0 /\ Head(watch) = watch[1]
      /\ rest \in Seq(Version) /\ Len(rest) = n - 1 /\ \A k \in 1 .. n - 1 : rest[k] = watch[k + 1]
  <2>1. /\ rest \in Seq(Version) /\ Len(rest) = n - 1
        /\ \A k \in 1 .. Len(rest) : rest[k] = watch[k + 1]
    BY <1>1, HeadTailProperties
  <2>2. n \in Nat /\ n > 0 /\ Head(watch) = watch[1]
    BY <1>1, LenProperties, HeadTailProperties, EmptySeq
  <2> HIDE DEF rest, n
  <2> QED
    BY <2>1, <2>2
<1>3. rest = <<>> => n = 1
  <2>1. \A list : list = <<>> => Len(list) = 0
    OBVIOUS
  <2> HIDE DEF rest, n
  <2> QED
    BY <1>2, <2>1
<1>4. rest # <<>> => n > 1
  <2>1. rest # <<>> => Len(rest) \in Nat \ {0}
    BY <1>2, EmptySeq
  <2> HIDE DEF rest, n
  <2> QED
    BY <1>2, <2>1
<1> HIDE DEF rest, n
<1>5. CASE rest = <<>>
  BY <1>1, <1>2, <1>3, <1>5 DEF WatchEnds
<1>6. CASE rest # <<>>
  <2>1. n - 1 \in 1 .. n - 1 /\ (n - 1) + 1 = n
    BY <1>2, <1>4, <1>6
  <2>2. rest[Len(rest)] = watch[n]
    BY <1>2, <2>1
  <2> QED
    BY <1>1, <1>6, <2>2 DEF WatchEnds
<1> QED
  BY <1>5, <1>6

\* The watch ends with the Alert after every step.
LEMMA WatchEndsStep == Types /\ WatchEnds /\ [Next]_vars => WatchEnds'
<1> SUFFICES ASSUME Types, WatchEnds, [Next]_vars PROVE WatchEnds'
  OBVIOUS
<1>1. watch \in Seq(Version) /\ {alert, orig, my} \subseteq Version
  BY DEF Types, TypeOK
<1>2. CASE UNCHANGED alertVars
  BY <1>2 DEF WatchEnds, alertVars
<1>3. CASE patchStatus
  <2> DEFINE w == MergePatch(alert, orig, my)
  <2>1. cache' = cache /\ (Store(w) \/ UNCHANGED <<alert, watch>>)
    BY <1>3 DEF patchStatus
  <2>2. w \in Version
    BY <1>1, PatchType
  <2> HIDE DEF w
  <2>3. CASE Store(w)
    BY <1>1, <2>2, <2>3, StoreEnds
  <2>4. CASE UNCHANGED <<alert, watch>>
    BY <2>1, <2>4 DEF WatchEnds
  <2> QED
    BY <2>1, <2>3, <2>4
<1>4. CASE EditSpec
  <2>1. PICK s \in Specs : Store([alert EXCEPT !.spec = s, !.gen = alert.gen + 1])
    BY <1>4 DEF EditSpec
  <2> DEFINE n == alert.gen + 1
             v == [alert EXCEPT !.spec = s, !.gen = n]
  <2>2. n \in Nat /\ Store(v)
    BY <1>1, <2>1 DEF Version
  <2> HIDE DEF n
  <2>3. v \in Version
    BY <1>1, SpecsAssumption, <2>2 DEF Version
  <2> HIDE DEF v
  <2> QED
    BY <1>1, <2>2, <2>3, StoreEnds
<1>5. CASE CacheSync
  BY <1>1, <1>5, SyncEnds
<1>6. CASE Crash
  BY <1>6 DEF Crash, WatchEnds
<1>7. \/ UNCHANGED alertVars \/ patchStatus \/ EditSpec \/ CacheSync \/ Crash
  BY DEF Next, ControllerStep, Reconcile, Sent, SendFails, deliver, PipeSync, TimerFires, Push,
         CIStarts, CIEnds, CIFails, CIWaits, CDDeploys, CDEnds, CITurns, CDTurns, PipeTurns,
         SecretUnreadable, SecretReadable, ApiError, vars, alertVars
<1> QED
  BY <1>2, <1>3, <1>4, <1>5, <1>6, <1>7

\* A pass plans all that is wanted of what the caches show: what the status
\* records already has been handled.
LEMMA PlanCovers ==
  ASSUME IInv, Types, Reconcile, pc' \in {"deliver", "patch"}
  PROVE  /\ \A d \in Wanted(cache, seen) : d \in handled' \/ d \in Range(todo')
         /\ pc' = "patch" => Range(todo') = {}
<1> DEFINE ds   == Pairs(Events(seen, cache.spec.selects), cache.spec.channels)
           sent == Prune(cache.sent, cache.spec.selects)
           skip == {ds[i] : i \in {j \in DOMAIN ds : ToRecord(cache, sent, ds[j])}}
           send == {i \in DOMAIN ds : ToSend(cache, sent, ds[i])}
<1>1. /\ todo' = InOrder(ds, send) /\ handled' = handled \cup skip
      /\ pc' = IF send # {} THEN "deliver" ELSE "patch"
  BY DEF Reconcile
<1>2. cache \in Version /\ seen \in Pipeline /\ handled \subseteq Delivery
  BY DEF Types, TypeOK
<1>3. ds \in Seq(Delivery) /\ \A d \in Wanted(cache, seen) : \E k \in DOMAIN ds : ds[k] = d
  BY <1>2, WantedPlanned
<1>4. sent \subseteq cache.sent /\ \A e \in cache.sent : \E h \in handled : EntryOf(h) = e
  BY DEF Prune, IInv, Stored, Read, Backed
<1> HIDE DEF ds, sent
<1>5. ASSUME NEW k \in DOMAIN ds PROVE ds[k] \in Delivery
  BY <1>3, <1>5, ElementOfSeq, LenProperties
<1>6. PICK at \in [send -> DOMAIN InOrder(ds, send)] :
        /\ \A j \in send : InOrder(ds, send)[at[j]] = ds[j]
        /\ \A k \in DOMAIN InOrder(ds, send) : \E j \in send : at[j] = k
  <2>1. send \in SUBSET (DOMAIN ds)
    OBVIOUS
  <2> HIDE DEF send
  <2> QED
    BY <1>3, <2>1, PlanKeepsAll
<1>7. ASSUME NEW k \in DOMAIN ds PROVE ds[k] \in handled' \/ ds[k] \in Range(todo')
  <2>1. CASE EntryOf(ds[k]) \in sent
    <3>1. PICK h \in handled : EntryOf(h) = EntryOf(ds[k])
      BY <1>4, <2>1
    <3>2. h = ds[k]
      BY <1>2, <1>5, <3>1, EntryNames
    <3> QED
      BY <1>1, <3>2
  <2>2. CASE EntryOf(ds[k]) \notin sent /\ Skips(cache, ds[k])
    <3>1. ds[k] \in skip
      BY <2>2 DEF ToRecord
    <3> QED
      BY <1>1, <3>1
  <2>3. CASE EntryOf(ds[k]) \notin sent /\ ~ Skips(cache, ds[k])
    <3>1. k \in send
      BY <2>3 DEF ToSend
    <3> HIDE DEF send, skip
    <3>2. at[k] \in DOMAIN todo' /\ todo'[at[k]] = ds[k]
      BY <1>1, <1>6, <3>1
    <3> QED
      BY <3>2 DEF Range
  <2> QED
    BY <2>1, <2>2, <2>3
<1>8. pc' = "patch" => Range(todo') = {}
  <2> HIDE DEF send, skip
  <2> QED
    BY <1>1, <1>6 DEF Range
<1> QED
  BY <1>3, <1>7, <1>8

\* A delivery of the list is sent, or has failed.
LEMMA DeliverCovers ==
  ASSUME Types, PassCovers, NEW ok \in BOOLEAN, NEW arrives \in BOOLEAN, ok => arrives,
         deliver(ok, arrives)
  PROVE  PassCovers' /\ AllCovered'
<1> DEFINE d == Head(todo)
<1>1. /\ UNCHANGED <<seen, cache, queued>> /\ pc = "deliver" /\ todo' = Tail(todo)
      /\ pc' = IF Len(todo) = 1 THEN "patch" ELSE pc
      /\ handled' = (IF arrives THEN handled \cup {d} ELSE handled)
      /\ failed'  = (IF ok THEN failed ELSE failed \cup {d})
  BY DEF deliver, alertVars
<1>2. todo \in Seq(Delivery) /\ todo # <<>>
  BY <1>1 DEF Types, TypeOK
<1>3. /\ \A x \in Range(todo) : x = d \/ x \in Range(todo')
      /\ Len(todo) = 1 => Range(todo') = {}
  BY <1>1, <1>2, HeadAndTail
<1> HIDE DEF d
<1>4. Wanted(cache, seen)' = Wanted(cache, seen)
  BY <1>1 DEF Wanted, Events, ciEvents, cdEvents
<1>5. d \in handled' \/ d \in failed'
  BY <1>1
<1>6. handled \subseteq handled' /\ failed \subseteq failed'
  BY <1>1
<1>7. PassCovers'
  BY <1>1, <1>3, <1>4, <1>5, <1>6 DEF PassCovers
<1>8. AllCovered'
  BY <1>1 DEF AllCovered
<1> QED
  BY <1>7, <1>8

\* The patch ends a pass: then everything is handled, or the Alert is tried
\* again.
LEMMA PatchCovers ==
  ASSUME PassCovers, patchStatus
  PROVE  PassCovers' /\ AllCovered'
<1>1. /\ UNCHANGED <<seen, cache, handled, queued>> /\ pc' = "idle"
      /\ pc \in {"patch", "patchAndRetry"}
      /\ timer' = (timer \/ pc = "patchAndRetry" \/ failed # {})
  BY DEF patchStatus, Idle
<1>2. PassCovers'
  BY <1>1 DEF PassCovers
<1>3. ASSUME ~ queued', ~ timer' PROVE Wanted(cache, seen) \subseteq handled
  <2>1. pc = "patch" /\ failed = {} /\ ~ queued
    BY <1>1, <1>3
  <2>2. /\ \A d \in Wanted(cache, seen) : d \in handled \/ d \in Range(todo) \/ d \in failed
        /\ Range(todo) = {}
    BY <2>1 DEF PassCovers
  <2> QED
    BY <2>1, <2>2
<1>4. Wanted(cache, seen)' = Wanted(cache, seen)
  BY <1>1 DEF Wanted, Events, ciEvents, cdEvents
<1> QED
  BY <1>1, <1>2, <1>3, <1>4 DEF AllCovered

\* Everything else queues the Alert, or changes nothing that a pass works on.
LEMMA CoversStep == IInv /\ Types /\ RInv /\ [Next]_vars => PassCovers' /\ AllCovered'
<1> SUFFICES ASSUME IInv, Types, RInv, [Next]_vars PROVE PassCovers' /\ AllCovered'
  OBVIOUS
<1>1. PassCovers /\ AllCovered
  BY DEF RInv
<1>2. CASE queued'
  BY <1>2 DEF PassCovers, AllCovered
<1>3. CASE UNCHANGED <<seen, cache, handled, todo, failed, pc, queued, timer>>
  <2>1. Wanted(cache, seen)' = Wanted(cache, seen)
    BY <1>3 DEF Wanted, Events, ciEvents, cdEvents
  <2> QED
    BY <1>1, <1>3, <2>1 DEF PassCovers, AllCovered
<1>4. CASE Reconcile
  <2>1. UNCHANGED <<seen, cache>> /\ pc' # "idle"
    BY <1>4 DEF Reconcile, alertVars
  <2>2. Wanted(cache, seen)' = Wanted(cache, seen)
    BY <2>1 DEF Wanted, Events, ciEvents, cdEvents
  <2>3. PassCovers'
    BY <1>4, <2>2, PlanCovers DEF PassCovers
  <2> QED
    BY <2>1, <2>3 DEF AllCovered
<1>5. CASE Sent \/ SendFails
  BY <1>1, <1>5, DeliverCovers DEF Sent, SendFails
<1>6. CASE patchStatus
  BY <1>1, <1>6, PatchCovers
<1>7. \/ queued' \/ Reconcile \/ Sent \/ SendFails \/ patchStatus
      \/ UNCHANGED <<seen, cache, handled, todo, failed, pc, queued, timer>>
  BY DEF Next, ControllerStep, CacheSync, PipeSync, TimerFires, Push, CIStarts, CIEnds, CIFails,
         CIWaits, CDDeploys, CDEnds, CITurns, CDTurns, PipeTurns, EditSpec, SecretUnreadable,
         SecretReadable, ApiError, Crash, vars, alertVars, reconciler
<1> QED
  BY <1>2, <1>3, <1>4, <1>5, <1>6, <1>7

-----------------------------------------------------------------------------
(* Theorems.                                                               *)

\* Every variable keeps its type, whatever is pushed, edited or fails.
THEOREM AlertTypeCorrect == Spec => []TypeOK
<1>1. Types => TypeOK
  BY DEF Types
<1> QED
  BY <1>1, InitTypes, NextTypes, PTL DEF Spec

\* Every copy of the Alert that the reconciler may read or patch from records
\* only what has been handled, and none is ahead of the Alert.
THEOREM Inductive == Spec => []IInv
BY InitIInv, NextIInv, PTL DEF Spec

\* No failure, restart or patch from a stale copy makes status.lastNotified
\* record an event that no channel received and that was not left out on purpose.
THEOREM HandledTheorem == Spec => []RecordedMeansHandled
<1>1. IInv => RecordedMeansHandled
  BY DEF IInv, Stored, Read, Backed, RecordedMeansHandled
<1> QED
  BY <1>1, Inductive, PTL

\* Nothing is sent before the Alert has recorded the state it was created in.
THEOREM BaselineTheorem == Spec => []NothingBeforeBaseline
<1>1. IInv => NothingBeforeBaseline
  BY DEF IInv, Working, Read, NothingBeforeBaseline
<1> QED
  BY <1>1, Inductive, PTL

\* In every reachable state the watch ends with the Alert as it is, and whatever
\* the caches want is handled, in the hands of a pass, or to be tried again.
THEOREM RestInvariant == Spec => []RInv
<1>1. IInv /\ Types /\ RInv /\ [Next]_vars => RInv'
  BY WatchEndsStep, CoversStep DEF RInv
<1>2. Spec => []Types
  BY InitTypes, NextTypes, PTL DEF Spec
<1> QED
  BY <1>1, <1>2, InitRest, Inductive, PTL DEF Spec

\* Without a pass, a queued key or a timer, and with caches that show everything,
\* every event has reached its channels or was left out on purpose.
THEOREM HandledAtRestTheorem == Spec => []HandledAtRest
<1>1. RInv => HandledAtRest
  <2> SUFFICES ASSUME RInv, pc = "idle", ~ queued, ~ timer, watch = <<>>, seen = pipe
               PROVE  AllHandled
    BY DEF HandledAtRest
  <2>1. cache = alert /\ Wanted(alert, pipe) \subseteq handled
    BY DEF RInv, WatchEnds, AllCovered
  <2> QED
    BY <2>1 DEF AllHandled, Wanted
<1> QED
  BY <1>1, RestInvariant, PTL
=============================================================================
