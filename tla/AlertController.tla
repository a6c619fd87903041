--------------------------- MODULE AlertController --------------------------
(***************************************************************************)
(* The Alert reconciler (internal/controller/alert_controller.go and       *)
(* alert_targets.go with the package internal/alerting) working on ONE     *)
(* Alert that selects ONE Service: it derives the events that the statuses *)
(* of Service, CI and CD show, compares them with what status.lastNotified *)
(* records, sends the new ones to every channel and records them.          *)
(*                                                                         *)
(* A notification cannot be taken back, and it is recorded only by the     *)
(* status patch at the end: without a lock, computed from a cached copy.   *)
(* status.deliveries is kept only as far as it matters to control: a pass  *)
(* that tried to send changes the Alert.                                   *)
(***************************************************************************)
EXTENDS Naturals, Sequences, FiniteSets

CONSTANTS
  Channels,   \* names of channels
  Specs,      \* the specs users give the Alert
  FirstSpec,  \* the spec it is created with
  Faults,     \* the things that may go wrong in this instance
  MaxChanges, \* bound: pushes, build Pods and edits of the Alert together
  MaxLag,     \* bound: versions of the Alert the informer may trail by
  MaxFaults   \* bound: faults together

Kinds == {"Push", "CIStarted", "CISucceeded", "CIFailed",
          "CDDeploying", "CDSucceeded", "CDFailed"}

\* Channels in the order of the spec, the kinds to send (none: all), suspend,
\* and whether serviceRef or selector choose the Service.
AlertSpec == [channels: Seq(Channels), wanted: SUBSET Kinds, suspend: BOOLEAN,
              selects: BOOLEAN]

ASSUME SpecsAssumption == Specs \subseteq AlertSpec /\ FirstSpec \in Specs
ASSUME FaultsAssumption ==
  Faults \subseteq {"send", "secret", "build", "creds", "quota", "service",
                    "rollout", "api", "crash"}
ASSUME BoundsAssumption == {MaxChanges, MaxLag, MaxFaults} \subseteq Nat

VARIABLES
  pipe,      \* Service, CI and CD at the API server
  seen,      \* the same in the informer caches
  alert,     \* the Alert at the API server
  watch,     \* versions of the Alert the informer has not delivered yet
  cache,     \* the Alert in the informer cache
  handled,   \* history: events received by a channel, or recorded as not to be sent
  readable,  \* the Secrets of the channels can be read
  budget,    \* faults that may still happen
  queued,    \* the work queue holds the Alert
  timer,     \* a RequeueAfter is pending
  pc,        \* what the running reconcile does next
  orig, my,  \* the Alert as it was read, and with its new status
  todo,      \* deliveries still to send
  tried,     \* this pass sent something, or tried to
  failed     \* deliveries of this pass that failed

vars == <<pipe, seen, alert, watch, cache, handled, readable, budget, queued, timer,
          pc, orig, my, todo, tried, failed>>
alertVars  == <<alert, watch, cache>>
outside    == <<readable, budget>>
reconciler == <<pc, orig, my, todo, tried, failed>>

\* What the statuses show.  A spec of the CI (revision and generation) is
\* named by the number of its revision, an image by that of its spec; 0 is none.
Pipeline == [svc: [rev: Nat],
             ci:  [phase: {"Idle", "Building", "Succeeded", "Failed"}, spec: Nat, pod: Nat],
             cd:  [phase: {"Waiting", "Deploying", "Running", "Failed"}, image: Nat]]

\* An event: a revision, a build (spec and Pod) or an image.
Event    == Seq(Nat)
Delivery == [kind: Kinds, channel: Channels, event: Event]

\* lastNotified is a map from kind and channel to a key, here its set of entries.
Entry   == [kind: Kinds, channel: Channels, key: Event]
At(es)  == {<<e.kind, e.channel>> : e \in es}

Version == [gen: Nat, spec: AlertSpec, init: BOOLEAN, observed: Nat, sent: SUBSET Entry,
            ready: {"unset", "ChannelUnavailable", "Suspended", "NoService", "Watching"},
            delivered: {"unset", "DeliveryFailed", "Delivered"}]

NewAlert == [gen |-> 1, spec |-> FirstSpec, init |-> FALSE, observed |-> 0,
             sent |-> {}, ready |-> "unset", delivered |-> "unset"]

Init ==
  /\ pipe = [svc |-> [rev |-> 1],
             ci  |-> [phase |-> "Idle", spec |-> 0, pod |-> 0],
             cd  |-> [phase |-> "Waiting", image |-> 0]]
  /\ seen = pipe
  /\ alert = NewAlert /\ watch = <<>> /\ cache = NewAlert
  /\ handled = {} /\ readable = TRUE /\ budget = MaxFaults
  /\ queued = TRUE /\ timer = FALSE
  /\ pc = "idle" /\ orig = NewAlert /\ my = NewAlert /\ todo = <<>>
  /\ tried = FALSE /\ failed = {}

-----------------------------------------------------------------------------
(* The package alerting: what the statuses show and what is still to send. *)

Occurrence(kind, event) == <<[kind |-> kind, event |-> event]>>

ciEvents(ci) ==
  IF ci.spec = 0 \/ ci.phase = "Idle" THEN <<>>
  ELSE Occurrence(CASE ci.phase = "Building"  -> "CIStarted"
                    [] ci.phase = "Succeeded" -> "CISucceeded"
                    [] ci.phase = "Failed"    -> "CIFailed", <<ci.spec, ci.pod>>)

cdEvents(cd) ==
  IF cd.image = 0 \/ cd.phase = "Waiting" THEN <<>>
  ELSE Occurrence(CASE cd.phase = "Deploying" -> "CDDeploying"
                    [] cd.phase = "Running"   -> "CDSucceeded"
                    [] cd.phase = "Failed"    -> "CDFailed", <<cd.image>>)

\* Events of the selected Services; at most one per kind.
Events(p, selected) ==
  IF ~ selected THEN <<>>
  ELSE (IF p.svc.rev = 0 THEN <<>> ELSE Occurrence("Push", <<p.svc.rev>>))
         \o ciEvents(p.ci) \o cdEvents(p.cd)

\* Mutant: a build is known by its spec alone.
Key_spec(event) == <<event[1]>>

\* The key of an occurrence: the revision, the build, or the image.
Key(event) == event

\* Mutant: the entries of the selected Services are dropped.
Prune_selected(sent, selected) == IF selected THEN {} ELSE sent

\* Entries of Services no longer selected are dropped.
Prune(sent, selected) == IF selected THEN sent ELSE {}

ChannelsInState(sent) == {e.channel : e \in sent}

Named(spec) == {spec.channels[i] : i \in DOMAIN spec.channels}

\* Mutant: a new Alert reports what it finds.
baselineChannels_known(v) ==
  {c \in Named(v.spec) :
     v.spec.suspend \/ (v.observed # v.gen /\ v.init /\ c \notin ChannelsInState(v.sent))}

\* Channels that record the present state without sending it.
baselineChannels(v) ==
  {c \in Named(v.spec) :
     \/ ~ v.init
     \/ v.spec.suspend
     \/ v.observed # v.gen /\ c \notin ChannelsInState(v.sent)}

\* Every occurrence for every channel, in the order of the loops of Plan.
Pairs(os, channels) ==
  [i \in 1 .. Len(os) * Len(channels) |->
     LET o == os[1 + ((i - 1) \div Len(channels))]
     IN  [kind |-> o.kind, event |-> o.event,
          channel |-> channels[1 + ((i - 1) % Len(channels))]]]

\* Plan: the deliveries still needed, to be sent or only recorded.
Skips(v, d) ==
  \/ d.channel \in baselineChannels(v)
  \/ v.spec.wanted # {} /\ d.kind \notin v.spec.wanted
EntryOf(d) == [kind |-> d.kind, channel |-> d.channel, key |-> Key(d.event)]

ToSend(v, sent, d)   == EntryOf(d) \notin sent /\ ~ Skips(v, d)
ToRecord(v, sent, d) == EntryOf(d) \notin sent /\ Skips(v, d)

\* The deliveries at the given places of ds, in their order.
InOrder(ds, places) ==
  [k \in 1 .. Cardinality(places) |->
     ds[CHOOSE j \in places : Cardinality({i \in places : i < j}) + 1 = k]]

Recorded(sent, ds) ==
  LET new == {EntryOf(d) : d \in ds}
  IN  {e \in sent : <<e.kind, e.channel>> \notin At(new)} \cup new

-----------------------------------------------------------------------------
(* The steps of Reconcile.                                                 *)

\* A write of the Alert, which the watch will deliver.
Store(v) == Len(watch) < MaxLag /\ alert' = v /\ watch' = Append(watch, v)

Idle ==
  /\ pc' = "idle" /\ orig' = NewAlert /\ my' = NewAlert /\ todo' = <<>>
  /\ tried' = FALSE /\ failed' = {}

\* The status of a finished pass, but for lastNotified.
reportAlert(v, fails) ==
  [v EXCEPT !.init = TRUE, !.observed = v.gen,
     !.ready = CASE v.spec.suspend                         -> "Suspended"
                 [] ~ v.spec.suspend /\ ~ v.spec.selects -> "NoService"
                 [] OTHER                                   -> "Watching",
     !.delivered = IF fails = {} THEN "Delivered" ELSE "DeliveryFailed"]

\* Read the cached Alert, the Secrets and the cached pipeline, and plan.
Reconcile ==
  /\ pc = "idle" /\ queued /\ queued' = FALSE
  /\ orig' = cache /\ tried' = FALSE /\ failed' = {}
  /\ UNCHANGED <<pipe, seen, alertVars, outside, timer>>
  /\ \/ /\ ~ readable
        /\ my' = [cache EXCEPT !.ready = "ChannelUnavailable"]
        /\ todo' = <<>> /\ pc' = "patchAndRetry" /\ UNCHANGED handled
     \/ /\ readable
        /\ \E os \in {Events(seen, cache.spec.selects)} :
             LET ds   == Pairs(os, cache.spec.channels)
                 sent == Prune(cache.sent, cache.spec.selects)
                 skip == {ds[i] : i \in {j \in DOMAIN ds : ToRecord(cache, sent, ds[j])}}
                 send == {i \in DOMAIN ds : ToSend(cache, sent, ds[i])}
             IN  /\ my' = [reportAlert(cache, {}) EXCEPT !.sent = Recorded(sent, skip)]
                 /\ todo' = InOrder(ds, send)
                 /\ handled' = handled \cup skip
                 /\ pc' = IF send # {} THEN "deliver" ELSE "patch"

\* Mutant: a delivery is recorded whether it arrived or not.
deliver_recorded(ok, arrives) ==
  /\ pc = "deliver" /\ pc' = IF Len(todo) = 1 THEN "patch" ELSE pc
  /\ todo' = Tail(todo) /\ tried' = TRUE
  /\ UNCHANGED <<pipe, seen, alertVars, readable, queued, timer, orig>>
  /\ LET d == Head(todo)
     IN  /\ handled' = IF arrives THEN handled \cup {d} ELSE handled
         /\ failed'  = IF ok THEN failed ELSE failed \cup {d}
         /\ my' = [reportAlert(my, failed') EXCEPT
                     !.sent = Recorded(my.sent, {d})]

\* One round of the loop of deliver: Send answers ok or an error, and an
\* event may arrive although the answer was an error.
deliver(ok, arrives) ==
  /\ pc = "deliver" /\ pc' = IF Len(todo) = 1 THEN "patch" ELSE pc
  /\ todo' = Tail(todo) /\ tried' = TRUE
  /\ UNCHANGED <<pipe, seen, alertVars, readable, queued, timer, orig>>
  /\ LET d == Head(todo)
     IN  /\ handled' = IF arrives THEN handled \cup {d} ELSE handled
         /\ failed'  = IF ok THEN failed ELSE failed \cup {d}
         /\ my' = [reportAlert(my, failed') EXCEPT
                     !.sent = IF ok THEN Recorded(my.sent, {d}) ELSE my.sent]

Sent == deliver(TRUE, TRUE) /\ UNCHANGED budget

\* client.MergeFrom: only what differs between new and old is sent, entry by
\* entry in lastNotified, and all of conditions, each of which names the
\* generation.
SameConditions(old, new) ==
  old.ready = new.ready /\ old.delivered = new.delivered /\ old.observed = new.observed

MergePatch(server, old, new) ==
  [server EXCEPT
     !.init      = IF new.init     = old.init        THEN @ ELSE new.init,
     !.observed  = IF new.observed = old.observed    THEN @ ELSE new.observed,
     !.ready     = IF SameConditions(old, new)       THEN @ ELSE new.ready,
     !.delivered = IF SameConditions(old, new)       THEN @ ELSE new.delivered,
     !.sent      = LET changed == At((old.sent \ new.sent) \cup (new.sent \ old.sent))
                   IN  {e \in @ : <<e.kind, e.channel>> \notin changed}
                         \cup (new.sent \ old.sent)]

\* The status patch at the end; a pass that tried to send adds to deliveries.
patchStatus ==
  /\ pc \in {"patch", "patchAndRetry"} /\ Idle
  /\ UNCHANGED <<pipe, seen, cache, handled, outside, queued>>
  /\ LET w == MergePatch(alert, orig, my)
     IN  \/ (w # alert \/ tried) /\ Store(w)
         \/ w = alert /\ ~ tried /\ UNCHANGED <<alert, watch>>
  /\ timer' = (timer \/ pc = "patchAndRetry" \/ failed # {})

ControllerStep == Reconcile \/ Sent \/ patchStatus

-----------------------------------------------------------------------------
(* Informer caches and the delayed queue wake the Alert (SetupWithManager). *)

CacheSync ==
  /\ watch # <<>> /\ cache' = Head(watch) /\ watch' = Tail(watch) /\ queued' = TRUE
  /\ UNCHANGED <<pipe, seen, alert, handled, outside, timer, reconciler>>

\* Mutant: the CD is not watched.
PipeSync_noCD(object) ==
  /\ seen[object] # pipe[object]
  /\ seen' = [seen EXCEPT ![object] = pipe[object]] /\ queued' = (queued \/ object # "cd")
  /\ UNCHANGED <<pipe, alertVars, handled, outside, timer, reconciler>>

PipeSync(object) ==
  /\ seen[object] # pipe[object]
  /\ seen' = [seen EXCEPT ![object] = pipe[object]] /\ queued' = TRUE
  /\ UNCHANGED <<pipe, alertVars, handled, outside, timer, reconciler>>

TimerFires ==
  /\ timer /\ timer' = FALSE /\ queued' = TRUE
  /\ UNCHANGED <<pipe, seen, alertVars, handled, outside, reconciler>>

-----------------------------------------------------------------------------
(* The pipeline, as far as the Alert sees it.                              *)

Fault(kind) == kind \in Faults /\ budget > 0 /\ budget' = budget - 1

PipeTurns(p) ==
  /\ pipe' = p
  /\ UNCHANGED <<seen, alertVars, handled, readable, queued, timer, reconciler>>

CITurns(phase, spec, pod) ==
  PipeTurns([pipe EXCEPT !.ci = [phase |-> phase, spec |-> spec, pod |-> pod]])

Changeable == pipe.svc.rev + pipe.ci.pod + alert.gen < 2 + MaxChanges

Push ==
  /\ Changeable /\ PipeTurns([pipe EXCEPT !.svc.rev = @ + 1])
  /\ UNCHANGED budget

CIDue == pipe.ci.spec < pipe.svc.rev

CIStarts ==   \* also again for a spec whose build went out of sight
  /\ CIDue \/ (pipe.ci.phase = "Idle" /\ pipe.ci.spec > 0)
  /\ Changeable /\ CITurns("Building", pipe.svc.rev, pipe.ci.pod + 1)
  /\ UNCHANGED budget

CIEnds ==
  /\ pipe.ci.phase = "Building"
  /\ \/ CITurns("Succeeded", pipe.ci.spec, pipe.ci.pod) /\ UNCHANGED budget
     \/ CITurns("Failed", pipe.ci.spec, pipe.ci.pod) /\ Fault("build")

CIFails ==    \* without a Pod: credentials or plugins; quota
  /\ CIDue
  /\ \/ CITurns("Failed", pipe.svc.rev, pipe.ci.pod) /\ Fault("creds")
     \/ CITurns("Failed", pipe.ci.spec, pipe.ci.pod) /\ Fault("quota")

CIWaits ==    \* the Service of the CI cannot be read
  /\ pipe.ci.phase # "Idle" /\ CITurns("Idle", pipe.ci.spec, pipe.ci.pod) /\ Fault("service")

CDTurns(phase, image) ==
  PipeTurns([pipe EXCEPT !.cd = [phase |-> phase, image |-> image]])

CDDeploys ==
  /\ pipe.ci.phase = "Succeeded" /\ pipe.cd.image < pipe.ci.spec
  /\ CDTurns("Deploying", pipe.ci.spec) /\ UNCHANGED budget

CDEnds ==
  /\ pipe.cd.image > 0
  /\ \/ pipe.cd.phase # "Running" /\ CDTurns("Running", pipe.cd.image) /\ UNCHANGED budget
     \/ pipe.cd.phase # "Failed"  /\ CDTurns("Failed", pipe.cd.image) /\ Fault("rollout")

-----------------------------------------------------------------------------
(* Users and failures.                                                     *)

EditSpec ==
  /\ Changeable
  /\ \E s \in Specs \ {alert.spec} :
       Store([alert EXCEPT !.spec = s, !.gen = alert.gen + 1])
  /\ UNCHANGED <<pipe, seen, cache, handled, outside, queued, timer, reconciler>>

SendFails == \E arrives \in BOOLEAN : deliver(FALSE, arrives) /\ Fault("send")

SecretUnreadable ==
  /\ readable /\ Fault("secret") /\ readable' = FALSE
  /\ UNCHANGED <<pipe, seen, alertVars, handled, queued, timer, reconciler>>

SecretReadable ==
  /\ ~ readable /\ readable' = TRUE
  /\ UNCHANGED <<pipe, seen, alertVars, handled, budget, queued, timer, reconciler>>

ApiError ==   \* the patch fails; the key is retried
  /\ pc \in {"patch", "patchAndRetry"} /\ Fault("api") /\ Idle /\ queued' = TRUE
  /\ UNCHANGED <<pipe, seen, alertVars, handled, readable, timer>>

Crash ==      \* the operator restarts: caches are listed, every key is queued
  /\ Fault("crash") /\ seen' = pipe /\ cache' = alert /\ watch' = <<>>
  /\ Idle /\ queued' = TRUE /\ timer' = FALSE
  /\ UNCHANGED <<pipe, alert, handled, readable>>

Next ==
  \/ ControllerStep \/ SendFails
  \/ CacheSync \/ (\E o \in {"svc", "ci", "cd"} : PipeSync(o)) \/ TimerFires
  \/ Push \/ CIStarts \/ CIEnds \/ CIFails \/ CIWaits \/ CDDeploys \/ CDEnds
  \/ EditSpec \/ SecretUnreadable \/ SecretReadable \/ ApiError \/ Crash

Spec == Init /\ [][Next]_vars

\* Informers deliver and timers fire.
Wake == CacheSync \/ (\E o \in {"svc", "ci", "cd"} : PipeSync(o)) \/ TimerFires

\* The operator does not rest while it has anything to do.
Fairness == WF_vars(ControllerStep \/ Wake)

FairSpec == Spec /\ Fairness

-----------------------------------------------------------------------------
(* Properties.                                                             *)

\* Types of all variables.
TypeOK ==
  /\ pipe \in Pipeline /\ seen \in Pipeline
  /\ {alert, cache, orig, my} \subseteq Version /\ watch \in Seq(Version)
  /\ handled \subseteq Delivery /\ failed \subseteq Delivery
  /\ {readable, queued, timer, tried} \subseteq BOOLEAN /\ budget \in Nat
  /\ pc \in {"idle", "deliver", "patch", "patchAndRetry"} /\ todo \in Seq(Delivery)

\* What status.lastNotified records has been received by the channel, or was
\* deliberately not sent: no event is taken for sent because of a failure,
\* a restart or a patch from a stale copy.
RecordedMeansHandled ==
  \A e \in alert.sent : \E d \in handled : EntryOf(d) = e

\* "An Alert reports what happens after it exists": nothing is sent before
\* the state it was created in has been recorded.
NothingBeforeBaseline == pc = "deliver" => alert.init

\* Once everything has come to rest with readable Secrets, every event the
\* pipeline shows has reached every channel or was deliberately left out,
\* whatever failed on the way.
AllHandled ==
  LET os == Events(pipe, alert.spec.selects)
  IN  \A c \in Named(alert.spec) : \A i \in DOMAIN os :
        [kind |-> os[i].kind, channel |-> c, event |-> os[i].event] \in handled
EventsArrive == <>[](readable => AllHandled)

\* No wake-up of the Alert is lost: when the caches show everything, no pass runs
\* and neither the queue nor a timer will start one, every event that the pipeline
\* shows has reached every channel or was deliberately left out.
HandledAtRest ==
  pc = "idle" /\ ~ queued /\ ~ timer /\ watch = <<>> /\ seen = pipe => AllHandled

\* Nothing is repeated for ever: the passes that the Alert's own status
\* changes wake find everything recorded.
SendingStops == <>[](pc # "deliver")

=============================================================================
